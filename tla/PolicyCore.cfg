SPECIFICATION Spec
CONSTANTS
    NoDecision = NoDecision
    NoResult = NoResult
    MaxRules = 3
    PolicyFiles <- SmallPolicyFiles
    Inputs <- SmallCalls
INVARIANTS
    TypeOK
    FirstMatchWins
    TraceStopsAtTheMatch
    TraceAgreesWithEvaluate
    UnmatchedCallsAreRefused
    MissingFieldsNeverMatch
    PrioritiesFixTheOrder
    PythonDecidesAlike
CHECK_DEADLOCK FALSE
