SPECIFICATION Spec
CONSTANTS
    NoEvent = NoEvent
    NoResult = NoResult
    NoDecision = NoDecision
    Caller = {c1, c2}
    Integrities <- EachMode
    Input = {"medium", "lookup"}
    Policy <- SupportDecisions
    Modes = {"enforce", "observe"}
    MutableArgs = TRUE
    Faults = {"nothing", "partial", "unterminated", "whole"}
SYMMETRY Symmetry
INVARIANTS
    TypeOK
    ExecutionGate
    TrailTellsTheTruth
    OpenTrailsExplained
    ResultIsHonest
    OneDecisionPerCall
    UntouchedCallsReplay
CHECK_DEADLOCK FALSE
