SPECIFICATION Spec
CONSTANTS
    NoDecision = NoDecision
    Process = {p1, p2}
    UserPolicies <- SavedPolicies
    UserCases <- SavedCases
SYMMETRY Symmetry
INVARIANTS
    LoadersAgree
    TestedPoliciesHoldInPython
PROPERTIES
    InitKeepsEarlierFiles
CHECK_DEADLOCK FALSE
