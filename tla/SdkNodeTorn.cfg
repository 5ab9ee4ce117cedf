SPECIFICATION Spec
CONSTANTS
    NoEvent = NoEvent
    NoResult = NoResult
    NoDecision = NoDecision
    Caller = {c1, c2}
    Integrities <- NoIntegrity
    Input = {"small"}
    Policy <- SupportDecisions
    Modes = {"enforce"}
    MutableArgs = FALSE
    Faults = {"partial"}
INVARIANT EvidenceBeforeSideEffect
CHECK_DEADLOCK FALSE
