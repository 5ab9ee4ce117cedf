SPECIFICATION Spec
CONSTANTS
    NoEvent = NoEvent
    NoResult = NoResult
    NoDecision = NoDecision
    Caller = {c1, c2}
    Integrities <- HashChain
    Input = {"small"}
    Policy <- SupportDecisions
    Modes = {"enforce"}
    MutableArgs = FALSE
    Faults = {}
INVARIANT LaterEventsStorePreviousHash
CHECK_DEADLOCK FALSE
