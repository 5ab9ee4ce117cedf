SPECIFICATION FairSpec
CONSTANTS
    NoEvent = NoEvent
    NoResult = NoResult
    NoDecision = NoDecision
    Caller = {c1, c2}
    Integrities <- EachMode
    Input = {"small", "medium", "large", "lookup"}
    Policy <- SupportDecisions
    Modes = {"enforce"}
    MutableArgs = FALSE
    Faults = {"partial", "whole"}
PROPERTIES
    CallsReturn
    ImplementsGate
CHECK_DEADLOCK FALSE
