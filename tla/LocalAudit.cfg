SPECIFICATION AuditSpec
CONSTANTS
    NoEvent = NoEvent
    Caller = {c1, c2, c3}
    Integrities <- AnyIntegrity
    Input = {"i"}
    Faults = {"mkdir", "read", "nothing", "partial", "unterminated", "whole"}
INVARIANTS
    AuditTypeOK
    AckedEventsOnFile
    TornWriteCostsOneEvent
    EveryLineChainsBackwards
    SerialLogVerifies
    ChainedLinesComeFirst
PROPERTIES
    AppendOnly
    AppendsSettle
CHECK_DEADLOCK FALSE
