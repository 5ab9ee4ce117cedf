SPECIFICATION MixedSpec
CONSTANTS
    NoEvent = NoEvent
    NoResult = NoResult
    NoReply = NoReply
    Rejected = Rejected
    Caller = {n1, p1}
    PythonCaller = {p1}
    Integrities <- EachIntegrity
    Input = {"refund", "large", "nan"}
    NotJson = {"nan"}
    Policy <- Decisions
    Modes = {"enforce", "observe"}
    MutableArgs = FALSE
    Faults = {"mkdir", "read", "nothing", "partial", "unterminated", "whole"}
    Agent <- Agents
    Tool <- Agents
INVARIANTS
    McpRepliesAreHonest
    PythonOutcomesAreBacked
    ReportAccountsForCalls
CHECK_DEADLOCK FALSE
