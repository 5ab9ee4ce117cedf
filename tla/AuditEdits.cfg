SPECIFICATION Spec
CONSTANTS
    NoEvent = NoEvent
    MaxEvents = 3
    MaxEdits = 2
    Content = {"a", "b"}
INVARIANTS
    TypeOK
    UneditedLogVerifies
    VerifiedLinesAreAuthentic
    FirstInvalidLineLocatesEdit
CHECK_DEADLOCK FALSE
