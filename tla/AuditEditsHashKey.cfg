SPECIFICATION Spec
CONSTANTS
    NoEvent = NoEvent
    MaxEvents = 3
    MaxEdits = 2
    Content = {"a", "b"}
INVARIANT ModifiedContentDetected
CHECK_DEADLOCK FALSE
