SPECIFICATION Spec
CONSTANTS
    SensitivePaths = {".env"}
    DashWords = {"--version", "-c", "-X", "-Rf"}
    Commands <- SmallCommands
    Options <- SmallOptions
INVARIANTS
    VerdictKeepsEveryFinding
    OptionsOnlyAdd
CHECK_DEADLOCK FALSE
