SPECIFICATION SessionFairSpec
CONSTANTS
    Tool = {"Read"}
    SwitchCall = {"SwitchModel"}
    Model = {"opus", "kimi"}
    FirstModel = "opus"
    Replies <- SmallReplies
    MaxIterations = 2
    MaxRetries = 0
    Rogue = FALSE
    LateCancel = TRUE
    CtrlC = {}
    MaxPrompts = 2
    MaxCompacts = 1
    MaxLength = 3
    Nothing = Nothing
    SlowDisk = FALSE
    MaxFaults = 1
    MaxCrashes = 1
INVARIANTS SettledSurvives SavedIsPaired
PROPERTIES TurnsEnd
CHECK_DEADLOCK FALSE
