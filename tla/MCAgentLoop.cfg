SPECIFICATION AgentSpec
CONSTANTS
    Tool = {"Read", "Edit"}
    SwitchCall = {"SwitchModel"}
    Model = {"opus", "kimi"}
    FirstModel = "opus"
    Replies <- SmallReplies
    MaxIterations = 2
    MaxRetries = 1
    Rogue = TRUE
    LateCancel = FALSE
    CtrlC = {"summarizing", "streaming"}
    MaxPrompts = 2
    MaxCompacts = 1
    MaxLength = 4
INVARIANTS SummaryAndTailPartition SwitchesBounded RepliesAlternate
PROPERTIES RequestsArePaired HistoryGrows
CHECK_DEADLOCK FALSE
