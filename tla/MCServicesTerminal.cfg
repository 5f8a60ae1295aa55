SPECIFICATION ServicesSpec
CONSTANTS
    Part = {"terminal"}

    t1 = t1  t2 = t2  p1 = p1  p2 = p2  a = a  b = b

    Provider = {"codex", "other"}
    Target <- Targets
    ProviderOf <- Owner
    ModelOf <- Model
    DefaultOf <- Recommended
    Capability <- Skill
    Cost <- Price
    First <- Firsts
    Unknown = Unknown
    None = None
    NewKey = NewKey
    MaxEdits = 4

    Turn = {t1, t2}
    Codex = "codex"
    Free = Free
    MaxTokens = 2

    Session = {"main", "child"}
    Kind <- Kinds
    Call = {p1, p2}
    Content = {a, b}
    Torn = Torn
    Missing = Missing
    Unlocked = Unlocked
    MaxTime = 3

    CommandLine <- CommandLines
    Unset = Unset
    MaxMessages = 5

    Request = {"mine", "childs", "question"}
    Asks <- Asking
    ByChild = {"childs"}
    Questions = 1
    Vacant = Vacant
    MaxPieces = 2
    MaxKeys = 4

    Window <- Windows
    MaxOutput <- Outputs
    OutputReserveCap = 8
    TailBudget = 6
    SummaryOverhead = 1
    SystemTokens = 1
    ToolTokens = 2
    CallTokens = 1
    NoticeTokens = 4
    MessageTokens = {4}
    ResultTokens = {9}
    Threshold = 5
    PreviewTokens = 2
    Unmeasured = Unmeasured
    MaxRequests = 2
    MaxHistory = 5
CHECK_DEADLOCK FALSE
INVARIANT CtrlCWorks
