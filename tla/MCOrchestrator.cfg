SPECIFICATION OrchSpec
CONSTANTS
    TaskId = {t1, t2}
    AgentId = {a1, a2, a3}
    Parent = parent
    None = None
    Caller = {c1}
    Fiber <- MCFiber
    NoFiber = NoFiber
    Cap = 1
    Types <- AllTypes
    Defects = TRUE
    Teardowns = TRUE
    RacingRecovery = FALSE
    Crashes = TRUE
    LateRenames = FALSE
    MaxRev = 5
    MaxFaults = 1
    Patches = {}
SYMMETRY Symmetric
INVARIANTS CapHolds OneChildPerTask LiveOwnsItsTask ResultsStayPending FinishedWorktreeExists
CHECK_DEADLOCK FALSE
