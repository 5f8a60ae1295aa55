SPECIFICATION OrchFairSpec
CONSTANTS
    TaskId = {t1}
    AgentId = {a1, a2}
    Parent = parent
    None = None
    Caller = {c1}
    Fiber <- MCFiber
    NoFiber = NoFiber
    Cap = 2
    Types <- AllTypes
    Defects = TRUE
    Teardowns = TRUE
    RacingRecovery = TRUE
    Crashes = TRUE
    LateRenames = TRUE
    MaxRev = 3
    MaxFaults = 1
    Patches <- MCPatches
\* No symmetry: refinements and a leads-to.
PROPERTIES UsesTheStore ImplementsDelegation EveryChildEnds
CHECK_DEADLOCK FALSE
