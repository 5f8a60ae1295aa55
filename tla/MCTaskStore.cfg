\* No symmetry: a refinement and a leads-to.
SPECIFICATION StoreFairSpec
CONSTANTS
    TaskId = {t1}
    AgentId = {a1}
    Parent = parent
    None = None
    Fiber = {f1, f2}
    NoFiber = NoFiber
    LateRenames = FALSE
    MaxRev = 3
    MaxFaults = 1
    Patches <- MCPatches
INVARIANTS StoreTypeOK AckedIsDurable DriftIsALostWrite CaughtUpMeansEqual
PROPERTIES NoStaleOverwrite ImplementsDurableLog PersistEnds
CHECK_DEADLOCK FALSE
