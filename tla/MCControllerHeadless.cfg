\* No symmetry: a refinement and a leads-to.
SPECIFICATION ControllerFairSpec
CONSTANTS
    AgentId = {a1, a2, a3}
    Turn = {u1, u2}
    NoTurn = NoTurn
    Headless = TRUE
    Impatient = FALSE
    Compacts = FALSE
    Defects = TRUE
    MaxPrompts = 1
    MaxFaults = 0
    MaxCrashes = 0
INVARIANTS OneParentTurn DrainIsFlushed
PROPERTIES InjectsBetweenTurns ImplementsDelivery WaitEnds
CHECK_DEADLOCK FALSE
