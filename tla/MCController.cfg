SPECIFICATION ControllerSpec
CONSTANTS
    AgentId = {a1, a2}
    Turn = {u1, u2, u3}
    NoTurn = NoTurn
    Headless = FALSE
    Impatient = TRUE
    Compacts = TRUE
    Defects = TRUE
    MaxPrompts = 3
    MaxFaults = 1
    MaxCrashes = 1
SYMMETRY Symmetric
INVARIANTS ToldOnce
CHECK_DEADLOCK FALSE
