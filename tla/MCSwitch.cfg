SPECIFICATION Spec
CONSTANTS
    Hosts = {1}
    ClockRange = 4
    SwitchTime = 1
    PairTime = 2
    BootTime = 2
    EepromNkro = FALSE
    FORCE_NKRO = FALSE
    PromptModule = TRUE
    Sleeps = TRUE
    MaxMoves = 2
    MaxKeys = 1
INVARIANTS OwnLink
PROPERTIES NkroRestored SwitchWins
