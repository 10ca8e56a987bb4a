SPECIFICATION Spec
CONSTANTS
    Keys = {k1, k2, k3}
    DEBOUNCE = 3
    CounterMax = 4
    TimerRange = 8
    Gaps = {0, 1, 2, 5}
INVARIANTS TypeOK NoForgottenChange ScanInvariant
PROPERTIES ChangesApart
