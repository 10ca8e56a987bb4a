SPECIFICATION Spec
CONSTANTS
    k1 = k1
    k2 = k2
    k3 = k3
    Keys = {k1, k2, k3}
    NoKey = NoKey
    Builds <- AllBuilds
    TAPPING_TERM = 2
    QUICK_TAP_TERM = 2
    TimerRange = 8
    Gaps = {1, 2}
    MaxPresses = 3
INVARIANTS TypeOK NoStuckKey InOrder HoldsApply DecisionRule
PROPERTIES BufferDrains
