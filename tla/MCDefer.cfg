SPECIFICATION Spec
CONSTANTS
    MAX_DEFERRED_EXECUTORS = 2
    TokenRange = 3
    TimerRange = 11
    Delays = {0, 1, 3}
    Repeats = {0, 2}
    SelfCancel = FALSE
    Stall = 2
    MaxJobs = 4
INVARIANTS TableHoldsPending OnSchedule
PROPERTIES NotEarly DueIsInvoked
