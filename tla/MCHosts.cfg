CONSTANTS
    QueueSize = 3
    RetryCount = 1
    RetryWait = 0
    AgeCap = 3
    EventQueueSize = 16
    Hosts = {1, 2}
    LedStates = {0, 1}
    RawIntervals = {}
    FifoHalfDelay = 0
    FifoFullDelay = 1
    LoopTimes = {0, 1}
    ParamWait = 1
    SendTypes = {"KEYS", "MOUSE"}
    EepromNkro = FALSE
    Lossy = TRUE
    EventsRepeat = TRUE
    PromptAcks = TRUE
    BatteryFails = FALSE
    ClockWraps = FALSE
    MaxReports = 2
    Budgets <- ManyEvents
    MaxLink = 2
SPECIFICATION Spec
INVARIANTS OnlyOwnHost AgreeWhenQuiet LedsOfHost
