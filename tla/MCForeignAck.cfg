CONSTANTS
    QueueSize = 3
    RetryCount = 2
    RetryWait = 1
    AgeCap = 3
    EventQueueSize = 5
    Hosts = {1}
    LedStates = {0}
    RawIntervals = {0}
    FifoHalfDelay = 0
    FifoFullDelay = 1
    LoopTimes = {0, 1}
    ParamWait = 2
    SendTypes = {"KEYS", "CONSUMER"}
    EepromNkro = FALSE
    Lossy = FALSE
    EventsRepeat = FALSE
    PromptAcks = TRUE
    BatteryFails = FALSE
    ClockWraps = FALSE
    MaxReports = 3
    Budgets <- OnlyReports
    MaxLink = 2
SPECIFICATION Spec
INVARIANT NoSilentLoss
