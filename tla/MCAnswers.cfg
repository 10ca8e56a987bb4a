CONSTANTS
    QueueSize = 3
    RetryCount = 1
    RetryWait = 0
    AgeCap = 3
    EventQueueSize = 5
    Hosts = {1}
    LedStates = {0}
    RawIntervals = {}
    FifoHalfDelay = 0
    FifoFullDelay = 1
    LoopTimes = {0, 1}
    ParamWait = 1
    SendTypes = {"KEYS", "CONSUMER", "SYSTEM"}
    EepromNkro = TRUE
    Lossy = TRUE
    EventsRepeat = TRUE
    PromptAcks = FALSE
    BatteryFails = TRUE
    ClockWraps = TRUE
    MaxReports = 2
    Budgets <- ReportsOrEvents
    MaxLink = 1
SPECIFICATION FairSpec
INVARIANTS TransmitBound SilentBuffer
PROPERTIES KeysInOrder SilentWhenCritical BufferDrains ResetConfigures
