SPECIFICATION Spec
CONSTANTS
    k1 = k1
    k2 = k2
    k3 = k3
    Keys = {k1, k2, k3}
    Rows = {"r1", "r2"}
    Row <- OneRowEach
    RUN_MODE_PROCESS_TIME = 2
    SwitchTime = 1
    ReportInterval = 2
    KeyReports = {1, 4}
    MaxChanges = 4
INVARIANTS NothingMissed StopsDrained
PROPERTIES StopsAgain
CHECK_DEADLOCK FALSE
