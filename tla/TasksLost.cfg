\* A cleanup request without a machine; all machines answer.
SPECIFICATION AnsweredSpec
CONSTANTS
    m1 = m1
    m2 = m2
    m3 = m3
    Machines = {m1, m2, m3}
    Items = {i1}
    NeedsRoot = {i1}
    Login <- Logins
    MaxKept = 2
    ScanModes = {"rootkit"}
    MaxTargets = 1
    MaxTasks = 2
PROPERTIES StartedTasksFinish
CHECK_DEADLOCK FALSE
