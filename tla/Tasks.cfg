\* Two tasks at a time on one or two machines; the list holds one.
\* When the last task is done, or the mutex is lost, nothing moves any more.
SPECIFICATION FairSpec
CONSTANTS
    m1 = m1
    m2 = m2
    m3 = m3
    Machines = {m1, m2, m3}
    Items = {i1}
    NeedsRoot = {i1}
    Login <- Logins
    MaxKept = 1
    ScanModes = {"quick"}
    MaxTargets = 2
    MaxTasks = 2
INVARIANTS ProgressTruth IInv
PROPERTIES ProgressNeverFalls KeepsPromises FinishesUnlessStuck
CHECK_DEADLOCK FALSE
