\* The loop's rounds and a manual one beside them, three frames in two ticks.
SPECIFICATION Spec
CONSTANTS
    eth = eth
    wg = wg
    root = root
    Mounts = {root}
    Tools = {"rkhunter", "clamav-daemon", "ufw"}
    Loops = {loop}
    Manuals = {manual}
    Devices = {eth, wg}
    FirstDevices = {eth}
    Loads <- SomeLoads
    Snapshots <- SomeSnapshots
    Settings <- SomeSettings
    Steps = {1, 15}
    SessionTicks = 1
    MaxTicks = 2
    MaxReads = 3
    MaxFaults = 1
INVARIANTS IInv FreshOrWarned NetNeverOvercounts WorseNeverBetter
PROPERTIES SlowDataKeptAlone
CHECK_DEADLOCK FALSE
