\* Three machines: two of them can end up with one class.
SPECIFICATION Spec
CONSTANTS
    eth0 = eth0
    eth1 = eth1
    NoIface = NoIface
    IFBDev = IFBDev
    Machines = {m1, m2, m3}
    Ifaces = {eth0}
    Configs <- BusyConfigs
    Hyst = 1
    MaxGap = 1
    MaxFails = 0
    MaxCrashes = 0
SYMMETRY Perms
INVARIANTS DistinctClassIds
