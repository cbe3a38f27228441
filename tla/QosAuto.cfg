\* Two machines, one interface; off and auto mode, one failing command, one crash.
SPECIFICATION FairSpec
CONSTANTS
    eth0 = eth0
    eth1 = eth1
    NoIface = NoIface
    IFBDev = IFBDev
    Machines = {m1, m2}
    Ifaces = {eth0}
    Configs <- OffConfigs
    Hyst = 1
    MaxGap = 2
    MaxFails = 1
    MaxCrashes = 1
INVARIANTS IInv KernelInSync PrefixHeld StopCleansUp ShapedWhileRecentlyBusy
PROPERTIES OffCleansUp ActiveGetsShaped
