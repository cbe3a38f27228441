\* Three machines, so that ids can clash: manual caps on egress, and auto mode on
\* ingress only.
SPECIFICATION Spec
CONSTANTS
    eth0 = eth0
    eth1 = eth1
    NoIface = NoIface
    IFBDev = IFBDev
    Machines = {m1, m2, m3}
    Ifaces = {eth0}
    Configs <- ManualConfigs
    Hyst = 1
    MaxGap = 1
    MaxFails = 0
    MaxCrashes = 0
SYMMETRY Perms
INVARIANTS SharesInKernel
