\* A loop that has met the switch off drops a machine switched on again.
SPECIFICATION Spec
CONSTANTS
    NoMachine = NoMachine
    Machines = {m1}
    LoopIds = {l1, l2}
    Handlers = {h1}
    MaxRequests = 4
    MaxSlow = 0
    MaxFails = 0
SYMMETRY Perms
INVARIANTS EnabledIsCollected
