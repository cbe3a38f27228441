\* One machine, three loops, three requests at a time, four in all; one slow round,
\* one failing statement.
SPECIFICATION FairSpec
CONSTANTS
    NoMachine = NoMachine
    Machines = {m1}
    LoopIds = {l1, l2, l3}
    Handlers = {h1, h2, h3}
    MaxRequests = 4
    MaxSlow = 1
    MaxFails = 1
INVARIANTS IInv HasCredentials CollectedUntilOff
PROPERTIES DisabledStops
