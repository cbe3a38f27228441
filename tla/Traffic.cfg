\* Six ticks, so that five earlier rows are possible and the first ones leave the hour.
SPECIFICATION Spec
CONSTANTS
    p1 = p1
    p2 = p2
    Proxies = {p1, p2}
    Loads <- SomeLoads
    AnomalyThreshold = 5
    MinRows = 3
    MinMean = 1
    Hour = 5
    Retention = 5
    MaxTicks = 6
    MaxFaults = 1
INVARIANTS IInv NeverOvercounts ExactBetweenResets
PROPERTIES AlarmDeserved
CHECK_DEADLOCK FALSE
