CONSTANTS
    Beacons = {n1, n2}
    MaxWait = 4
    Interval = 1
    DialTimeout = 2
    MaxChanges = 2
SPECIFICATION WFairSpec
INVARIANTS
    WTypeOK
    ReleasedMeansProgrammed
    NeverResolvedIsTrue
    SkippedWaitsAreReported
PROPERTIES
    EveryPodStarts
CHECK_DEADLOCK FALSE
