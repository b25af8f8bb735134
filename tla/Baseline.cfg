CONSTANTS
    team = team
    sys = sys
    Namespaces = {team, sys}
    Excluded = {sys}
    Names <- MCNames
    InitApis <- MCInitApis
    ObjectEdits <- BaselineEdits
    MaxEdits = 2
    MaxFaults = 1
SPECIFICATION FairSpec
PROPERTIES
    IsLevelTriggered
    ComesToRest
CHECK_DEADLOCK FALSE
