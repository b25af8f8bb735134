CONSTANTS
    team = team
    op = op
    Namespaces = {team, op}
    Excluded = {op}
    OperatorNS = op
    Names <- MCNames
    InitApis <- MCInitApis
    ObjectEdits <- Edits
    MaxEdits = 3
    MaxFaults = 2
SPECIFICATION FairSpec
PROPERTIES
    VnetsInUseStay
    IsLevelTriggered
    ComesToRest
CHECK_DEADLOCK FALSE
