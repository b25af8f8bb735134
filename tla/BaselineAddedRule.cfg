CONSTANTS
    team = team
    sys = sys
    Namespaces = {team, sys}
    Excluded = {sys}
    Names <- MCNames
    InitApis <- MCInitApis
    ObjectEdits <- AddRule
    MaxEdits = 1
    MaxFaults = 0
SPECIFICATION Spec
INVARIANT AddedRulesAreRemoved
CHECK_DEADLOCK FALSE
