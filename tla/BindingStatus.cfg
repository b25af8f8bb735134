CONSTANTS
    h = h
    m = m
    op = op
    net = net
    cluster = cluster
    plain = plain
    team = team
    app = app
    other = other
    pa = pa
    pb = pb
    b = b
    Namespaces = {h, m, op}
    NoNS = none
    Names <- MCNames
    Cluster = cluster
    NsLabels = {plain, team}
    PodLabels = {app, other, malformed}
    Malformed = malformed
    Pods = {pa, pb}
    PodNS <- MCPodNS
    Bindings = {b}
    BindingNS <- MCBindingNS
    Excluded = {op}
    OperatorNS = op
    OperatorManaged <- MCOperatorManaged
    InitApis <- MCInitApis
    NsValues <- MCNsValues
    VnetValues <- MCVnetValues
    BindingValues <- MCBindingValues
    PodValues <- MCPodValues
    MaxEdits = 2
    MaxFaults = 1
SPECIFICATION FairSpec
INVARIANTS
    AttachedPodsAreMembers
    ReadyMeansInEffect
PROPERTIES
    IsLevelTriggered
    ComesToRest
CHECK_DEADLOCK FALSE
