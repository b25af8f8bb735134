CONSTANTS
    h = h
    m = m
    op = op
    none = none
    net = net
    cluster = cluster
    plain = plain
    team = team
    app = app
    pa = pa
    pb = pb
    Namespaces <- ThreeNamespaces
    NoNS = none
    Names <- MCNames
    Cluster = cluster
    NsLabels = {plain, team}
    PodLabels = {app}
    Pods = {pa, pb}
    PodNS <- MCPodNS
    Bindings = {}
    BindingNS <- NoFunction
    Excluded = {op}
    OperatorNS = op
    Labelled <- MCLabelled
    InitApis <- FaultApis
    NsValues <- FaultNs
    VnetValues <- FaultVnets
    PodValues <- FaultPods
    PolicyValues <- Damage
    MaxEdits = 1
    MaxFaults = 1
SPECIFICATION FairSpec
INVARIANTS
    TypeOK
    TrafficMatchesMembership
    NoOrphanPolicies
    StatusIsAccurate
PROPERTIES
    Converges
CHECK_DEADLOCK FALSE
