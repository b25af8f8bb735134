CONSTANTS
    h = h
    m = m
    none = none
    net = net
    cluster = cluster
    team = team
    app = app
    p1 = p1
    Namespaces <- MCNamespaces
    NoNS = none
    Names <- MCNames
    Cluster = cluster
    NsLabels = {team}
    PodLabels = {app}
    Pods = {p1}
    PodNS <- MCPodNS
    Bindings = {}
    BindingNS <- NoFunction
    Excluded = {}
    InitApis <- MCInitApis
    NsValues <- MCNsValues
    VnetValues <- MCVnetValues
    ClusterBaselineValues <- Nothing
    BaselineValues <- NoBaselines
    BindingValues <- Nothing
    PodValues <- Nothing
    Requests <- MCRequests
    MaxEdits = 2
    MaxFaults = 1
SPECIFICATION ASpec
INVARIANTS
    PodsAreRevisited
    HonestRequestsPass
    NoForgedStamps
CHECK_DEADLOCK FALSE
