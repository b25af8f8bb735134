CONSTANTS
    h = h
    m = m
    none = none
    net = net
    cluster = cluster
    plain = plain
    team = team
    app = app
    other = other
    p1 = p1
    b1 = b1
    Namespaces <- MCNamespaces
    NoNS = none
    Names <- MCNames
    Cluster = cluster
    NsLabels <- MCNsLabels
    PodLabels <- MCPodLabels
    Pods = {p1}
    PodNS <- OnePod
    Bindings = {b1}
    BindingNS <- MCBindingNS
    Excluded = {}
    InitApis <- MCInitApis
    NsValues <- MCNsValues
    VnetValues <- MCVnetValues
    ClusterBaselineValues <- MCClusterBaselineValues
    BaselineValues <- MCBaselineValues
    BindingValues <- MCBindingValues
    PodValues <- MCPodValues
    MaxEdits = 1
    MaxFaults = 1
SPECIFICATION FairSpec
INVARIANTS
    TypeOK
    NoMissedTrigger
    JobIsCurrent
    QuietStampsAreGranted
PROPERTIES
    Stabilises
CHECK_DEADLOCK FALSE
