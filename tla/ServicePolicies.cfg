CONSTANTS
    web = web
    pod = pod
    hook = hook
    app = app
    other = other
    Services = {web}
    Pods = {pod}
    Discoveries = {hook}
    Labels = {app, other}
    NoSelector = NoSelector
    Ports <- MCPorts
    Named = Named
    InitApis <- MCInitApis
    ServiceEdits <- MCServiceEdits
    PodEdits <- MCPodEdits
    DiscoveryEdits <- MCDiscoveryEdits
    MaxUid = 2
    MaxEdits = 1
    MaxFaults = 1
SPECIFICATION FairSpec
INVARIANTS
    WaitsAreReported
PROPERTIES
    PoliciesInUseStay
    IsLevelTriggered
    ComesToRest
CHECK_DEADLOCK FALSE
