CONSTANTS
    web = web
    pod = pod
    hook = hook
    app = app
    other = other
    Services = {web}
    Pods = {pod}
    Discoveries = {hook}
    Labels = {app, other}
    NoSelector = NoSelector
    Ports <- MCPorts
    Named = Named
    InitApis <- RenamedApis
    ServiceEdits <- MCServiceEdits
    PodEdits <- MCPodEdits
    DiscoveryEdits <- MCDiscoveryEdits
    MaxUid = 2
    MaxEdits = 1
    MaxFaults = 0
SPECIFICATION Spec
INVARIANTS
    WaitingPoliciesAreHeldBack
CHECK_DEADLOCK FALSE
