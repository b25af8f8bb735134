CONSTANTS
    team = team
    http = http
    dns = dns
    p1 = p1
    p2 = p2
    Namespaces = {team}
    Excluded = {}
    Names = {http, dns}
    Pods = {p1, p2}
    PodNS <- MCPodNS
    PodSpecs <- MCPodSpecs
    InitPods <- MCInitPods
    InitApis <- MCInitApis
    ObjectEdits <- DeleteOrDrift
    MaxEdits = 2
    MaxFaults = 2
SPECIFICATION FairSpec
PROPERTIES
    DeclaredPortsStayOpen
    IsLevelTriggered
    ComesToRest
CHECK_DEADLOCK FALSE
