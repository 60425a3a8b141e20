\* Two declared targets, two checks, six findings; limits that fold.
SPECIFICATION Spec
CONSTANTS
    tls = tls
    net = net
    Ids = {1, 2, 3, 4, 5, 6}
    Tools = {tls, net}
    NoFinding = NoFinding
    Declared <- MCDeclared
    Hosts <- MCHosts
    Outside <- MCOutside
    HostOf <- MCHostOf
    PortOf <- MCPortOf
    Seen <- MCSeen
    Tiers = {"free", "pro"}
    Configs <- MCConfigs
    ShownCap <- MCShownCap
    MaxHostsPerRoot = 2
    MaxServicesPerHost = 1
    MaxRetries = 1
INVARIANTS TypeOK SurfaceWhole AccountsAgree EngineSpeaksFirst ExplainedIsShown
PROPERTIES Answered
