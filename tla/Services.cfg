CONSTANTS
    f1 = f1 f2 = f2 f3 = f3 m1 = m1 m2 = m2
    r1 = r1 r2 = r2 r3 = r3 r4 = r4 c1 = c1 c2 = c2 u1 = u1 u2 = u2
    t1 = t1 None = None
    Founders = {f1, f2, f3}
    Mails = {m1, m2}
    Signup = TRUE
    Clients <- MCClients
    Limit = 2
    MaxWindows = 1
    Contents = {"a", "b"}
    Readers = {u1, u2}
    Changers = {c1, c2}
    Calibrators = {u1, u2}
    Tasks = {t1}
    Windows <- RouteWindows
    MinSamples = 1
    MaxCalibrations = 2
    Defaults <- RouteDefaults
    BaseWeights <- RouteWeights
    Profile = "fast"
    Profiles = {"fast"}
    Pools <- RoutePools
    Stats <- ModelStats
    Confidence = 550
    MaxPrompt = 8000
    Requests <- RouteRequests
    Versions <- RouteClients
    Files <- MetricFiles
    FirstEdges <- ScannedEdges
    Updaters = {u1, u2}
    MaxComponent = 2
    Trees <- ProjectTrees
    Confs <- ProjectConfs
    Imports <- AllImports
    RootNames <- ProjectRoot
    Segments = {"a", "b"}
    Patterns <- RoutePatterns
    CallPatterns <- CallTokens
    Words <- Paths
    Routers <- ThreeRouters
    Includes <- InclusionGraphs
    MaxDepth = 2
    MaxPrefixes = 2
SPECIFICATION ServicesSpec
INVARIANTS ServicesTypeOK FoundingSound CachesExplained LimitHolds MetricsExplained
    MatchingExplained ImportsExplained RoutingExplained
SYMMETRY Alike
