CONSTANTS
    ann = ann bob = bob cat = cat dan = dan
    h1 = h1 h2 = h2 h3 = h3 r1 = r1 r2 = r2 u1 = u1 f1 = f1 d1 = d1
    People = {ann, bob, cat, dan}
    Handlers = {h1, h2, h3}
    MemberRequests <- MCMemberRequests
    FirstMembers <- MCFirstMembers
    Runs = {r1, r2}
    Users = {u1}
    Texts = {d1}
    Long = {d1}
    Requests <- MCRequests
    Limits = {1, 2}
    MaxRetries = 2
    MaxEscalations = 1
    Missing <- MissingLists
    CallCeiling = 3
    MaxCrashes = 1
    Files = {f1}
    Sizes = {1, 3}
    Offered <- LoopTools
    World <- LoopWorld
    ArgShapes = {"good"}
    MaxCalls = 3
    Budget = 3
    Minimized = 2
    MaxBatch = 2
    EvidenceMode = TRUE
    SelfCheckRetry = TRUE
SPECIFICATION TasksSpec
INVARIANTS TasksTypeOK OwnerRemains QuotaHolds EscalationsExplained PatchesExplained LoopExplained
PROPERTIES WithinActorsRole TasksEnd
