CONSTANTS
    o1 = o1 o2 = o2 o3 = o3 c1 = c1 c2 = c2
    p1 = p1 p2 = p2 p3 = p3 w1 = w1 w2 = w2 k1 = k1 k2 = k2 k3 = k3
    Ops = {o1, o2, o3}
    Conns = {c1, c2}
    NoConn = NoConn
    MaxFaults = 2
    Writers = {o1, o2}
    Consumers = {p1, p2, p3}
    Producer = Producer
    Batches = 4
    Pipelines <- CheckedPipelines
    MaxCancels = 2
    Workers = {w1, w2}
    Chunks = 5
    Batch = 4
    MaxFailures = 2
    MaxStrikes = 2
    Calls = {k1, k2, k3}
    Permits = 2
    PoolWorkers = 1
    MaxMade = 2
    StopsAtError = TRUE
SPECIFICATION MachinesSpec
INVARIANTS MachinesTypeOK Exclusive ConnsAccounted ScanSettled UploadSettled PoolsHold
PROPERTIES MachinesEnd
CHECK_DEADLOCK FALSE
