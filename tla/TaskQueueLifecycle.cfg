SPECIFICATION Spec
CONSTANTS
    t1 = t1  t2 = t2  t3 = t3
    run1 = run1   scan1 = scan1
    Tasks <- ThreeRuns
    Keys = {run1, scan1}
    KeyOf <- MixedKeys
    HeavyKeys = {run1}
    Limit = 1
    MaxTries = 2
    MaxCompleted = 1
    FaultKinds = {"submitter_crash", "redis_error", "enqueue_error", "job_timeout"}
    MaxFaults = 1
PROPERTIES
    FollowsLifecycle
