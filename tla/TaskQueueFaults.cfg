SPECIFICATION FairSpec
CONSTANTS
    t1 = t1  t2 = t2  t3 = t3
    run1 = run1   scan1 = scan1
    Tasks <- TwoRuns
    Keys = {run1, scan1}
    KeyOf <- TwinKey
    HeavyKeys = {run1}
    Limit = 1
    MaxTries = 2
    MaxCompleted = 1
    FaultKinds = {"submitter_crash", "db_error", "enqueue_error", "enqueue_timeout", "worker_crash", "job_timeout"}
    MaxFaults = 2
INVARIANTS
    WorkIsRecorded
    ExclusiveWork
    IndInv
    StrandedOnlyByFailure
    SlotsExplained
PROPERTIES
    SuccessStands
    QueueSettles
