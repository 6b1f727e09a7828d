CONSTANTS
    j1 = j1 j2 = j2 a1 = a1 a2 = a2 a3 = a3
    sha = sha oldName = oldName newName = newName
    Jobs = {j1, j2}
    Attempts = {a1, a2}
    JobOf <- MCReplayJobOf
    ShaOf <- MCShaOf
    NameOf <- MCNameOf
    Remote = FALSE
    BeginRefused = FALSE
    Deletable = {}
    MaxFaults = 1
    FaultKinds = {"crash"}
SPECIFICATION Spec
INVARIANTS ReplayReuses
