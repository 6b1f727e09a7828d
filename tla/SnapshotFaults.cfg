CONSTANTS
    j1 = j1 j2 = j2 a1 = a1 a2 = a2 a3 = a3
    sha = sha oldName = oldName newName = newName
    Jobs = {j1, j2}
    Attempts = {a1, a2, a3}
    JobOf <- MCJobOf
    ShaOf <- MCShaOf
    NameOf <- MCNameOf
    Remote = TRUE
    BeginRefused = FALSE
    Deletable = {j1, j2}
    MaxFaults = 2
    FaultKinds = {"io", "database", "crash", "lease", "timeout"}
SPECIFICATION Spec
INVARIANTS MarkedRootIsWhole ProjectKeepsItsFiles OrphanObjectExplained LeftOnlyByCrossedDeletes
