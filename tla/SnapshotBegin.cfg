CONSTANTS
    j1 = j1 j2 = j2 a1 = a1 a2 = a2 a3 = a3
    sha = sha oldName = oldName newName = newName
    Jobs = {j1, j2}
    Attempts = {a1, a3}
    JobOf <- MCSingleJobOf
    ShaOf <- MCShaOf
    NameOf <- MCNameOf
    Remote = FALSE
    BeginRefused = TRUE
    Deletable = {}
    MaxFaults = 0
    FaultKinds = {}
SPECIFICATION Spec
INVARIANTS ImportMakesProject
