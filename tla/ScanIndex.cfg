CONSTANTS
    p1 = p1 p2 = p2 e1 = e1 e2 = e2
    Paths = {p1, p2}
    Imports <- OneImport
    Starts = {{p1, p2}, {p1}}
    Patches <- OnePatch
    Edits = {e1, e2}
    Scan = Scan
    MaxFaults = 1
SPECIFICATION Spec
SYMMETRY Symmetry
PROPERTIES WritesWhatIsThere ScanCatchesUp
CHECK_DEADLOCK FALSE
INVARIANTS StaleExplained ApiFollowsNode DanglingEdgeExplained
