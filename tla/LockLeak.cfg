CONSTANTS
    o1 = o1 o2 = o2 o3 = o3
    c1 = c1 c2 = c2
    Ops = {o1, o2, o3}
    Conns = {c1, c2}
    NoConn = NoConn
    MaxFaults = 0
    Writers = {o1}
SPECIFICATION FairSpec
PROPERTIES LockedByAnother
CHECK_DEADLOCK FALSE
