SPECIFICATION Spec
CONSTANTS
    p1 = p1
    p2 = p2
    v1 = v1
    v2 = v2
    Pods = {p1, p2}
    VFs = {v1, v2}
    Ports = {1, 2, 3}
    Containers = {1, 2}
    Requests <- MCRequests
    Networks <- MCNetworks
    None = None
    Races = {}
    MaxChanges = 3
    MaxTroubles = 1
CHECK_DEADLOCK FALSE
INVARIANTS Attached NothingLeft
 
