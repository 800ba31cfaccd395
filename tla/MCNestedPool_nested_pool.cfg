SPECIFICATION PoolSpec
CONSTANTS
    p1 = p1
    p2 = p2
    Pods = {p1, p2}
    Ports = {1, 2, 3, 4, 5}
    Vlans = {1, 2, 3, 4}
    PoolMin = 1
    PoolMax = 1
    Batch = 1
    None = 0
    Races = {}
    MaxChanges = 3
    MaxTroubles = 1
CHECK_DEADLOCK FALSE
INVARIANTS PortsUsable 
PROPERTY EventuallyServed
