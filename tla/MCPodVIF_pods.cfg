SPECIFICATION Spec
CONSTANTS
    p1 = p1
    p2 = p2
    Pods = {p1, p2}
    Ports = {1, 2, 3, 4, 5, 6}
    Wanted <- MCWanted
    Attempts = 3
    None = 0
    Races = {}
    MaxChanges = 4
    MaxTroubles = 1
CHECK_DEADLOCK FALSE
INVARIANTS VifsWork NothingLeft
PROPERTY EventuallyServed
