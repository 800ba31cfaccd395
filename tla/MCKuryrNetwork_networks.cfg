SPECIFICATION Spec
CONSTANTS
    p1 = p1
    Pods = {p1}
    Ports = {1, 2}
    Vlans = {1, 2}
    PoolMin = 1
    PoolMax = 1
    Batch = 1
    Labels = {1, 2, 3}
    None = 0
    Races = {}
    MaxChanges = 2
    MaxTroubles = 1
CHECK_DEADLOCK FALSE
INVARIANTS NothingLeft LabelsFollow
PROPERTY EventuallyGone
