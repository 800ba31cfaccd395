SPECIFICATION Spec
CONSTANTS
    Pods = {c1, c2}
    PlainPods = {c1}
    Ports = {p1, p2}
    Pools = {k}
    thePool = k
    Nets = {n}
    theNet = n
    SGs = {a}
    NetOf <- OneNetOf
    PoolOf <- OnePoolOf
    PodPool <- OnePodPool
    PodSGs <- TwoPodSGs
    PoolMin = 1
    PoolMax = 1
    PoolBatch = 1
    NoPort = NoPort
    NoSG = NoSG
    Races = {"paged_listing"}
    Troubles = {"failure", "restart", "net deletion", "policy"}
    MaxTroubles = 1
SYMMETRY PortSymmetry
INVARIANTS
    NoPortShared
    UsedPortAlive
    HandedOutWithSGs
    NoPortLost
PROPERTY ImplementsLease
CHECK_DEADLOCK FALSE
