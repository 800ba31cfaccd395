SPECIFICATION FairSpec
CONSTANTS
    Pods = {c1, c2}
    PlainPods = {c1}
    Ports = {p1, p2, p3}
    Pools = {k}
    thePool = k
    Nets = {n}
    theNet = n
    SGs = {}
    NetOf <- OneNetOf
    PoolOf <- OnePoolOf
    PodPool <- OnePodPool
    PodSGs <- TwoPodSGs
    PoolMin = 1
    PoolMax = 0
    PoolBatch = 1
    NoPort = NoPort
    NoSG = NoSG
    Races = {}
    Troubles = {"restart"}
    MaxTroubles = 1
INVARIANT OnePlace
PROPERTIES
    EventuallyRecycled
    
CHECK_DEADLOCK FALSE
