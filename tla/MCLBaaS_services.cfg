SPECIFICATION Spec
CONSTANTS
    src = src
    AnySource = AnySource
    None = None
    Pods = {a}
    Ports = {1, 2, 3}
    IPs = {i, j}
    PortSets <- ThePortSets
    Clash <- TheClash
    DoubleListeners = FALSE
    PublicIp = {TRUE, FALSE}
    Allowed <- TheAllowed
    Acls = FALSE
    Races = {}
    MaxChanges = 2
    MaxTroubles = 1
INVARIANTS SettledInSync NothingLeft RulesFollowPolicy PublicIpAttached
CHECK_DEADLOCK FALSE
PROPERTY EventuallySettled
