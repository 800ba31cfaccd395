SPECIFICATION FairSpec
CONSTANTS
    Paths = {p, q}
    thePath = p
    HA = TRUE
    MaxElections = 2
    Objects = {a}
    PathOf <- OnePathOf
    QueueDepth = 2
    MaxVersion = 3
    Failures = {"watch", "sync", "not ready", "conflict", "other"}
    MaxFailures = 1
INVARIANTS
    PathsWatched
PROPERTIES
    
    
    DeletionHandled
CHECK_DEADLOCK FALSE
