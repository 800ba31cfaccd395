SPECIFICATION Spec
CONSTANTS
    u1 = u1
    u2 = u2
    s3 = s3
    Pods = {u1, u2}
    Containers = {s1, s2, s3}
    PodOf <- TwoPodOf
    NoContainer = NoContainer
    NoPod = NoPod
    MaxFailures = 0
    Races = {"overlap"}
    MaxRestarts = 0
INVARIANT KeepsVif
CHECK_DEADLOCK FALSE
