SPECIFICATION Spec
CONSTANTS
    Policies = {np1}
    home = home
    away = away
    Home = home
    Spaces = {home, away}
    p1 = p1
    p2 = p2
    Pods = {p1, p2}
    SpaceOf <- MCSpaceOf
    a = a
    b = b
    Labels = {a, b}
    Specs <- MCSpecs
    Groups = {1, 2, 3}
    Default = 0
    World = world
    Any = any
    None = none
    Races = {}
    MaxChanges = 2
    MaxTroubles = 1
CHECK_DEADLOCK FALSE
INVARIANTS Enforced CrdIsRecord  
PROPERTIES  EventuallySettled
