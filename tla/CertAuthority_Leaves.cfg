\* Two commands write CA files and the daemon loads them; two sessions on two hosts, room for one leaf.
CONSTANTS
    x1 = x1  x2 = x2  s1 = s1  s2 = s2
    Commands = {x1, x2}
    Earlier = Earlier
    Nobody = Nobody
    NoHost = NoHost
    Hosts <- TwoHosts
    Sessions = {s1, s2}
    Lifetime = 3
    Skew = 1
    Margin = 1
    Backdate = 1
    CALifetime = 4
    MaxCached = 1
    LastTime = 5
    MaxSteps = 1
SYMMETRY Symmetry
SPECIFICATION Spec
INVARIANTS
    LeafVerifies
    WholePairs
    LeftoverNeverOpaque
CHECK_DEADLOCK FALSE
