\* Three requests, two keys and room for one: evicted transports drain while others are used.
CONSTANTS
    k1 = k1  k2 = k2  k3 = k3  r1 = r1  r2 = r2  r3 = r3
    Keys = {k1, k2}
    Http2Keys = {k2}
    Requests = {r1, r2, r3}
    MaxCached = 1
    MaxTransports = 3
    MaxTime = 0
    None = None
SYMMETRY Symmetry
SPECIFICATION Spec
INVARIANTS
    AccountsExact
PROPERTIES
    NoIdleLeak
CHECK_DEADLOCK FALSE
