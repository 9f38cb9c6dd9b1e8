\* Five flows through a store of three, paged by two, one restart, one slow subscriber.
CONSTANTS
    s1 = s1  s2 = s2  w1 = w1  w2 = w2  e = e
    Queue <- TwoSessions
    Sessions = {s1, s2}
    Workers = {w1, w2}
    Subscribers = {e}
    Capacity = 3
    RetentionBatch = 2
    Buffer = 1
    PageSize = 2
    MaxRestarts = 1
    NoItem = NoItem
SPECIFICATION Spec
INVARIANTS
    RetentionExact
    PagesExact
CHECK_DEADLOCK FALSE
