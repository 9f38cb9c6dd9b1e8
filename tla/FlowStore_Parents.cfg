\* Two finished sessions, listed with and without a mode filter.
CONSTANTS
    s1 = s1  s2 = s2  w1 = w1  w2 = w2  e = e
    Queue <- TwoSessions
    Sessions = {s1, s2}
    Workers = {w1}
    Subscribers = {}
    Capacity = 5
    RetentionBatch = 2
    Buffer = 1
    PageSize = 2
    MaxRestarts = 0
    NoItem = NoItem
SPECIFICATION Spec
INVARIANTS
    GroupsHaveParents
CHECK_DEADLOCK FALSE
