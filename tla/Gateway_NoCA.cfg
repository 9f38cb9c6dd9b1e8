\* A daemon without an interception CA and without brokers; the policy has rules.
CONSTANTS
    c1 = c1  c2 = c2  api = api  bulk = bulk  t1 = t1  t2 = t2
    s1 = s1  s2 = s2  x1 = x1  x2 = x2
    Clients = {c1, c2}
    Hosts = {api, bulk}
    Tokens = {t1, t2}
    Policies <- RulePolicies
    Removed = Removed
    Invalid = Invalid
    NotLoading = NotLoading
    HasCA = FALSE
    HasSecrets = FALSE
    Scoped = {}
    Conns = {x1}
    Streams = {s1}
    NoConn = NoConn
    MaxEdits = 0
SPECIFICATION Spec
INVARIANTS
    RuledNeverOpaque
CHECK_DEADLOCK FALSE
