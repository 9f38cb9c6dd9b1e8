\* Admission under reloads: one CONNECT and one request, two edits of the policy.
CONSTANTS
    c1 = c1  c2 = c2  api = api  bulk = bulk  t1 = t1  t2 = t2
    s1 = s1  s2 = s2  x1 = x1  x2 = x2
    Clients = {c1, c2}
    Hosts = {api, bulk}
    Tokens = {t1, t2}
    Policies <- AllPolicies
    Removed = Removed
    Invalid = Invalid
    NotLoading = NotLoading
    HasCA = TRUE
    HasSecrets = TRUE
    Scoped <- BrokeredApi
    Conns = {x1}
    Streams = {s1}
    NoConn = NoConn
    MaxEdits = 2
SYMMETRY StreamSymmetry
SPECIFICATION Spec
INVARIANTS
    ForwardedUnderOnePolicy
    RuledNeverOpaque
    BrokeredMediated
    ReloadTakesEffect
CHECK_DEADLOCK FALSE
