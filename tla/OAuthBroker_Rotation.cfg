\* Token responses of two clients handled concurrently, failing writes, one crash.
CONSTANTS
    k1 = k1  k2 = k2  c1 = c1  c2 = c2  issuer = issuer  api = api
    h1 = h1  h2 = h2  h3 = h3
    Keys <- TwoKeys
    Clients = {c1, c2}
    Hosts <- BothHosts
    ClientOf <- ClientOfKey
    IssuerOf <- IssuerOfKey
    ApiHostsOf <- ApiOfKey
    Handlers = {h1, h2}
    Requests = {}
    NoHandler = NoHandler
    NoResponse = NoResponse
    NoRef = NoRef
    MaxGrants = 3
    MaxCrashes = 1
SPECIFICATION FairSpec
INVARIANTS
    IndexConsistent
    PlaceholderFaithful
    DeliveredStaysLive
    RefreshPreserved
    FileLoadable
PROPERTIES
    DiskNeverOlder
    ResponseCompletes
CHECK_DEADLOCK FALSE
