\* Requests and responses of one exchange at a time while two token responses rotate.
CONSTANTS
    k1 = k1  c1 = c1  c2 = c2  issuer = issuer  api = api
    Keys = {k1}
    Clients = {c1, c2}
    Hosts = {issuer, api}
    ClientOf <- OneClient
    IssuerOf <- OneIssuer
    ApiHostsOf <- OneApi
    Handlers = {h1}
    Requests = {r1}
    NoHandler = NoHandler
    NoResponse = NoResponse
    NoRef = NoRef
    MaxGrants = 2
    MaxCrashes = 0
    Secrets <- TwoSecrets
    SecretClients <- ClientsOf
    SecretHosts <- HostsOf
    Value <- ValueOf
    Encodings <- EncodingOf
    MinVisible = 1
    MaxPrefix = 2
    MaxSuffix = 1
    MinMasks = 1
    Bytes <- Letters
    Bodies <- Texts
    BufferSize = 2
    MediationLimit = 6
    CaptureLimit = 3
SPECIFICATION MediationSpec
INVARIANTS
    SubstitutionFaithful
    Veiled
    RecordwiseExact
    CaptureSound
CHECK_DEADLOCK FALSE
