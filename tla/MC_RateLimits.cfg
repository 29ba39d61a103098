CONSTANTS
    a1 = a1
    t1 = t1
    Agent = {a1}
    NoAgent = NoAgent
    Tool = {t1}
    Credential = {}
    NoSession = NoSession
    NoRequest = NoRequest
    SessionId = {s1}
    Requests <- MCRequests
    Batches <- MCBatches
    MaxSessions = 1
    MaxNow = 6
    ClientKey = {admin, other}
    AdminKey = admin
    max_requests = 2
    window_duration = 2
    Jti = {j1}
    Expiries <- MCExpiries
    MAX_TOKEN_EXPIRY_SECS = 3
    NoToken = NoToken
    MaxClock = 5
SPECIFICATION MCSpec
INVARIANTS
    BurstBounded
    AdminBurstBounded
    RefusedOnlyWhenFull
    RevokedWhileValid
