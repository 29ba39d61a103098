CONSTANTS
    a1 = a1
    t1 = t1
    s1 = s1
    Agent = {a1}
    NoAgent = NoAgent
    Tool = {t1}
    Credential = {}
    NoSession = NoSession
    SessionId = {s1}
    NoRequest = NoRequest
    MaxSessions = 1
    Client = {c1, c2}
    Absent = Absent
    Malformed = Malformed
    NoPolicy = NoPolicy
    Unknown = Unknown
    Requests <- TwoCalls
    Batches <- Single
    MaxNow = 0
    Calls <- SessionCalls
    Config <- GuardedOnly
    Policies <- BasicOnly
    TrustAtStart <- AllTrusted
    TrustDegradationThreshold = 2
    MaxFlags = 2
    ClientsLeave = FALSE
    RECOVERY_THRESHOLD = 3
SPECIFICATION CooperativeSpec
PROPERTIES
    AuditRecovers
