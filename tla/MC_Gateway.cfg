CONSTANTS
    a1 = a1
    t1 = t1
    s1 = s1
    Agent = {a1}
    NoAgent = NoAgent
    Tool = {t1}
    Credential = {}
    NoSession = NoSession
    SessionId = {s1}
    NoRequest = NoRequest
    MaxSessions = 1
    Client = {c1, c2}
    Absent = Absent
    Malformed = Malformed
    NoPolicy = NoPolicy
    Unknown = Unknown
    Requests <- TwoCalls
    Batches <- SingleOrPair
    MaxNow = 2
    Calls <- MixedCalls
    Config <- NonPostChecked
    Policies <- BasicOrNothing
    TrustAtStart <- AllBasic
    TrustDegradationThreshold = 2
    MaxFlags = 2
    ClientsLeave = TRUE
    RECOVERY_THRESHOLD = 1
SPECIFICATION Spec
INVARIANTS
    UpstreamWithinBudget
    RemainingNeverUnderstated
    BlindSpotBounded
SYMMETRY ClientSymmetry
