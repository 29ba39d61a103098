CONSTANTS
    a1 = a1
    AgentId = {a1, a2}
    Owner = {o1}
    Scope = {sc1}
    Unregistered = Unregistered
    Capabilities <- AllScopes
    Expiries <- NeverExpires
    Delegators = {d1}
    Deactivators = {x1, x2}
    MAX_CHAIN_DEPTH = 10
    MaxLinks = 1
    NoAgent = NoAgent
    Tool = {t1}
    Credential = {}
    NoSession = NoSession
    SessionId = {s1, s2}
    Requests <- MCRequests
    NoRequest = NoRequest
    Batches = {}
    MaxSessions = 1
    MaxNow = 2
    Creators = {p1, p2}
    MaxForsaken = 1
    Signings = {TRUE, FALSE}
SPECIFICATION Spec
INVARIANTS
    CapOvershootBounded
    RegisteredAgentsGauge
    DeactivationClosesSessions
SYMMETRY Symmetry
CHECK_DEADLOCK FALSE
