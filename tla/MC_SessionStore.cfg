CONSTANTS
    a1 = a1
    a2 = a2
    t1 = t1
    t2 = t2
    c1 = c1
    Agent = {a1, a2}
    NoAgent = NoAgent
    Tool = {t1, t2}
    Credential = {c1}
    NoSession = NoSession
    NoRequest = NoRequest
    SessionId = {s1, s2}
    Requests <- MCRequests
    Batches <- MCBatches
    MaxSessions = 1
    MaxNow = 4
SPECIFICATION FairSpec
INVARIANTS
    BudgetRespected
    StoreInv
PROPERTIES
    ImplementsContract
    EveryLimitedSessionIsRemoved
