CONSTANTS
    a1 = a1
    t1 = t1
    c1 = c1
    c2 = c2
    s1 = s1
    s2 = s2
    Agent = {a1}
    NoAgent = NoAgent
    Tool = {t1}
    Credential = {c1, c2}
    NoSession = NoSession
    NoRequest = NoRequest
    NoRow = NoRow
    SessionId = {s1, s2}
    Requests <- MCRequests
    Batches <- MCBatches
    MaxSessions = 1
    MaxNow = 1
    MaxTimeLimit = 2
    Connections = 2
    MaxRefunded = 4
SPECIFICATION MCSpec
SYMMETRY Symmetry
INVARIANTS
    BudgetRespected
    DurableWhileUsable
    ClosedSurvivesRestart
PROPERTIES
    ImplementsContract
