CONSTANTS
    s1 = s1
    Writer = {c1, c2}
    SessionKey = {s1}
    NoKey = NoKey
    Newline = Newline
    Torn = Torn
    RECOVERY_THRESHOLD = 2
    MaxWrites = 3
    MaxBoots = 2
    BlockedPaths <- TwoBlocked
    Requests <- MCRequests
    MaxConnections = 2
SPECIFICATION Spec
INVARIANTS
    SequenceOrder
    AckedOnDisk
    DamageBounded
    StatsBackedByFile
    EveryAnswerAudited
    BlockedStaysOut
SYMMETRY Symmetry
