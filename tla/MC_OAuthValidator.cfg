SPECIFICATION FairSpec
CONSTANTS
    i1 = i1
    i2 = i2
    k1 = k1
    k2 = k2
    Issuer = {i1, i2}
    IssuerSeq <- MCIssuerSeq
    Audiences <- MCAudiences
    Kid = {k1, k2}
    Tokens <- MCTokens
    Requests = {p1, p2}
    First <- MCFirst
    Published <- MCPublished
    MaxRotations <- MCMaxRotations
INVARIANTS
    AcceptedIsGenuine
    MissRefreshHelps
    MissRefreshesBounded
PROPERTIES
    RotationsArrive
