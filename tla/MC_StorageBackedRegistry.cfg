\* Two cascades or trust updates and one delegation at a time over three agents.
SPECIFICATION StorageRegistrySpec

CONSTANTS
    AgentId = {a1, a2, a3}
    Owner = {o1}
    sc1 = sc1
    Scope = {sc1}
    Unregistered = Unregistered
    Capabilities <- AllScopes
    TrustLevel = {0}
    Delegators = {d1}
    Administrators = {x1, x2}
    MaxLinks = 2
    MaxFailures = 1

SYMMETRY Symmetry

INVARIANTS
    StrandedOnlyByFailure
    ChainsEnd

CHECK_DEADLOCK FALSE
