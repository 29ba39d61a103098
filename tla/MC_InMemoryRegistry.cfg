CONSTANTS
    a1 = a1
    a2 = a2
    a3 = a3
    AgentId <- ThreeAgents
    Owner = {o1}
    Scope = {sc1}
    Unregistered = Unregistered
    Capabilities <- AllScopes
    Expiries <- NeverExpires
    Delegators = {d1, d2}
    Deactivators = {x1, x2}
    MAX_CHAIN_DEPTH = 3
    MaxLinks = 2
SPECIFICATION RegistrySpec
INVARIANTS
    ChainsEnd
    CascadeProgress
PROPERTIES
    CascadeAdvances
SYMMETRY Symmetry
CHECK_DEADLOCK FALSE
