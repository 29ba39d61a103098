---------------------- MODULE MC_StorageBackedRegistry ----------------------
(* Model values for StorageBackedRegistry. *)
EXTENDS StorageBackedRegistry, TLC

CONSTANTS sc1
AllScopes == {{}}
Symmetry == Permutations(AgentId) \cup Permutations(Delegators) \cup Permutations(Administrators)
=============================================================================
