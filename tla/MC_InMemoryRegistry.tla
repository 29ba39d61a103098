------------------------ MODULE MC_InMemoryRegistry -------------------------
(* Model values for InMemoryRegistry.                                      *)
EXTENDS InMemoryRegistry, TLC

CONSTANTS a1, a2, a3

NeverExpires == {Never}
AllScopes == {Scope}
ThreeAgents == {a1, a2, a3}
Symmetry == Permutations(ThreeAgents) \cup Permutations(Deactivators) \cup Permutations(Delegators)
=============================================================================
