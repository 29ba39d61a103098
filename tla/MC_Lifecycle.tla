---------------------------- MODULE MC_Lifecycle ----------------------------
(* Model values for Lifecycle.                                             *)
EXTENDS Lifecycle, TLC

CONSTANT a1

Request(a) ==
    [agent_id |-> a, authorized_tools |-> {}, authorized_credentials |-> {},
     time_limit |-> 1, call_budget |-> 1, rate_limit |-> -1, rate_limit_window |-> 1]

(* Sessions of one agent, which may be the deactivated one or a delegate.  *)
MCRequests == {Request(a1)}
NeverExpires == {-1}
AllScopes == {Scope}
Symmetry ==
    UNION {Permutations(S) : S \in {SessionId, Creators, Deactivators}}
=============================================================================
