----------------------------- MODULE MC_Gateway -----------------------------
(* Model values for Gateway.                                               *)
EXTENDS Gateway, TLC

CONSTANTS a1, t1, s1

Request(budget) ==
    [agent_id |-> a1, authorized_tools |-> {}, authorized_credentials |-> {},
     time_limit |-> 1, call_budget |-> budget, rate_limit |-> -1, rate_limit_window |-> 1]
TwoCalls == {Request(2)}

Single == {<<t1>>}
SingleOrPair == {<<t1>>, <<t1, t1>>}

Call(post, mcp, session, agent, tools) ==
    [post |-> post, mcp |-> mcp, session |-> session, agent |-> agent, tools |-> tools]

(* An agent's calls through its session, one or two at a time. *)
SessionCalls == {Call(TRUE, TRUE, s1, a1, tools) : tools \in Batches}

(* The other shapes of request that may get through: a non-POST request    *)
(* that names a session, a body that is not MCP.                           *)
OtherCalls ==
    {Call(FALSE, FALSE, s1, a1, <<>>), Call(TRUE, FALSE, Absent, Absent, <<>>)}
MixedCalls == SessionCalls \cup OtherCalls

Guarded ==
    [require_session |-> TRUE, strict_mcp |-> TRUE, deny_non_post_methods |-> TRUE,
     require_audit_healthy |-> TRUE]
GuardedOnly == {Guarded}

(* Sessions are asked for; non-POST requests are looked at, not refused.   *)
NonPostChecked == {[Guarded EXCEPT !.strict_mcp = FALSE, !.deny_non_post_methods = FALSE]}

ClientSymmetry == Permutations(Client)

BasicMayCall == [t \in Tool |-> 1]
NothingMatches == [t \in {} |-> 0]
BasicOrNothing == {BasicMayCall, NothingMatches, NoPolicy}
BasicOnly == {BasicMayCall}

AllBasic == [a \in Agent |-> 1]
AllTrusted == [a \in Agent |-> 3]
=============================================================================
