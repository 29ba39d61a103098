--------------------------- MODULE MC_RateLimits ----------------------------
(* The two limiters, of sessions and of the admin API.  They share nothing *)
(* but time, so a behaviour is one of the one or one of the other.         *)
(*                                                                         *)
(* Sessions: one that is rate-limited and enough clock for three windows   *)
(* of two seconds; the budget is large enough never to hide the limit.     *)
(* Admin API: two clients, two requests per window, a token of one second  *)
(* and one whose expiry is capped.                                         *)
EXTENDS SessionRate, AdminAccess

CONSTANTS a1, t1

VARIABLE part

Req(rate) ==
    [agent_id |-> a1, authorized_tools |-> {}, authorized_credentials |-> {},
     time_limit |-> 6, call_budget |-> 9, rate_limit |-> rate, rate_limit_window |-> 2]

MCRequests == {Req(1), Req(2)}
MCBatches == {<<t1, t1, t1>>}
MCExpiries == {-1, 1, 9}

MCInit == RateInit /\ AdminInit /\ part \in {"sessions", "admin"}
MCNext ==
    \/ part = "sessions" /\ RateNext /\ UNCHANGED <<adminVars, part>>
    \/ part = "admin" /\ AdminNext /\ UNCHANGED <<rateVars, part>>
MCSpec == MCInit /\ [][MCNext]_<<rateVars, adminVars, part>>
=============================================================================
