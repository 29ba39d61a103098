-------------------------- MODULE MC_SessionStore --------------------------
(* Model values for SessionStore: two sessions, one of them rate limited,  *)
(* a zero time limit (raised by create, kept by create_if_under_cap), and  *)
(* batches of one and of two calls.                                        *)
EXTENDS SessionStore

CONSTANTS a1, a2, t1, t2, c1

Req(a, tools, limit, budget, rate, window) ==
    [agent_id |-> a, authorized_tools |-> tools, authorized_credentials |-> {c1},
     time_limit |-> limit, call_budget |-> budget,
     rate_limit |-> rate, rate_limit_window |-> window]

MCRequests == {Req(a1, {t1}, 2, 3, 1, 1), Req(a1, {}, 0, 2, NoLimit, 2),
               Req(a2, {t1}, 1, 1, NoLimit, 2)}
MCBatches == {<<t1, t1>>, <<t1, t2>>}
=============================================================================
