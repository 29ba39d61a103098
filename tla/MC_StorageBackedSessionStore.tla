------------------- MODULE MC_StorageBackedSessionStore --------------------
(* Model values for StorageBackedSessionStore.                             *)
EXTENDS StorageBackedSessionStore, TLC

CONSTANTS a1, t1, c1, c2, s1, s2

Req(limit, budget, rate) ==
    [agent_id |-> a1, authorized_tools |-> {t1}, authorized_credentials |-> {c1},
     time_limit |-> limit, call_budget |-> budget,
     rate_limit |-> rate, rate_limit_window |-> 1]

(* Two sessions that share their agent's cap, cleanup and deactivation,    *)
(* one without a rate limit and one rate limited; or one with a budget on  *)
(* which a late write can be two calls behind.                             *)
Large == Req(0, 3, NoLimit)
MCRequests == {Req(0, 1, NoLimit), Req(0, 2, 1), Large}
MCBatches == {<<t1, t1>>}

AskedFor(s) ==
    ({created[s]} \cup {st.req : st \in {q \in stray : q.id = s}}) \ {NoRequest}

(* Two strays at a time, and the large budget, are for a session alone.    *)
Bounds ==
    \/ Cardinality(stray) <= 1 /\ \A s \in SessionId : Large \notin AskedFor(s)
    \/ \E s \in SessionId : \A other \in SessionId \ {s} : AskedFor(other) = {}

MCSpec == Init /\ [][Next /\ Bounds']_vars
Symmetry == Permutations(SessionId)
=============================================================================
