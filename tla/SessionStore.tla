---------------------------- MODULE SessionStore ----------------------------
(***************************************************************************)
(* The in-memory session store, crates/arbiter-session/src/store.rs: one   *)
(* map behind one RwLock.  Every operation takes the lock for its whole    *)
(* body, so each is one action.  An operation that returns an error        *)
(* changes nothing, with one exception: a use that finds the session past  *)
(* its time marks it Expired.  The reads (get, list_all, list_for_agent,   *)
(* count_active_for_agent) are operators, not actions.                     *)
(***************************************************************************)
EXTENDS TaskSession

VARIABLES
    now,            \* Utc::now(), in seconds
    sessions,       \* the map: sessions[s] is a TaskSession or NoSession
    created,        \* history: the request that issued s, or NoRequest
    granted         \* history: calls answered Ok on s so far

vars == <<now, sessions, created, granted>>

Init ==
    /\ now = 0
    /\ sessions = [s \in SessionId |-> NoSession]
    /\ created = [s \in SessionId |-> NoRequest]
    /\ granted = [s \in SessionId |-> 0]

----------------------------------------------------------------------------
(* Reads. *)

Live == {s \in SessionId : sessions[s] # NoSession}

ActiveOf(a) ==
    {s \in Live : sessions[s].agent_id = a /\ sessions[s].status = "Active"}

count_active_for_agent(a) == Cardinality(ActiveOf(a))

----------------------------------------------------------------------------
(* Time passes. *)
Tick ==
    /\ now < MaxNow
    /\ now' = now + 1
    /\ UNCHANGED <<sessions, created, granted>>

Insert(s, req, timeLimit) ==
    /\ created[s] = NoRequest
    /\ created' = [created EXCEPT ![s] = req]
    /\ sessions' = [sessions EXCEPT ![s] = NewSession(req, timeLimit, now)]
    /\ UNCHANGED <<now, granted>>

(* create: a time limit below one second is raised to one second. *)
create(s, req) == Insert(s, req, IF req.time_limit < 1 THEN 1 ELSE req.time_limit)

(* create_if_under_cap: counts and inserts under one lock; no clamp.       *)
create_if_under_cap(s, req) ==
    /\ count_active_for_agent(req.agent_id) < MaxSessions
    /\ Insert(s, req, req.time_limit)

(* use_session lets one call through. *)
use_session(s, tool, caller) ==
    /\ Accepts(sessions[s], tool, caller, now)
    /\ sessions' = [sessions EXCEPT ![s] = Charged(@, 1, now)]
    /\ granted' = [granted EXCEPT ![s] = @ + 1]
    /\ UNCHANGED <<now, created>>

(* use_session_batch lets a whole batch through. *)
use_session_batch(s, tools, caller) ==
    /\ AcceptsBatch(sessions[s], tools, caller, now)
    /\ sessions' = [sessions EXCEPT ![s] = Charged(@, Len(tools), now)]
    /\ granted' = [granted EXCEPT ![s] = @ + Len(tools)]
    /\ UNCHANGED <<now, created>>

(* Either use finds the session past its time: status becomes Expired and  *)
(* the call is refused.                                                    *)
use_expired(s, caller) ==
    /\ Overdue(sessions[s], caller, now)
    /\ sessions' = [sessions EXCEPT ![s].status = "Expired"]
    /\ UNCHANGED <<now, created, granted>>

(* close: also closes an Expired session. *)
close(s) ==
    /\ sessions[s] # NoSession
    /\ sessions[s].status # "Closed"
    /\ sessions' = [sessions EXCEPT ![s].status = "Closed"]
    /\ UNCHANGED <<now, created, granted>>

close_sessions_for_agent(a) ==
    /\ sessions' = [s \in SessionId |->
                      IF s \in ActiveOf(a)
                      THEN [sessions[s] EXCEPT !.status = "Closed"]
                      ELSE sessions[s]]
    /\ UNCHANGED <<now, created, granted>>

(* Faulty variant: the cleanup goes by the recorded status alone. *)
StaleByStatus(s) ==
    /\ sessions[s] # NoSession
    /\ sessions[s].status # "Active"

(* What cleanup_expired drops: whatever is past its time, and whatever is  *)
(* closed.                                                                 *)
Stale(s) ==
    /\ sessions[s] # NoSession
    /\ is_expired(sessions[s], now) \/ sessions[s].status = "Closed"

cleanup_expired ==
    /\ sessions' = [s \in SessionId |-> IF Stale(s) THEN NoSession ELSE sessions[s]]
    /\ UNCHANGED <<now, created, granted>>

Next ==
    \/ Tick
    \/ \E s \in SessionId, req \in Requests :
          create(s, req) \/ create_if_under_cap(s, req)
    \/ \E s \in SessionId, tool \in Tool, caller \in Agent \cup {NoAgent} :
          use_session(s, tool, caller)
    \/ \E s \in SessionId, tools \in Batches, caller \in Agent \cup {NoAgent} :
          use_session_batch(s, tools, caller)
    \/ \E s \in SessionId, caller \in Agent \cup {NoAgent} : use_expired(s, caller)
    \/ \E s \in SessionId : close(s)
    \/ \E a \in Agent : close_sessions_for_agent(a)
    \/ cleanup_expired

Spec == Init /\ [][Next]_vars

(* The runtime's clock advances and the cleanup task of server.rs wakes up *)
(* every cleanup_interval_secs for as long as the process runs.            *)
FairSpec == Spec /\ WF_vars(Tick) /\ WF_vars(cleanup_expired)

----------------------------------------------------------------------------
(* Properties. *)

(* Every variable has its type. *)
TypeOK ==
    /\ now \in Nat
    /\ sessions \in [SessionId -> TaskSessions \cup {NoSession}]
    /\ created \in [SessionId -> CreateSessionRequest \cup {NoRequest}]
    /\ granted \in [SessionId -> Nat]

(* However uses, batches, closes and cleanups interleave, a session never  *)
(* answers Ok to more calls than the budget it was created with, also      *)
(* counting what it granted before the record was removed.                 *)
BudgetRespected ==
    \A s \in SessionId :
        created[s] # NoRequest => granted[s] <= created[s].call_budget

(* The record the store keeps of s is the one the request asked for, and   *)
(* its counter is exactly the number of calls granted.                     *)
Faithful(s) ==
    LET ses == sessions[s] IN
    ses # NoSession =>
        /\ created[s] # NoRequest
        /\ ses.agent_id = created[s].agent_id
        /\ ses.authorized_tools = created[s].authorized_tools
        /\ ses.authorized_credentials = created[s].authorized_credentials
        /\ ses.call_budget = created[s].call_budget
        /\ ses.calls_made = granted[s]
        /\ ses.created_at <= now

(* An id that has not been issued has no record and no grants. *)
Unissued(s) == created[s] = NoRequest => sessions[s] = NoSession /\ granted[s] = 0

(* The inductive invariant behind the theorems. *)
StoreInv ==
    /\ TypeOK
    /\ BudgetRespected
    /\ \A s \in SessionId : Faithful(s) /\ Unissued(s)

(* A session past its time, or closed, is gone from the map sooner or      *)
(* later, whoever still uses it (deadlines past the clock's bound are not  *)
(* reached in the model).                                                  *)
EveryLimitedSessionIsRemoved ==
    \A s \in SessionId :
        (sessions[s] # NoSession /\ sessions[s].created_at + sessions[s].time_limit < MaxNow)
            ~> (sessions[s] = NoSession)

(* A session the store would still let be used. *)
Usable(s) ==
    /\ sessions[s] # NoSession
    /\ sessions[s].status = "Active"
    /\ ~is_expired(sessions[s], now)

Phase == [s \in SessionId |->
            IF created[s] = NoRequest THEN "none" ELSE IF Usable(s) THEN "open" ELSE "shut"]

Budget == [s \in SessionId |->
            IF created[s] = NoRequest THEN 0 ELSE created[s].call_budget]

Contract == INSTANCE SessionContract
                WITH phase <- Phase, budget <- Budget, spent <- granted

(* The store implements the session contract: a session grants only while  *)
(* it is Active and within its time, never more than its budget, and       *)
(* neither a late use nor a cleanup brings an ended session back.          *)
ImplementsContract == Contract!ContractSpec
=============================================================================
