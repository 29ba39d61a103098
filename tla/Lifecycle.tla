----------------------------- MODULE Lifecycle ------------------------------
(***************************************************************************)
(* The admin API of crates/arbiter-lifecycle/src/api.rs over the in-memory *)
(* registry and session store, with the cleanup task of                    *)
(* crates/arbiter/src/server.rs.                                           *)
(*                                                                         *)
(* The handlers run concurrently and hold no lock between the calls they   *)
(* make, so every call is an action and everything another handler does    *)
(* may come between two of them.  A handler's checks of its own request    *)
(* (admin key, rate limit, parameter ranges) read no shared state and      *)
(* decide only whether it goes on: Requests holds requests that pass.  Of  *)
(* the gauges only registered_agents is kept.                              *)
(***************************************************************************)
EXTENDS Integers, Sequences, FiniteSets

CONSTANTS
    AgentId, Owner, Scope, Unregistered, Capabilities, Expiries, Delegators, Deactivators,
    MAX_CHAIN_DEPTH, MaxLinks,
    NoAgent, Tool, Credential, NoSession, SessionId, Requests, NoRequest, Batches,
    MaxSessions, MaxNow,
    Creators,           \* requests that call create_session
    Signings,           \* may the configured signing_secret be long enough, too short?
    MaxForsaken         \* bound: no more clients hang up once so many agents are forsaken

VARIABLES
    agents, delegations, delegating, cascading, unwalked, missed,   \* InMemoryRegistry
    now, sessions, created, granted,                \* SessionStore
    creating,           \* creating[p]: how far p's create_session has come
    closing,            \* closing[p]: agents whose sessions p has yet to close
    registered_agents,  \* gauge
    signing,            \* is the configured signing_secret long enough for issue_token?
    ghosts,             \* history: sessions inserted for an agent already inactive
    forsaken,           \* history: agents whose deactivation was dropped half-way
    uncounted           \* history: agents registered and answered 500, without a token

Registry == INSTANCE InMemoryRegistry
Store == INSTANCE SessionStore WITH Agent <- AgentId

ASSUME LifecycleAssumption ==
    /\ Unregistered \notin Registry!Agents
    /\ Capabilities \subseteq SUBSET Scope
    /\ Expiries \subseteq Nat \cup {Registry!Never}
    /\ NoSession \notin Store!TaskSessions
    /\ Requests \subseteq Store!CreateSessionRequest
    /\ NoRequest \notin Store!CreateSessionRequest
    /\ IsFiniteSet(AgentId) /\ IsFiniteSet(SessionId)
    /\ IsFiniteSet(Creators) /\ Creators # {}
    /\ MaxSessions \in Nat
    /\ Signings \subseteq BOOLEAN

registryVars == <<agents, delegations, delegating, cascading, unwalked, missed>>
storeVars == <<now, sessions, created, granted>>
history == <<ghosts, forsaken, uncounted>>
handlerVars == <<creating, closing, registered_agents, signing, history>>
vars == <<registryVars, storeVars, handlerVars>>

(* The store's count_active_for_agent. *)
count_active_for_agent(a) == Cardinality(Store!ActiveOf(a))

(* A create_session request: idle, past the agent checks, or past the cap. *)
NotCreating == [step |-> "idle"]

Init ==
    /\ Registry!RegistryInit
    /\ Store!Init
    /\ creating = [p \in Creators |-> NotCreating]
    /\ closing = [p \in Deactivators |-> {}]
    /\ registered_agents = 0
    /\ signing \in Signings
    /\ ghosts = {} /\ forsaken = {} /\ uncounted = {}

----------------------------------------------------------------------------
(* POST /agents: register, issue a token, count; nobody learns the id in   *)
(* between.  The signing secret is read at startup; where it is shorter    *)
(* than issue_token allows, the agent stays registered, the answer is 500  *)
(* and the gauge is left alone.                                            *)
register_agent ==
    /\ \E a \in AgentId, owner \in Owner, caps \in Capabilities, expires \in Expiries :
          /\ Registry!register_agent(a, owner, caps, expires)
          /\ uncounted' = IF signing THEN uncounted ELSE uncounted \cup {a}
    /\ registered_agents' = IF signing THEN registered_agents + 1 ELSE registered_agents
    /\ UNCHANGED <<storeVars, creating, closing, signing, ghosts, forsaken>>

(* POST /agents/:id/delegate: nothing but the registry's create_delegation.*)
delegate_agent == Registry!DelegationNext /\ UNCHANGED <<storeVars, handlerVars>>

(* POST /sessions, first call: the agent must exist, be active and not be  *)
(* expired.                                                                *)
create_session_get_agent(p, req) ==
    /\ creating[p] = NotCreating
    /\ Registry!get_agent(req.agent_id, now)
    /\ Registry!Active(req.agent_id)
    /\ creating' = [creating EXCEPT ![p] = [step |-> "agent_ok", req |-> req]]
    /\ UNCHANGED <<registryVars, storeVars, closing, registered_agents, signing, history>>

(* Faulty variant: the request at the cap is let through. *)
create_session_uncapped(p) ==
    /\ creating[p].step = "agent_ok"
    /\ creating' = [creating EXCEPT ![p].step = "under_cap"]
    /\ UNCHANGED <<registryVars, storeVars, closing, registered_agents, signing, history>>

(* POST /sessions, second call: count the agent's active sessions; at the  *)
(* cap the request is answered 429.                                        *)
create_session_count(p) ==
    /\ creating[p].step = "agent_ok"
    /\ creating' = [creating EXCEPT ![p] =
                      IF count_active_for_agent(creating[p].req.agent_id) >= MaxSessions
                      THEN NotCreating
                      ELSE [creating[p] EXCEPT !.step = "under_cap"]]
    /\ UNCHANGED <<registryVars, storeVars, closing, registered_agents, signing, history>>

(* POST /sessions, third call: the store's create, which checks neither    *)
(* again.                                                                  *)
create_session_insert(p, s) ==
    /\ creating[p].step = "under_cap"
    /\ Store!create(s, creating[p].req)
    /\ creating' = [creating EXCEPT ![p] = NotCreating]
    /\ ghosts' = IF Registry!Active(creating[p].req.agent_id) THEN ghosts ELSE ghosts \cup {s}
    /\ UNCHANGED <<registryVars, closing, registered_agents, signing, forsaken, uncounted>>

(* The client of a session's creation hangs up between two of the calls.   *)
create_session_dropped(p) ==
    /\ creating[p] # NotCreating
    /\ creating' = [creating EXCEPT ![p] = NotCreating]
    /\ UNCHANGED <<registryVars, storeVars, closing, registered_agents, signing, history>>

(* DELETE /sessions/:id. *)
close_session(s) ==
    /\ Store!close(s)
    /\ UNCHANGED <<registryVars, creating, closing, registered_agents, signing, history>>

(* DELETE /agents/:id: the cascade, ... *)
deactivate_start(p, id) ==
    /\ closing[p] = {}
    /\ Registry!cascade_start(p, id)
    /\ UNCHANGED <<storeVars, handlerVars>>

deactivate_step(p) ==
    /\ \E a \in AgentId : Registry!cascade_pop(p, a) \/ Registry!cascade_child(p, a)
    /\ UNCHANGED <<storeVars, handlerVars>>

(* ... its answer, ... *)
deactivate_cascaded(p) ==
    /\ Registry!cascade_return(p)
    /\ closing' = [closing EXCEPT ![p] = cascading[p].deactivated]
    /\ UNCHANGED <<storeVars, creating, registered_agents, signing, history>>

(* Faulty variant: the gauge goes down, the sessions stay open. *)
deactivate_count_only(p, a) ==
    /\ a \in closing[p]
    /\ closing' = [closing EXCEPT ![p] = @ \ {a}]
    /\ registered_agents' = registered_agents - 1
    /\ UNCHANGED <<registryVars, storeVars, creating, signing, history>>

(* Faulty variant: the gauge counts deactivations, not deactivated agents. *)
deactivate_counted_once(p, a) ==
    /\ a \in closing[p]
    /\ Store!close_sessions_for_agent(a)
    /\ closing' = [closing EXCEPT ![p] = @ \ {a}]
    /\ registered_agents' = registered_agents - IF closing[p] = {a} THEN 1 ELSE 0
    /\ UNCHANGED <<registryVars, creating, signing, history>>

(* ... and then, agent by agent, the sessions. *)
deactivate_close(p, a) ==
    /\ a \in closing[p]
    /\ Store!close_sessions_for_agent(a)
    /\ closing' = [closing EXCEPT ![p] = @ \ {a}]
    /\ registered_agents' = registered_agents - 1
    /\ UNCHANGED <<registryVars, creating, signing, history>>

(* The client of a deactivation hangs up and the request is dropped at an  *)
(* await: what it has done stays, the rest is never done.                  *)
deactivate_dropped(p) ==
    LET left == cascading[p].deactivated \cup closing[p] IN
    /\ left # {}
    /\ Cardinality(forsaken) < MaxForsaken
    /\ Registry!cascade_dropped(p) \/ (~cascading[p].running /\ UNCHANGED registryVars)
    /\ closing' = [closing EXCEPT ![p] = {}]
    /\ forsaken' = forsaken \cup left
    /\ UNCHANGED <<storeVars, creating, registered_agents, signing, ghosts, uncounted>>

(* The cleanup task. *)
cleanup ==
    /\ Store!cleanup_expired
    /\ UNCHANGED <<registryVars, creating, closing, registered_agents, signing, history>>

Tick == Store!Tick /\ UNCHANGED <<registryVars, handlerVars>>

Next ==
    \/ Tick
    \/ cleanup
    \/ register_agent
    \/ delegate_agent
    \/ \E p \in Creators :
        \/ \E req \in Requests : create_session_get_agent(p, req)
        \/ create_session_count(p)
        \/ \E s \in SessionId : create_session_insert(p, s)
        \/ create_session_dropped(p)
    \/ \E s \in SessionId : close_session(s)
    \/ \E p \in Deactivators :
        \/ \E id \in AgentId : deactivate_start(p, id) \/ deactivate_close(p, id)
        \/ deactivate_step(p)
        \/ deactivate_cascaded(p)
        \/ deactivate_dropped(p)

Spec == Init /\ [][Next]_vars

----------------------------------------------------------------------------
(* Properties. *)

(* Every variable of the handlers has its type. *)
TypeOK ==
    /\ Registry!RegistryTypeOK
    /\ Store!TypeOK
    /\ creating \in [Creators -> {NotCreating} \cup [step: {"agent_ok", "under_cap"}, req: Requests]]
    /\ closing \in [Deactivators -> SUBSET AgentId]
    /\ registered_agents \in Int
    /\ signing \in BOOLEAN
    /\ ghosts \subseteq SessionId /\ forsaken \subseteq AgentId /\ uncounted \subseteq AgentId

(* create_session requests for a that have passed the cap check and not    *)
(* inserted yet.                                                           *)
PastCap(a) == {p \in Creators : creating[p].step = "under_cap" /\ creating[p].req.agent_id = a}

(* How far counting and inserting in two calls can overshoot the cap: by   *)
(* the number of requests that may be in flight together, less one, and    *)
(* never cumulatively.                                                     *)
CapOvershootBounded ==
    \A a \in AgentId :
        count_active_for_agent(a) + Cardinality(PastCap(a))
            <= MaxSessions + Cardinality(Creators) - 1

(* No deactivation is under way. *)
Quiet == \A p \in Deactivators : ~cascading[p].running /\ closing[p] = {}

(* Deactivations end the sessions: once none is under way, no session of   *)
(* an inactive agent is Active, except one inserted when the agent was     *)
(* already inactive, and those of an agent whose own deactivation was      *)
(* dropped; whatever was delegated, created, closed or cleaned up          *)
(* meanwhile, and whichever requests were dropped.                         *)
DeactivationClosesSessions ==
    Quiet => \A s \in Store!Live :
        sessions[s].status = "Active" /\ ~Registry!Active(sessions[s].agent_id)
            => s \in ghosts \/ sessions[s].agent_id \in forsaken

(* registered_agents agrees with the registry whenever no deactivation is  *)
(* under way: cascades that overlap never count an agent twice, a dropped  *)
(* one leaves exactly its own agents counted, and each agent registered    *)
(* without a token puts it out by one for good: it was never counted, and  *)
(* its deactivation takes one off like any other.                          *)
RegisteredAgentsGauge ==
    Quiet => registered_agents =
                Cardinality({a \in AgentId : Registry!Active(a)} \cup forsaken)
                    - Cardinality(uncounted)

(* Why they hold.  What p still owes: the agents it has deactivated and    *)
(* whose sessions it has not closed.                                       *)
Owed(p) == cascading[p].deactivated \cup closing[p]

(* The agents the gauge counts: active, owed or forsaken. *)
Counted ==
    {a \in AgentId : Registry!Active(a)} \cup forsaken \cup UNION {Owed(p) : p \in Deactivators}

(* An agent is counted on one account only: once inactive it is owed by    *)
(* one deactivation, the one that found it active, or forsaken by it.      *)
OwedOnce ==
    /\ \A p \in Deactivators :
          /\ cascading[p].running => closing[p] = {}
          /\ ~cascading[p].running => cascading[p] = Registry!NoCascade
          /\ \A a \in Owed(p) : Registry!Exists(a) /\ ~Registry!Active(a) /\ a \notin forsaken
          /\ \A q \in Deactivators \ {p} : Owed(p) \cap Owed(q) = {}
    /\ \A a \in forsaken : Registry!Exists(a) /\ ~Registry!Active(a)

(* The gauge is short by the agents registered without being counted.      *)
GaugeCounts ==
    /\ \A a \in uncounted : Registry!Exists(a)
    /\ registered_agents = Cardinality(Counted) - Cardinality(uncounted)

(* A session that is Active has an agent that is counted: an active one,   *)
(* or one whose sessions somebody will close, or would have closed.        *)
SessionsCounted ==
    \A s \in Store!Live :
        sessions[s].status = "Active" => s \in ghosts \/ sessions[s].agent_id \in Counted

LifecycleInv == TypeOK /\ OwedOnce /\ GaugeCounts /\ SessionsCounted /\ CapOvershootBounded
=============================================================================
