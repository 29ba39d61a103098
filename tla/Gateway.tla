------------------------------ MODULE Gateway -------------------------------
(***************************************************************************)
(* The proxy's request pipeline, handle_request of                         *)
(* crates/arbiter/src/handler.rs with its stages, over the in-memory       *)
(* session store, the registry's trust levels, the policy watch channel,   *)
(* the anomaly counters and the audit sink.                                *)
(*                                                                         *)
(* Every request runs on its own task and holds no lock between two        *)
(* awaits, so the pipeline is cut at its awaits: what other requests, the  *)
(* admin API, the policy watcher, the clock and the disk do may come       *)
(* between any two actions of a request.  A client that disconnects makes  *)
(* the server drop the request at whatever await it stands.                *)
(*                                                                         *)
(* Abstracted: a request is its method (POST or not), its body (an MCP     *)
(* batch or not) and the two identity headers; what the policies allow is  *)
(* the trust level they ask for per tool; the anomaly detector, the        *)
(* credential provider and the upstream decide as they like; responses,    *)
(* metrics and the other headers are left out.                             *)
(***************************************************************************)
EXTENDS Integers, Sequences, FiniteSets

CONSTANTS
    Agent, NoAgent, Tool, Credential, NoSession, SessionId, Requests, NoRequest, Batches,
    MaxSessions, MaxNow,        \* as in SessionStore
    Client,             \* connections: each carries one request at a time
    Absent, Malformed,  \* a header that is not there, or is not a UUID
    Calls,              \* the requests clients send
    Config,             \* the configurations the gateway is started with
    NoPolicy,           \* Option::None of the policy configuration
    Policies,           \* what the gateway may start with and reload
    TrustAtStart,       \* trust levels the agents were registered with
    Unknown,            \* "the registry has no such agent"
    TrustDegradationThreshold,
    RECOVERY_THRESHOLD, \* 3 in the code
    MaxFlags,           \* bound: anomaly flags counted per agent
    ClientsLeave        \* FALSE: no client disconnects

(* Untrusted, Basic, Verified, Trusted. *)
TrustLevel == 0..3

(* method = POST, body parsed as MCP, x-arbiter-session, x-agent-id, tools *)
HttpRequest ==
    [post: BOOLEAN, mcp: BOOLEAN, session: SessionId \cup {Absent, Malformed},
     agent: Agent \cup {Absent, Malformed}, tools: Seq(Tool)]

ArbiterConfig ==
    [require_session: BOOLEAN, strict_mcp: BOOLEAN, deny_non_post_methods: BOOLEAN,
     require_audit_healthy: BOOLEAN]

(* A policy configuration: per tool, the trust level its policy asks for.  *)
PolicyConfig == UNION {[S -> TrustLevel] : S \in SUBSET Tool}

ASSUME GatewayAssumption ==
    /\ Calls \subseteq HttpRequest
    /\ \A q \in Calls : q.mcp => q.tools \in Batches
    /\ Config \subseteq ArbiterConfig
    /\ Policies \subseteq PolicyConfig \cup {NoPolicy}
    /\ TrustAtStart \in [Agent -> TrustLevel \cup {Unknown}]
    /\ TrustDegradationThreshold \in Nat \ {0}
    /\ RECOVERY_THRESHOLD \in Nat \ {0}
    /\ MaxFlags \in Nat
    /\ ClientsLeave \in BOOLEAN
    /\ IsFiniteSet(Client)

VARIABLES
    now, sessions, created, granted,    \* SessionStore
    config,             \* the running configuration
    policy,             \* the policy configuration last published
    trust,              \* trust[a]: the level the registry holds
    anomaly_counts,     \* anomaly_counts[a]: flags since the last demotion
    sink,               \* the audit sink's health counters
    disk,               \* the audit file can be written?
    r,                  \* r[c]: the request on connection c
    forwarded,          \* history: MCP calls of s sent upstream
    blind               \* history: requests sent upstream, unrecorded, since the
                        \* sink was last healthy (counted up to |Client| + 1)

Store == INSTANCE SessionStore

ASSUME StoreAssumption ==
    /\ NoSession \notin Store!TaskSessions
    /\ NoAgent \notin Agent
    /\ Requests \subseteq Store!CreateSessionRequest
    /\ NoRequest \notin Store!CreateSessionRequest
    /\ Batches \subseteq Seq(Tool)
    /\ \A b \in Batches : Len(b) > 0
    /\ MaxSessions \in Nat
    /\ MaxNow \in Nat

storeVars == <<now, sessions, created, granted>>
stateVars == <<config, policy, trust, anomaly_counts>>
auditVars == <<sink, disk, blind>>
vars == <<storeVars, stateVars, auditVars, r, forwarded>>

(* The handler's local state between two awaits: where it stands, the      *)
(* session it fetched, the policies and the trust level it read, the       *)
(* detector's verdict, the calls-remaining header, sent upstream or not.   *)
NoRemaining == -1
Stage ==
    {"body", "peek", "fetch", "use", "policy", "evaluate", "anomaly", "demote_read",
     "demote_write", "demote_reset", "inject", "forward", "upstream", "response", "audit"}
InFlight ==
    [at: Stage, call: Calls, session: Store!TaskSessions \cup {NoSession},
     policy: PolicyConfig \cup {NoPolicy}, level: TrustLevel, denied: BOOLEAN,
     remaining: Nat \cup {NoRemaining}, sent: BOOLEAN]
Idle == [at |-> "idle"]

Begin(q) ==
    [at |-> "body", call |-> q, session |-> NoSession, policy |-> NoPolicy, level |-> 0,
     denied |-> FALSE, remaining |-> NoRemaining, sent |-> FALSE]

Init ==
    /\ Store!Init
    /\ config \in Config
    /\ policy \in Policies
    /\ trust = TrustAtStart
    /\ anomaly_counts = [a \in Agent |-> 0]
    /\ sink = [degraded |-> FALSE, recovery_successes |-> 0]
    /\ disk = TRUE
    /\ r = [c \in Client |-> Idle]
    /\ forwarded = [s \in SessionId |-> 0]
    /\ blind = 0

----------------------------------------------------------------------------
(* Steps of one request. *)

(* The request goes on to its next stage; deny leaves the audit entry to   *)
(* write.                                                                  *)
Goto(c, stage) == r' = [r EXCEPT ![c].at = stage]
deny(c) == Goto(c, "audit")

Local == UNCHANGED <<storeVars, stateVars, auditVars, forwarded>>

HasSession(q) == q.mcp /\ q.session \in SessionId

(* Faulty variant: a degraded sink turns nobody away. *)
AdmittedAlways == TRUE

(* Stage 0.5: while the sink is degraded, and the configuration asks for   *)
(* it, a request is answered 503 and leaves no trace: no action.           *)
AdmittedByAudit == ~(config.require_audit_healthy /\ sink.degraded)

receive(c, q) ==
    /\ r[c] = Idle
    /\ AdmittedByAudit
    /\ r' = [r EXCEPT ![c] = Begin(q)]
    /\ Local

(* The middleware, the size limit or an upgrade header ends the request.   *)
turn_away(c) == r[c].at = "body" /\ deny(c) /\ Local

(* What stages 6.5 to 7 refuse before anything is looked up. *)
Refused(q) ==
    \/ q.mcp /\ q.session = Absent /\ config.require_session
    \/ ~q.post /\ (config.deny_non_post_methods \/ q.agent = Absent)
    \/ q.post /\ ~q.mcp /\ (config.strict_mcp \/ policy # NoPolicy)
    \/ q.session = Malformed
    \/ HasSession(q) /\ q.agent \in {Absent, Malformed}

(* Only MCP requests meet stages 7 to 9. *)
AfterGates(q) ==
    IF HasSession(q) THEN "fetch" ELSE IF q.mcp THEN "policy" ELSE "forward"

(* Stage 6 and the gates of 6.5: a non-POST request that names a session   *)
(* has it looked up first.                                                 *)
parse(c) ==
    LET q == r[c].call IN
    /\ r[c].at = "body"
    /\ IF Refused(q) THEN deny(c)
       ELSE Goto(c, IF ~q.post /\ config.require_session /\ q.session \in SessionId
                    THEN "peek" ELSE AfterGates(q))
    /\ Local

(* Stage 6.5a: known, within its time and the caller's.  Neither status    *)
(* nor budget is looked at.                                                *)
peek(c) ==
    LET q == r[c].call  ses == sessions[q.session] IN
    /\ r[c].at = "peek"
    /\ IF \/ ses = NoSession
          \/ Store!is_expired(ses, now)
          \/ q.agent \in Agent /\ q.agent # ses.agent_id
       THEN deny(c) ELSE Goto(c, AfterGates(q))
    /\ Local

(* Stage 7: the one fetch of the session. *)
fetch(c) ==
    LET q == r[c].call  ses == sessions[q.session] IN
    /\ r[c].at = "fetch"
    /\ IF ses = NoSession \/ ses.agent_id # q.agent THEN deny(c)
       ELSE r' = [r EXCEPT ![c].at = "use", ![c].session = ses]
    /\ Local

SaturatingSub(a, b) == IF a > b THEN a - b ELSE 0

(* Faulty variant: the batch is taken off a counter that has it already.   *)
calls_remaining_twice(snapshot, n) ==
    SaturatingSub(snapshot.call_budget, snapshot.calls_made + 2 * n)

(* Stage 7.5: from the snapshot fetched before the batch was charged.      *)
calls_remaining(snapshot, n) ==
    SaturatingSub(snapshot.call_budget, snapshot.calls_made + n)

(* Faulty variant: the batch is checked and charged to nobody. *)
validate_uncharged(c) ==
    LET q == r[c].call IN
    /\ r[c].at = "use"
    /\ IF Store!AcceptsBatch(sessions[q.session], q.tools, q.agent, now)
       THEN r' = [r EXCEPT ![c].at = "policy"] ELSE deny(c)
    /\ Local

(* Stage 7: the whole batch is charged or none of it; a session found past *)
(* its time is marked.                                                     *)
validate_session_tools(c) ==
    LET q == r[c].call  ses == sessions[q.session] IN
    /\ r[c].at = "use"
    /\ \/ /\ Store!use_session_batch(q.session, q.tools, q.agent)
          /\ r' = [r EXCEPT ![c].at = "policy", ![c].session = NoSession,
                            ![c].remaining = calls_remaining(r[c].session, Len(q.tools))]
       \/ Store!use_expired(q.session, q.agent) /\ deny(c)
       \/ /\ ~Store!AcceptsBatch(ses, q.tools, q.agent, now)
          /\ ~Store!Overdue(ses, q.agent, now)
          /\ deny(c)
          /\ UNCHANGED storeVars
    /\ UNCHANGED <<stateVars, auditVars, forwarded>>

(* Stage 8: the snapshot of the policies; with none loaded, MCP traffic is *)
(* denied, and so is a caller nobody can identify.                         *)
policy_snapshot(c) ==
    LET q == r[c].call IN
    /\ r[c].at = "policy"
    /\ IF policy = NoPolicy \/ DOMAIN policy = {} \/ q.agent \notin Agent THEN deny(c)
       ELSE r' = [r EXCEPT ![c].at = "evaluate", ![c].policy = policy]
    /\ Local

(* An agent the registry does not know is Untrusted. *)
EffectiveTrust(a) == IF trust[a] = Unknown THEN 0 ELSE trust[a]

(* Every call of the batch must be allowed. *)
PolicyAllows(pc, level, tools) ==
    \A i \in DOMAIN tools : tools[i] \in DOMAIN pc /\ level >= pc[tools[i]]

(* Stage 8: the registry is asked for the trust level, the snapshot        *)
(* decides.  Without a session the remaining stages do not apply.          *)
evaluate_mcp_policies(c) ==
    LET q == r[c].call IN
    /\ r[c].at = "evaluate"
    /\ IF ~PolicyAllows(r[c].policy, EffectiveTrust(q.agent), q.tools) THEN deny(c)
       ELSE r' = [r EXCEPT ![c].at = IF HasSession(q) THEN "anomaly" ELSE "forward",
                           ![c].policy = NoPolicy]
    /\ Local

(* The detector's own verdict, once no demotion has ended the request.     *)
Verdict(denied) == IF denied THEN "audit" ELSE "inject"

(* Stage 9: n flags, the last of them a denial or not; the agent's count,  *)
(* halved for every hour since the last flag, grows by n.                  *)
detect_behavioral_anomalies(c, n, denied, hours) ==
    LET q == r[c].call
        count == (anomaly_counts[q.agent] \div 2^hours) + n
    IN
    /\ r[c].at = "anomaly"
    /\ n \in 0..Len(q.tools)
    /\ denied => n > 0
    /\ IF n = 0 THEN Goto(c, "inject") /\ UNCHANGED anomaly_counts
       ELSE /\ count <= MaxFlags
            /\ anomaly_counts' = [anomaly_counts EXCEPT ![q.agent] = count]
            /\ r' = [r EXCEPT ![c].denied = denied,
                              ![c].at = IF count >= TrustDegradationThreshold
                                        THEN "demote_read" ELSE Verdict(denied)]
    /\ UNCHANGED <<storeVars, config, policy, trust, auditVars, forwarded>>

(* Stage 9, past the threshold: read the level; an agent that is unknown   *)
(* or at the bottom is left as it is.                                      *)
demote_read(c) ==
    LET level == EffectiveTrust(r[c].call.agent) IN
    /\ r[c].at = "demote_read"
    /\ IF level = 0 THEN Goto(c, Verdict(r[c].denied))
       ELSE r' = [r EXCEPT ![c].at = "demote_write", ![c].level = level - 1]
    /\ Local

(* update_trust_level: the level below the one read, whatever is there     *)
(* now.  The registry may refuse (the agent has been deactivated, which no *)
(* stage looks at, or its storage fails); the handler ignores that.        *)
demote_write(c, ok) ==
    /\ r[c].at = "demote_write"
    /\ trust' = IF ok THEN [trust EXCEPT ![r[c].call.agent] = r[c].level] ELSE trust
    /\ Goto(c, "demote_reset")
    /\ UNCHANGED <<storeVars, config, policy, anomaly_counts, auditVars, forwarded>>

(* The count starts over and the request is denied. *)
demote_reset(c) ==
    /\ r[c].at = "demote_reset"
    /\ anomaly_counts' = [anomaly_counts EXCEPT ![r[c].call.agent] = 0]
    /\ deny(c)
    /\ UNCHANGED <<storeVars, config, policy, trust, auditVars, forwarded>>

(* Stage 9.5: the body is rewritten and its credentials are filled in, or  *)
(* the request is denied.                                                  *)
inject_credentials(c, ok) ==
    /\ r[c].at = "inject"
    /\ Goto(c, IF ok THEN "forward" ELSE "audit")
    /\ Local

(* Stage 10: the request leaves for the upstream. *)
forward(c) ==
    LET q == r[c].call IN
    /\ r[c].at = "forward"
    /\ r' = [r EXCEPT ![c].at = "upstream", ![c].sent = TRUE]
    /\ forwarded' = IF HasSession(q) THEN [forwarded EXCEPT ![q.session] = @ + Len(q.tools)]
                    ELSE forwarded
    /\ UNCHANGED <<storeVars, stateVars, auditVars>>

(* The timer covers the request up to the response's headers. *)
upstream_timeout(c) == r[c].at = "upstream" /\ Goto(c, "audit") /\ Local

(* The upstream sends its status and headers, ... *)
upstream_answers(c) == r[c].at = "upstream" /\ Goto(c, "response") /\ Local

(* ... or the connection to it fails. *)
upstream_fails(c) == r[c].at = "upstream" /\ Goto(c, "audit") /\ Local

(* The response body passes the limit and is replaced by an error, ... *)
response_too_large(c) == r[c].at = "response" /\ Goto(c, "audit") /\ Local

(* ... or it is collected, scrubbed, classified, and passed on or blocked. *)
response_collected(c) == r[c].at = "response" /\ Goto(c, "audit") /\ Local

(* The sink's health after a write that succeeded, ... *)
WriteSucceeded(h) ==
    IF ~h.degraded THEN h
    ELSE IF h.recovery_successes + 1 >= RECOVERY_THRESHOLD
         THEN [degraded |-> FALSE, recovery_successes |-> 0]
         ELSE [h EXCEPT !.recovery_successes = @ + 1]

(* ... and after one that failed. *)
WriteFailed(h) == [degraded |-> TRUE, recovery_successes |-> 0]

CountBlind == IF blind > Cardinality(Client) THEN blind ELSE blind + 1

(* write_audit and the sink's write, which holds the chain lock            *)
(* throughout: the handler ignores a failure, and the response goes out.   *)
(* Hash chain and statistics are left out.                                 *)
write_audit(c) ==
    /\ r[c].at = "audit"
    /\ sink' = IF disk THEN WriteSucceeded(sink) ELSE WriteFailed(sink)
    /\ blind' = IF ~sink'.degraded THEN 0
                ELSE IF r[c].sent /\ ~disk THEN CountBlind ELSE blind
    /\ r' = [r EXCEPT ![c] = Idle]
    /\ UNCHANGED <<storeVars, stateVars, disk, forwarded>>

(* The client disconnects and the request is dropped where it stands, no   *)
(* audit entry written.                                                    *)
client_gone(c) ==
    /\ r[c] # Idle
    /\ ClientsLeave
    /\ r' = [r EXCEPT ![c] = Idle]
    /\ UNCHANGED <<storeVars, stateVars, sink, disk, blind, forwarded>>

----------------------------------------------------------------------------
(* The surroundings. *)

(* The policy watcher or the admin API publishes what it read from the     *)
(* policy file, possibly no policy at all.  A gateway started without a    *)
(* file stays without.                                                     *)
reload_policy(p) ==
    /\ policy # NoPolicy /\ p # NoPolicy
    /\ policy' = p
    /\ UNCHANGED <<storeVars, config, trust, anomaly_counts, auditVars, r, forwarded>>

disk_fails ==
    /\ disk /\ disk' = FALSE
    /\ UNCHANGED <<storeVars, stateVars, sink, blind, r, forwarded>>

disk_returns ==
    /\ ~disk /\ disk' = TRUE
    /\ UNCHANGED <<storeVars, stateVars, sink, blind, r, forwarded>>

(* The clock, the admin API's session operations and the cleanup task.     *)
(* Only the age of a session is ever read, so the clock may stand still    *)
(* while there is none.                                                    *)
admin ==
    /\ \/ Store!Live # {} /\ Store!Tick
       \/ \E s \in SessionId, req \in Requests : Store!create(s, req)
       \/ \E s \in SessionId : Store!close(s)
       \/ \E a \in Agent : Store!close_sessions_for_agent(a)
       \/ Store!cleanup_expired
    /\ UNCHANGED <<stateVars, auditVars, r, forwarded>>

(* What the runtime drives without help from client or upstream. *)
Work(c) ==
    \/ peek(c) \/ fetch(c) \/ validate_session_tools(c)
    \/ policy_snapshot(c) \/ evaluate_mcp_policies(c)
    \/ \E n \in 0..MaxFlags, denied \in BOOLEAN, hours \in 0..1 :
          detect_behavioral_anomalies(c, n, denied, hours)
    \/ demote_read(c) \/ demote_reset(c)
    \/ \E ok \in BOOLEAN : demote_write(c, ok) \/ inject_credentials(c, ok)
    \/ forward(c) \/ upstream_timeout(c) \/ write_audit(c)

Next ==
    \/ \E c \in Client :
        \/ \E q \in Calls : receive(c, q)
        \/ parse(c) \/ turn_away(c)
        \/ Work(c)
        \/ upstream_answers(c) \/ upstream_fails(c)
        \/ response_too_large(c) \/ response_collected(c)
        \/ client_gone(c)
    \/ \E p \in Policies : reload_policy(p)
    \/ disk_fails \/ disk_returns
    \/ admin

Spec == Init /\ [][Next]_vars

(* The runtime polls every task that can go on, timers included.  Nothing  *)
(* is assumed of clients, upstream, disk or operators.                     *)
FairSpec == Spec /\ \A c \in Client : WF_vars(Work(c))

(* Besides, clients keep sending and finish what they send, and the        *)
(* upstream finishes what it answers.                                      *)
CooperativeSpec ==
    /\ FairSpec
    /\ \A c \in Client :
          /\ WF_vars(\E q \in Calls : receive(c, q))
          /\ WF_vars(parse(c))
          /\ WF_vars(response_collected(c))

----------------------------------------------------------------------------
(* Properties. *)

(* Every variable has its type. *)
PipelineTypeOK ==
    /\ config \in Config
    /\ policy \in Policies
    /\ trust \in [Agent -> TrustLevel \cup {Unknown}]
    /\ sink \in [degraded: BOOLEAN, recovery_successes: 0..(RECOVERY_THRESHOLD - 1)]
    /\ disk \in BOOLEAN
    /\ r \in [Client -> InFlight \cup {Idle}]
    /\ forwarded \in [SessionId -> Nat]
    /\ blind \in 0..(Cardinality(Client) + 1)

TypeOK ==
    /\ Store!TypeOK
    /\ PipelineTypeOK
    /\ anomaly_counts \in [Agent -> 0..MaxFlags]

(* End to end: whatever clients send at once, however sessions are closed  *)
(* and cleaned up under their requests, the upstream never sees more MCP   *)
(* calls of a session than the budget the session was created with.        *)
UpstreamWithinBudget ==
    \A s \in SessionId :
        created[s] # NoRequest => forwarded[s] <= created[s].call_budget

(* The calls-remaining header is computed from a snapshot that other       *)
(* requests may have outdated, but it errs on one side only: it never      *)
(* tells an agent that fewer calls are left than there are.                *)
RemainingNeverUnderstated ==
    \A c \in Client :
        r[c] # Idle /\ r[c].remaining # NoRemaining =>
            LET s == r[c].call.session IN
            r[c].remaining >= SaturatingSub(created[s].call_budget, granted[s])

(* With require_audit_healthy, a failing audit file blinds the operator to *)
(* the requests that were in flight when it failed, and to no more: until  *)
(* the sink is healthy again at most one request per connection reaches    *)
(* the upstream unrecorded.  (A request its client abandons is never       *)
(* recorded and not counted here.)                                         *)
BlindSpotBounded ==
    config.require_audit_healthy => blind <= Cardinality(Client)

(* Why they hold.  A request that was charged to s and has not been sent   *)
(* yet stands at one of these stages; Pending(s) has one member per call   *)
(* of those requests.                                                      *)
Cleared ==
    {"policy", "evaluate", "anomaly", "demote_read", "demote_write", "demote_reset",
     "inject", "forward"}

Holders(s) ==
    {c \in Client : /\ r[c] # Idle
                    /\ r[c].at \in Cleared
                    /\ HasSession(r[c].call)
                    /\ r[c].call.session = s}

Pending(s) == UNION {{c} \X (1..Len(r[c].call.tools)) : c \in Holders(s)}

(* What was sent and what may still be sent has all been charged.          *)
SentIsCharged(s) ==
    /\ IsFiniteSet(Pending(s))
    /\ forwarded[s] + Cardinality(Pending(s)) <= granted[s]

(* What a request knows of its session, however long ago it looked.        *)
SnapshotFits(c) ==
    LET q == r[c].call IN
    r[c] # Idle =>
        /\ r[c].at = "fetch" => HasSession(q)
        /\ r[c].at = "use" =>
              /\ HasSession(q)
              /\ r[c].session # NoSession
              /\ created[q.session] # NoRequest
              /\ r[c].session.call_budget = created[q.session].call_budget
              /\ r[c].session.calls_made <= granted[q.session]
        /\ r[c].at \in {"evaluate", "anomaly", "demote_read"} => q.agent \in Agent
        /\ r[c].remaining # NoRemaining =>
              /\ HasSession(q)
              /\ created[q.session] # NoRequest
              /\ r[c].remaining >= SaturatingSub(created[q.session].call_budget, granted[q.session])

(* Requests sent unrecorded were in flight when the sink degraded.         *)
Busy == {c \in Client : r[c] # Idle}
BlindWereInFlight ==
    /\ ~sink.degraded => blind = 0
    /\ sink.degraded /\ config.require_audit_healthy =>
          blind + Cardinality(Busy) <= Cardinality(Client)

GatewayInv ==
    /\ Store!StoreInv
    /\ PipelineTypeOK
    /\ \A s \in SessionId : SentIsCharged(s)
    /\ \A c \in Client : SnapshotFits(c)
    /\ BlindWereInFlight

(* crates/arbiter-audit/src/sink.rs: "once degraded, requires              *)
(* RECOVERY_THRESHOLD consecutive successful writes before returning to    *)
(* healthy": with the disk back for good and clients that keep sending,    *)
(* the sink returns to healthy.                                            *)
AuditRecovers == <>[]disk => (sink.degraded ~> ~sink.degraded)
=============================================================================
