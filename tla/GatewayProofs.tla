--------------------------- MODULE GatewayProofs ----------------------------
(***************************************************************************)
(* For any connections, sessions, requests and policies: the pipeline      *)
(* keeps GatewayInv, so the upstream never sees more calls of a session    *)
(* than its budget, the calls-remaining header never understates, and a    *)
(* failing audit file hides at most one request per connection.  The       *)
(* session store's part is taken from SessionStoreProofs.                  *)
(***************************************************************************)
EXTENDS Gateway, FiniteSetTheorems, TLAPS

(* Nothing used here is about the log; any state function does for it.     *)
StoreProofs == INSTANCE SessionStoreProofs WITH log <- granted

-----------------------------------------------------------------------------
(* What SessionStoreProofs shows, said of the gateway's store.             *)

LEMMA StoreConstants == StoreProofs!SessionAssumption
  BY StoreAssumption
     DEF StoreProofs!TaskSessions, StoreProofs!CreateSessionRequest, StoreProofs!SessionStatus,
         StoreProofs!NoLimit,
         Store!TaskSessions, Store!CreateSessionRequest, Store!SessionStatus, Store!NoLimit

LEMMA SameInv == Store!StoreInv <=> StoreProofs!StoreInv
  BY DEF StoreProofs!StoreInv, Store!StoreInv, StoreProofs!TypeOK, Store!TypeOK,
         StoreProofs!BudgetRespected, Store!BudgetRespected, StoreProofs!Faithful,
         Store!Faithful, StoreProofs!Unissued, Store!Unissued, StoreProofs!TaskSessions,
         Store!TaskSessions, StoreProofs!CreateSessionRequest, Store!CreateSessionRequest,
         StoreProofs!SessionStatus, Store!SessionStatus, StoreProofs!NoLimit, Store!NoLimit

(* The store operations the gateway takes part in.                         *)
StoreMove ==
    \/ Store!Tick
    \/ \E s \in SessionId, req \in Requests : Store!create(s, req)
    \/ \E s \in SessionId, tools \in Batches, caller \in Agent \cup {NoAgent} :
          Store!use_session_batch(s, tools, caller)
    \/ \E s \in SessionId, caller \in Agent \cup {NoAgent} : Store!use_expired(s, caller)
    \/ \E s \in SessionId : Store!close(s)
    \/ \E a \in Agent : Store!close_sessions_for_agent(a)
    \/ Store!cleanup_expired

(* They are the same actions of either instance of the store.              *)
LEMMA SameMove == StoreMove => StoreProofs!Next
  <1>1. Store!Tick => StoreProofs!Tick
    BY DEF Store!Tick, StoreProofs!Tick
  <1>2. ASSUME NEW s, NEW req PROVE Store!create(s, req) => StoreProofs!create(s, req)
    BY DEF Store!create, StoreProofs!create, Store!Insert, StoreProofs!Insert,
           Store!NewSession, StoreProofs!NewSession
  <1>3. ASSUME NEW s, NEW caller
        PROVE  /\ \A tools : Store!use_session_batch(s, tools, caller)
                              => StoreProofs!use_session_batch(s, tools, caller)
               /\ Store!use_expired(s, caller) => StoreProofs!use_expired(s, caller)
    BY DEF Store!use_session_batch, StoreProofs!use_session_batch, Store!use_expired,
           StoreProofs!use_expired, Store!AcceptsBatch, StoreProofs!AcceptsBatch,
           Store!Overdue, StoreProofs!Overdue, Store!Reachable, StoreProofs!Reachable,
           Store!is_expired, StoreProofs!is_expired, Store!is_tool_authorized,
           StoreProofs!is_tool_authorized, Store!BatchRateLimited,
           StoreProofs!BatchRateLimited, Store!WindowElapsed, StoreProofs!WindowElapsed,
           Store!CountedInWindow, StoreProofs!CountedInWindow, Store!Charged,
           StoreProofs!Charged, Store!NoLimit, StoreProofs!NoLimit
  <1>4. ASSUME NEW s PROVE Store!close(s) => StoreProofs!close(s)
    BY DEF Store!close, StoreProofs!close
  <1>5. ASSUME NEW a
        PROVE  Store!close_sessions_for_agent(a) => StoreProofs!close_sessions_for_agent(a)
    BY DEF Store!close_sessions_for_agent, StoreProofs!close_sessions_for_agent,
           Store!ActiveOf, StoreProofs!ActiveOf, Store!Live, StoreProofs!Live
  <1>6. Store!cleanup_expired => StoreProofs!cleanup_expired
    BY DEF Store!cleanup_expired, StoreProofs!cleanup_expired, Store!Stale,
           StoreProofs!Stale, Store!is_expired, StoreProofs!is_expired
  <1> QED
    BY <1>1, <1>2, <1>3, <1>4, <1>5, <1>6 DEF StoreMove, StoreProofs!Next

(* What a store operation does to the history: a session issued stays      *)
(* issued for the same request, and grants are never taken back.           *)
LEMMA StoreHistory ==
    ASSUME Store!StoreInv, StoreMove \/ UNCHANGED storeVars, NEW s \in SessionId
    PROVE  /\ created[s] # NoRequest => created'[s] = created[s]
           /\ granted[s] \in Nat /\ granted'[s] \in Nat /\ granted[s] <= granted'[s]
  <1>1. /\ created \in [SessionId -> Store!CreateSessionRequest \cup {NoRequest}]
        /\ granted \in [SessionId -> Nat]
    BY DEF Store!StoreInv, Store!TypeOK
  <1>2. ASSUME NEW x \in SessionId, NEW req \in Requests, Store!create(x, req)
        PROVE  /\ created[s] # NoRequest => created'[s] = created[s]
               /\ granted' = granted
    BY <1>1, <1>2 DEF Store!create, Store!Insert
  <1>3. ASSUME NEW x \in SessionId, NEW tools \in Batches, NEW caller,
               Store!use_session_batch(x, tools, caller)
        PROVE  /\ created' = created
               /\ granted[s] <= granted'[s] /\ granted'[s] \in Nat
    <2>1. Len(tools) \in Nat
      BY StoreAssumption
    <2> QED BY <1>1, <1>3, <2>1 DEF Store!use_session_batch
  <1>4. CASE UNCHANGED <<created, granted>>
    BY <1>1, <1>4
  <1> QED
    BY <1>1, <1>2, <1>3, <1>4
       DEF StoreMove, storeVars, Store!Tick, Store!use_expired, Store!close,
           Store!close_sessions_for_agent, Store!cleanup_expired

LEMMA StoreStep ==
    ASSUME Store!StoreInv, StoreMove \/ UNCHANGED storeVars
    PROVE  Store!StoreInv'
  <1>1. StoreProofs!StoreInv /\ [StoreProofs!Next]_(StoreProofs!vars) => StoreProofs!StoreInv'
    BY StoreConstants, StoreProofs!NextStoreInv
  <1>2. UNCHANGED storeVars => UNCHANGED StoreProofs!vars
    BY DEF storeVars, StoreProofs!vars
  <1>3. StoreProofs!StoreInv'
    BY <1>1, <1>2, SameInv, SameMove
  <1>4. Store!StoreInv' <=> StoreProofs!StoreInv'
    BY SameInv, PTL
  <1> QED BY <1>3, <1>4

-----------------------------------------------------------------------------
(* The part of the invariant that is about requests in flight.             *)
FlightInv ==
    /\ r \in [Client -> InFlight \cup {Idle}]
    /\ \A s \in SessionId : SentIsCharged(s)
    /\ \A c \in Client : SnapshotFits(c)
    /\ BlindWereInFlight

LEMMA CallType ==
    ASSUME NEW q \in Calls
    PROVE  /\ Len(q.tools) \in Nat
           /\ HasSession(q) => q.session \in SessionId /\ q.tools \in Batches
  BY GatewayAssumption DEF HttpRequest, HasSession

LEMMA FlightType ==
    ASSUME NEW f \in InFlight
    PROVE  f # Idle /\ f.call \in Calls /\ f.at \in Stage
  BY DEF InFlight, Idle, Stage

(* The calls of one request, as they are counted in Pending.               *)
LEMMA BatchCardinality ==
    ASSUME NEW c, NEW n \in Nat
    PROVE  IsFiniteSet({c} \X (1..n)) /\ Cardinality({c} \X (1..n)) = n
  <1> DEFINE f == [i \in 1..n |-> <<c, i>>]
  <1>1. f \in Bijection(1..n, {c} \X (1..n))
    <2>1. f \in [1..n -> {c} \X (1..n)]
      OBVIOUS
    <2>2. IsInjective(f)
      BY DEF IsInjective
    <2>3. ASSUME NEW p \in {c} \X (1..n) PROVE \E i \in 1..n : f[i] = p
      <3>1. p = <<c, p[2]>> /\ p[2] \in 1..n
        OBVIOUS
      <3> QED BY <3>1
    <2> QED BY <2>1, <2>2, <2>3 DEF Bijection, Injection, Surjection
  <1>2. ExistsBijection(1..n, {c} \X (1..n))
    BY <1>1 DEF ExistsBijection
  <1>3. IsFiniteSet(1..n) /\ Cardinality(1..n) = n
    BY FS_Interval
  <1> QED BY <1>2, <1>3, FS_Bijection

(* What one request contributes to Pending.                                *)
Share(c, s) == IF c \in Holders(s) THEN {c} \X (1..Len(r[c].call.tools)) ELSE {}

LEMMA PendingSplit ==
    ASSUME NEW c \in Client, NEW s
    PROVE  Pending(s) = {p \in Pending(s) : p[1] # c} \cup Share(c, s)
  <1>1. \A x : x \in Holders(s) => x \in Client
    BY DEF Holders
  <1> QED BY <1>1 DEF Pending, Share

(* A step that touches one request leaves the others' share alone.         *)
LEMMA PendingOthers ==
    ASSUME NEW c \in Client, NEW s,
           \A x \in Client \ {c} : r'[x] = r[x]
    PROVE  {p \in Pending(s) : p[1] # c}' = {p \in Pending(s) : p[1] # c}
  <1>1. \A x \in Client \ {c} : x \in Holders(s)' <=> x \in Holders(s)
    BY DEF Holders
  <1>2. \A x : (x \in Holders(s) => x \in Client) /\ (x \in Holders(s)' => x \in Client)
    BY DEF Holders
  <1>3. ASSUME NEW p, p \in Pending(s), p[1] # c PROVE p \in Pending(s)'
    <2>1. PICK x \in Holders(s) : p \in {x} \X (1..Len(r[x].call.tools))
      BY <1>3 DEF Pending
    <2>2. x \in Holders(s)' /\ r'[x] = r[x]
      BY <1>1, <1>2, <1>3, <2>1
    <2> QED BY <2>1, <2>2 DEF Pending
  <1>4. ASSUME NEW p, p \in Pending(s)', p[1] # c PROVE p \in Pending(s)
    <2>1. PICK x \in Holders(s)' : p \in {x} \X (1..Len(r'[x].call.tools))
      BY <1>4 DEF Pending
    <2>2. x \in Holders(s) /\ r'[x] = r[x]
      BY <1>1, <1>2, <1>4, <2>1
    <2> QED BY <2>1, <2>2 DEF Pending
  <1> QED BY <1>3, <1>4

LEMMA PendingAfter ==
    ASSUME NEW c \in Client, NEW s,
           \A x \in Client \ {c} : r'[x] = r[x]
    PROVE  Pending(s)' = {p \in Pending(s) : p[1] # c} \cup Share(c, s)'
  <1>1. (Pending(s) = {p \in Pending(s) : p[1] # c} \cup Share(c, s))'
    BY PendingSplit, PTL
  <1>2. {p \in Pending(s) : p[1] # c}' = {p \in Pending(s) : p[1] # c}
    BY PendingOthers
  <1> QED BY <1>1, <1>2

(* Nothing is sent, nothing new is pending.                                *)
LEMMA PendingShrinks ==
    ASSUME NEW s \in SessionId, SentIsCharged(s),
           forwarded[s] \in Nat, granted[s] \in Nat, granted'[s] \in Nat,
           NEW c \in Client, \A x \in Client \ {c} : r'[x] = r[x],
           Share(c, s)' \subseteq Share(c, s),
           forwarded'[s] = forwarded[s], granted[s] <= granted'[s]
    PROVE  SentIsCharged(s)'
  <1>1. Pending(s)' \subseteq Pending(s)
    BY PendingSplit, PendingAfter
  <1>2. /\ IsFiniteSet(Pending(s)')
        /\ Cardinality(Pending(s)') <= Cardinality(Pending(s))
        /\ Cardinality(Pending(s)') \in Nat /\ Cardinality(Pending(s)) \in Nat
    BY <1>1, FS_Subset, FS_CardinalityType DEF SentIsCharged
  <1> QED BY <1>2 DEF SentIsCharged

(* A request nobody touches keeps what it knows, whatever the store did.   *)
LEMMA SnapshotKeeps ==
    ASSUME Store!StoreInv, StoreMove \/ UNCHANGED storeVars,
           NEW c \in Client, r[c] \in InFlight \cup {Idle}, SnapshotFits(c), r'[c] = r[c]
    PROVE  SnapshotFits(c)'
  <1> DEFINE q == r[c].call
             s == q.session
  <1> SUFFICES ASSUME r[c] # Idle PROVE SnapshotFits(c)'
    BY DEF SnapshotFits
  <1>1. HasSession(q) => s \in SessionId
    BY DEF HasSession
  <1>2. ASSUME HasSession(q), created[s] # NoRequest
        PROVE  /\ created'[s] = created[s] /\ granted[s] <= granted'[s]
               /\ granted[s] \in Nat /\ granted'[s] \in Nat
               /\ created[s].call_budget \in Nat
    <2>1. created[s].call_budget \in Nat
      BY <1>1, <1>2 DEF Store!StoreInv, Store!TypeOK, Store!CreateSessionRequest
    <2> QED BY <1>1, <1>2, <2>1, StoreHistory
  <1>3. ASSUME r[c].at = "use"
        PROVE  /\ HasSession(q) /\ r[c].session # NoSession /\ created'[s] # NoRequest
               /\ r[c].session.call_budget = created'[s].call_budget
               /\ r[c].session.calls_made <= granted'[s]
    <2>1. r[c].session \in Store!TaskSessions
      BY <1>3 DEF SnapshotFits, InFlight
    <2>2. r[c].session.calls_made \in Nat
      BY <2>1 DEF Store!TaskSessions
    <2> QED BY <1>2, <1>3, <2>2 DEF SnapshotFits
  <1>4. ASSUME r[c].remaining # NoRemaining
        PROVE  /\ HasSession(q) /\ created'[s] # NoRequest
               /\ r[c].remaining >= SaturatingSub(created'[s].call_budget, granted'[s])
    <2>1. r[c].remaining \in Nat
      BY <1>4 DEF InFlight
    <2>2. /\ HasSession(q) /\ created[s] # NoRequest
          /\ r[c].remaining >= SaturatingSub(created[s].call_budget, granted[s])
      BY <1>4 DEF SnapshotFits
    <2> QED BY <1>2, <2>1, <2>2 DEF SaturatingSub
  <1> QED BY <1>3, <1>4 DEF SnapshotFits, HasSession

(* A request goes on: it keeps its call and its header, and is not cleared *)
(* unless it was.                                                          *)
LEMMA MoveInv ==
    ASSUME GatewayInv, StoreMove \/ UNCHANGED storeVars, UNCHANGED <<created, granted>>,
           NEW c \in Client, r[c] # Idle,
           NEW f \in InFlight, r' = [r EXCEPT ![c] = f],
           f.call = r[c].call,
           f.remaining = r[c].remaining,
           f.at \in Cleared /\ HasSession(f.call) => r[c].at \in Cleared,
           f.at = "fetch" => HasSession(f.call),
           f.at = "use" =>
              /\ HasSession(f.call)
              /\ f.session # NoSession
              /\ created[f.call.session] # NoRequest
              /\ f.session.call_budget = created[f.call.session].call_budget
              /\ f.session.calls_made <= granted[f.call.session],
           f.at \in {"evaluate", "anomaly", "demote_read"} => f.call.agent \in Agent,
           UNCHANGED <<config, sink, blind, forwarded>>
    PROVE  FlightInv'
  <1>1. r \in [Client -> InFlight \cup {Idle}] /\ f # Idle
    BY FlightType DEF GatewayInv, PipelineTypeOK
  <1>2. r' \in [Client -> InFlight \cup {Idle}] /\ r'[c] = f /\ \A x \in Client \ {c} : r'[x] = r[x]
    BY <1>1
  <1>3. ASSUME NEW s \in SessionId PROVE SentIsCharged(s)'
    <2>1. c \in Holders(s)' => c \in Holders(s)
      BY <1>1, <1>2 DEF Holders, HasSession
    <2>2. Share(c, s)' \subseteq Share(c, s)
      BY <1>2, <2>1 DEF Share
    <2>3. /\ SentIsCharged(s) /\ forwarded[s] \in Nat /\ granted[s] \in Nat
          /\ granted'[s] = granted[s] /\ forwarded'[s] = forwarded[s]
      BY DEF GatewayInv, PipelineTypeOK, Store!StoreInv, Store!TypeOK
    <2> QED BY <1>2, <2>2, <2>3, PendingShrinks
  <1>4. ASSUME NEW x \in Client PROVE SnapshotFits(x)'
    <2>1. CASE x = c
      <3>1. SnapshotFits(c)
        BY DEF GatewayInv
      <3> QED BY <1>2, <2>1, <3>1 DEF SnapshotFits, HasSession
    <2>2. CASE x # c
      BY <1>1, <1>2, <2>2, SnapshotKeeps DEF GatewayInv
    <2> QED BY <2>1, <2>2
  <1>5. BlindWereInFlight'
    <2>1. Busy' = Busy
      BY <1>1, <1>2 DEF Busy
    <2> QED BY <2>1 DEF GatewayInv, BlindWereInFlight
  <1> QED BY <1>2, <1>3, <1>4, <1>5 DEF FlightInv

(* The moves that only change the stage.                                   *)
LEMMA GotoInv ==
    ASSUME GatewayInv, StoreMove \/ UNCHANGED storeVars, UNCHANGED <<created, granted>>,
           NEW c \in Client, r[c] # Idle,
           NEW stage \in Stage \ {"use"}, Goto(c, stage),
           stage \in Cleared /\ HasSession(r[c].call) => r[c].at \in Cleared,
           stage = "fetch" => HasSession(r[c].call),
           stage \in {"evaluate", "anomaly", "demote_read"} => r[c].call.agent \in Agent,
           UNCHANGED <<config, sink, blind, forwarded>>
    PROVE  FlightInv'
  <1> DEFINE f == [r[c] EXCEPT !.at = stage]
  <1>1. r \in [Client -> InFlight \cup {Idle}] /\ r[c] \in InFlight
    BY DEF GatewayInv, PipelineTypeOK
  <1>2. /\ f \in InFlight /\ f.at = stage /\ f.call = r[c].call
        /\ f.remaining = r[c].remaining
    BY <1>1 DEF InFlight
  <1>3. r' = [r EXCEPT ![c] = f]
    BY <1>1 DEF Goto
  <1> HIDE DEF f
  <1> QED BY <1>2, <1>3, MoveInv

(* A request comes in: only while the sink is healthy, or nobody asked     *)
(* that it be.                                                             *)
LEMMA ReceiveInv ==
    ASSUME GatewayInv, NEW c \in Client, NEW q \in Calls, receive(c, q)
    PROVE  FlightInv'
  <1> DEFINE f == Begin(q)
  <1>1. /\ f \in InFlight /\ f.at = "body" /\ f.remaining = NoRemaining /\ f.call = q
    BY DEF Begin, InFlight, Stage, TrustLevel, NoRemaining
  <1>2. /\ r \in [Client -> InFlight \cup {Idle}] /\ r[c] = Idle /\ r' = [r EXCEPT ![c] = f]
        /\ ~(config.require_audit_healthy /\ sink.degraded)
        /\ UNCHANGED <<storeVars, config, sink, blind, forwarded>>
    BY DEF GatewayInv, PipelineTypeOK, receive, AdmittedByAudit, Local, auditVars, stateVars
  <1> HIDE DEF f
  <1>3. r' \in [Client -> InFlight \cup {Idle}] /\ r'[c] = f /\ \A x \in Client \ {c} : r'[x] = r[x]
    BY <1>1, <1>2
  <1>4. ASSUME NEW s \in SessionId PROVE SentIsCharged(s)'
    <2>1. Share(c, s)' \subseteq Share(c, s)
      BY <1>1, <1>3 DEF Share, Holders, Cleared
    <2>2. /\ SentIsCharged(s) /\ forwarded[s] \in Nat /\ granted[s] \in Nat
          /\ granted'[s] = granted[s] /\ forwarded'[s] = forwarded[s]
      BY <1>2 DEF GatewayInv, PipelineTypeOK, Store!StoreInv, Store!TypeOK, storeVars
    <2> QED BY <1>3, <2>1, <2>2, PendingShrinks
  <1>5. ASSUME NEW x \in Client PROVE SnapshotFits(x)'
    <2>1. CASE x = c
      BY <1>1, <1>3, <2>1 DEF SnapshotFits
    <2>2. CASE x # c
      BY <1>2, <1>3, <2>2, SnapshotKeeps DEF GatewayInv
    <2> QED BY <2>1, <2>2
  <1>6. BlindWereInFlight'
    BY <1>2 DEF GatewayInv, BlindWereInFlight
  <1> QED BY <1>3, <1>4, <1>5, <1>6 DEF FlightInv

(* A request leaves its connection; what it had pending is given up.       *)
LEMMA LeaveInv ==
    ASSUME GatewayInv, NEW c \in Client, r[c] # Idle, r' = [r EXCEPT ![c] = Idle],
           UNCHANGED <<storeVars, forwarded>>
    PROVE  /\ r' \in [Client -> InFlight \cup {Idle}]
           /\ \A s \in SessionId : SentIsCharged(s)'
           /\ \A x \in Client : SnapshotFits(x)'
           /\ Cardinality(Busy') = Cardinality(Busy) - 1
           /\ Cardinality(Busy) \in Nat /\ Cardinality(Client) \in Nat
           /\ Cardinality(Busy) <= Cardinality(Client)
  <1>1. /\ r \in [Client -> InFlight \cup {Idle}]
        /\ r' \in [Client -> InFlight \cup {Idle}]
        /\ r'[c] = Idle /\ \A x \in Client \ {c} : r'[x] = r[x]
    BY DEF GatewayInv, PipelineTypeOK
  <1>2. ASSUME NEW s \in SessionId PROVE SentIsCharged(s)'
    <2>1. Share(c, s)' \subseteq Share(c, s)
      BY <1>1 DEF Share, Holders
    <2>2. /\ SentIsCharged(s) /\ forwarded[s] \in Nat /\ granted[s] \in Nat
          /\ granted'[s] = granted[s] /\ forwarded'[s] = forwarded[s]
      BY DEF GatewayInv, PipelineTypeOK, Store!StoreInv, Store!TypeOK, storeVars
    <2> QED BY <1>1, <2>1, <2>2, PendingShrinks
  <1>3. ASSUME NEW x \in Client PROVE SnapshotFits(x)'
    <2>1. CASE x = c
      BY <1>1, <2>1 DEF SnapshotFits
    <2>2. CASE x # c
      BY <1>1, <2>2, SnapshotKeeps DEF GatewayInv
    <2> QED BY <2>1, <2>2
  <1>4. Busy' = Busy \ {c} /\ c \in Busy /\ Busy \in SUBSET Client
    BY <1>1 DEF Busy
  <1>5. IsFiniteSet(Client) /\ IsFiniteSet(Busy)
    BY <1>4, GatewayAssumption, FS_Subset
  <1>6. /\ Cardinality(Busy) \in Nat /\ Cardinality(Client) \in Nat
        /\ Cardinality(Busy) <= Cardinality(Client)
        /\ Cardinality(Busy \ {c}) = Cardinality(Busy) - 1
    BY <1>4, <1>5, FS_Subset, FS_CardinalityType, FS_RemoveElement
  <1> QED BY <1>1, <1>2, <1>3, <1>4, <1>6

(* The client disconnects. *)
LEMMA GoneInv ==
    ASSUME GatewayInv, NEW c \in Client, client_gone(c)
    PROVE  FlightInv'
  <1>1. /\ r[c] # Idle /\ r' = [r EXCEPT ![c] = Idle]
        /\ UNCHANGED <<storeVars, forwarded>> /\ UNCHANGED <<sink, blind, config>>
    BY DEF client_gone, stateVars
  <1>2. /\ r' \in [Client -> InFlight \cup {Idle}]
        /\ \A s \in SessionId : SentIsCharged(s)'
        /\ \A x \in Client : SnapshotFits(x)'
        /\ Cardinality(Busy') = Cardinality(Busy) - 1
        /\ Cardinality(Busy) \in Nat /\ Cardinality(Client) \in Nat
    BY <1>1, LeaveInv
  <1>3. blind \in Nat
    BY <1>2 DEF GatewayInv, PipelineTypeOK
  <1>4. BlindWereInFlight'
    BY <1>1, <1>2, <1>3 DEF GatewayInv, BlindWereInFlight
  <1> QED BY <1>2, <1>4 DEF FlightInv

(* The audit entry is written, or not: each blind request gives up its     *)
(* place among the busy ones.                                              *)
LEMMA AuditInv ==
    ASSUME GatewayInv, NEW c \in Client, write_audit(c)
    PROVE  /\ FlightInv'
           /\ sink' \in [degraded: BOOLEAN, recovery_successes: 0..(RECOVERY_THRESHOLD - 1)]
           /\ blind' \in 0..(Cardinality(Client) + 1)
  <1>1. /\ r[c] # Idle /\ r' = [r EXCEPT ![c] = Idle]
        /\ UNCHANGED <<storeVars, forwarded>> /\ UNCHANGED <<config, disk>>
    BY DEF write_audit, stateVars, Idle
  <1>2. /\ r' \in [Client -> InFlight \cup {Idle}]
        /\ \A s \in SessionId : SentIsCharged(s)'
        /\ \A x \in Client : SnapshotFits(x)'
        /\ Cardinality(Busy') = Cardinality(Busy) - 1
        /\ Cardinality(Busy) \in Nat /\ Cardinality(Client) \in Nat
        /\ Cardinality(Busy) <= Cardinality(Client)
    BY <1>1, LeaveInv
  <1>3. /\ blind \in 0..(Cardinality(Client) + 1)
        /\ sink \in [degraded: BOOLEAN, recovery_successes: 0..(RECOVERY_THRESHOLD - 1)]
        /\ RECOVERY_THRESHOLD \in Nat \ {0}
    BY GatewayAssumption DEF GatewayInv, PipelineTypeOK
  <1>4. /\ sink' \in [degraded: BOOLEAN, recovery_successes: 0..(RECOVERY_THRESHOLD - 1)]
        /\ sink'.degraded => sink.degraded \/ ~disk
    <2>1. CASE disk
      <3>1. sink' = WriteSucceeded(sink)
        BY <2>1 DEF write_audit
      <3>2. CASE ~sink.degraded
        BY <1>3, <3>1, <3>2 DEF WriteSucceeded
      <3>3. CASE sink.degraded /\ sink.recovery_successes + 1 >= RECOVERY_THRESHOLD
        <4>1. sink' = [degraded |-> FALSE, recovery_successes |-> 0]
          BY <3>1, <3>3 DEF WriteSucceeded
        <4> QED BY <1>3, <4>1
      <3>4. CASE sink.degraded /\ ~(sink.recovery_successes + 1 >= RECOVERY_THRESHOLD)
        <4>1. sink' = [sink EXCEPT !.recovery_successes = sink.recovery_successes + 1]
          BY <3>1, <3>4 DEF WriteSucceeded
        <4> QED BY <1>3, <3>4, <4>1
      <3> QED BY <3>2, <3>3, <3>4
    <2>2. CASE ~disk
      <3>1. sink' = [degraded |-> TRUE, recovery_successes |-> 0]
        BY <2>2 DEF write_audit, WriteFailed
      <3> QED BY <1>3, <2>2, <3>1
    <2> QED BY <2>1, <2>2
  <1>5. /\ ~sink'.degraded => blind' = 0
        /\ sink'.degraded => \/ blind' = blind
                             \/ ~disk /\ blind' = blind + 1 /\ blind <= Cardinality(Client)
    BY <1>2, <1>3, <1>4 DEF write_audit, CountBlind
  <1>6. blind' \in 0..(Cardinality(Client) + 1)
    BY <1>2, <1>3, <1>4, <1>5
  <1>7. BlindWereInFlight'
    <2>1. CASE ~sink'.degraded
      BY <1>4, <1>5, <2>1 DEF BlindWereInFlight
    <2>2. CASE sink'.degraded /\ sink.degraded
      BY <1>1, <1>2, <1>3, <1>5, <2>2 DEF GatewayInv, BlindWereInFlight
    <2>3. CASE sink'.degraded /\ ~sink.degraded
      <3>1. blind = 0
        BY <2>3 DEF GatewayInv, BlindWereInFlight
      <3> QED BY <1>1, <1>2, <1>5, <2>3, <3>1 DEF BlindWereInFlight
    <2> QED BY <1>4, <2>1, <2>2, <2>3
  <1> QED BY <1>2, <1>4, <1>6, <1>7 DEF FlightInv

(* Two finite sets with nothing in common.                                 *)
LEMMA DisjointUnion ==
    ASSUME NEW S, NEW T, IsFiniteSet(S), IsFiniteSet(T), S \cap T = {}
    PROVE  /\ IsFiniteSet(S \cup T)
           /\ Cardinality(S \cup T) = Cardinality(S) + Cardinality(T)
  <1>1. Cardinality(S) \in Nat /\ Cardinality(T) \in Nat
    BY FS_CardinalityType
  <1> QED BY <1>1, FS_Union, FS_EmptySet

(* The batch of a request that was not counted joins Pending, ...          *)
LEMMA PendingGrows ==
    ASSUME NEW s \in SessionId, IsFiniteSet(Pending(s)),
           NEW c \in Client, \A x \in Client \ {c} : r'[x] = r[x],
           NEW n \in Nat, Share(c, s) = {}, Share(c, s)' = {c} \X (1..n)
    PROVE  /\ IsFiniteSet(Pending(s)')
           /\ Cardinality(Pending(s)') = Cardinality(Pending(s)) + n
           /\ Cardinality(Pending(s)) \in Nat
  <1> DEFINE rest == {p \in Pending(s) : p[1] # c}
             mine == {c} \X (1..n)
  <1>1. Pending(s) = rest
    BY PendingSplit
  <1>2. Pending(s)' = rest \cup mine /\ rest \cap mine = {}
    BY PendingAfter
  <1>3. IsFiniteSet(mine) /\ Cardinality(mine) = n
    BY BatchCardinality
  <1>4. IsFiniteSet(rest)
    BY <1>1
  <1> HIDE DEF rest, mine
  <1> QED BY <1>1, <1>2, <1>3, <1>4, DisjointUnion, FS_CardinalityType

(* ... and the batch of one that was counted leaves it.                    *)
LEMMA PendingLoses ==
    ASSUME NEW s \in SessionId, IsFiniteSet(Pending(s)),
           NEW c \in Client, \A x \in Client \ {c} : r'[x] = r[x],
           NEW n \in Nat, Share(c, s) = {c} \X (1..n), Share(c, s)' = {}
    PROVE  /\ IsFiniteSet(Pending(s)')
           /\ Cardinality(Pending(s)) = Cardinality(Pending(s)') + n
           /\ Cardinality(Pending(s)') \in Nat
  <1> DEFINE rest == {p \in Pending(s) : p[1] # c}
             mine == {c} \X (1..n)
  <1>1. Pending(s) = rest \cup mine /\ rest \cap mine = {}
    BY PendingSplit
  <1>2. Pending(s)' = rest
    BY PendingAfter
  <1>3. IsFiniteSet(mine) /\ Cardinality(mine) = n
    BY BatchCardinality
  <1>4. IsFiniteSet(rest)
    BY <1>1, FS_Subset
  <1> HIDE DEF rest, mine
  <1> QED BY <1>1, <1>2, <1>3, <1>4, DisjointUnion, FS_CardinalityType

(* Adding as many to the waiting calls as to the granted ones.             *)
LEMMA Added ==
    ASSUME NEW n \in Nat, NEW sent \in Nat, NEW waiting \in Nat, NEW limit \in Nat,
           sent + waiting <= limit
    PROVE  sent + (waiting + n) <= limit + n
  OBVIOUS

(* The later the snapshot, the less it says is left.                       *)
LEMMA SubMonotone ==
    ASSUME NEW a \in Nat, NEW m \in Nat, NEW n \in Nat, NEW k \in Nat, m <= n
    PROVE  /\ SaturatingSub(a, m + k) \in Nat
           /\ SaturatingSub(a, m + k) >= SaturatingSub(a, n + k)
  BY DEF SaturatingSub

(* A batch is charged: its calls become pending, and the header is taken   *)
(* from the snapshot.                                                      *)
LEMMA ChargeInv ==
    ASSUME GatewayInv, NEW c \in Client, r[c].at = "use",
           Store!use_session_batch(r[c].call.session, r[c].call.tools, r[c].call.agent),
           r' = [r EXCEPT ![c].at = "policy", ![c].session = NoSession,
                          ![c].remaining = calls_remaining(r[c].session, Len(r[c].call.tools))],
           UNCHANGED <<config, sink, blind, forwarded>>
    PROVE  FlightInv' /\ StoreMove
  <1> DEFINE q == r[c].call
             s == q.session
             n == Len(q.tools)
             left == calls_remaining(r[c].session, n)
             f == [[[r[c] EXCEPT !.at = "policy"] EXCEPT !.session = NoSession]
                     EXCEPT !.remaining = left]
  <1>1. r \in [Client -> InFlight \cup {Idle}] /\ r[c] # Idle /\ r[c] \in InFlight
    BY DEF GatewayInv, PipelineTypeOK, Idle
  <1>2. /\ HasSession(q) /\ s \in SessionId /\ n \in Nat /\ q \in Calls /\ q.tools \in Batches
        /\ r[c].session # NoSession /\ created[s] # NoRequest
        /\ r[c].session.call_budget = created[s].call_budget
        /\ r[c].session.calls_made <= granted[s]
    BY <1>1, FlightType, CallType DEF GatewayInv, SnapshotFits
  <1>3. StoreMove
    <2>1. sessions[s] # NoSession /\ q.agent \in {NoAgent, sessions[s].agent_id}
      BY DEF Store!use_session_batch, Store!AcceptsBatch, Store!Reachable
    <2>2. q.agent \in Agent \cup {NoAgent}
      BY <1>2, <2>1 DEF GatewayInv, Store!StoreInv, Store!TypeOK, Store!TaskSessions
    <2> QED BY <1>2, <2>2 DEF StoreMove
  <1>4. /\ r[c].session.calls_made \in Nat /\ r[c].session.call_budget \in Nat
        /\ granted[s] \in Nat /\ granted'[s] = granted[s] + n /\ created' = created
        /\ \A x \in SessionId \ {s} : granted'[x] = granted[x]
    <2>1. r[c].session \in Store!TaskSessions
      BY <1>1, <1>2 DEF InFlight
    <2>2. r[c].session.calls_made \in Nat /\ r[c].session.call_budget \in Nat
      BY <2>1 DEF Store!TaskSessions
    <2> QED BY <1>2, <2>2 DEF GatewayInv, Store!StoreInv, Store!TypeOK, Store!use_session_batch
  <1>5. left \in Nat /\ left >= SaturatingSub(created[s].call_budget, granted[s] + n)
    <2>1. left = SaturatingSub(created[s].call_budget, r[c].session.calls_made + n)
      BY <1>2 DEF calls_remaining
    <2> HIDE DEF s, n, left
    <2> QED BY <1>2, <1>4, <2>1, SubMonotone
  <1>6. /\ f \in InFlight /\ f.at = "policy" /\ f.call = q /\ f.remaining = left
    <2>1. [r[c] EXCEPT !.at = "policy"] \in InFlight /\ [r[c] EXCEPT !.at = "policy"].call = q
          /\ [r[c] EXCEPT !.at = "policy"].at = "policy"
      BY <1>1 DEF InFlight, Stage
    <2> DEFINE g == [r[c] EXCEPT !.at = "policy"]
    <2> HIDE DEF g, left
    <2>2. [[g EXCEPT !.session = NoSession] EXCEPT !.remaining = left] \in InFlight
      BY <1>5, <2>1 DEF InFlight, g
    <2>3. /\ [[g EXCEPT !.session = NoSession] EXCEPT !.remaining = left].at = g.at
          /\ [[g EXCEPT !.session = NoSession] EXCEPT !.remaining = left].call = g.call
          /\ [[g EXCEPT !.session = NoSession] EXCEPT !.remaining = left].remaining = left
      BY <2>1 DEF InFlight, g
    <2> QED BY <2>1, <2>2, <2>3 DEF g
  <1>7. r' = [r EXCEPT ![c] = f]
    BY <1>1
  <1> HIDE DEF f, left
  <1>8. /\ r' \in [Client -> InFlight \cup {Idle}] /\ r'[c] = f /\ f # Idle
        /\ \A x \in Client \ {c} : r'[x] = r[x]
    BY <1>1, <1>6, <1>7, FlightType, ZenonT(30)
  <1>9. ASSUME NEW x \in SessionId PROVE SentIsCharged(x)'
    <2>1. SentIsCharged(x) /\ forwarded[x] \in Nat /\ forwarded'[x] = forwarded[x] /\ granted[x] \in Nat
      BY DEF GatewayInv, PipelineTypeOK, Store!StoreInv, Store!TypeOK
    <2>2. Share(c, x) = {}
      BY DEF Share, Holders, Cleared
    <2>3. CASE x = s
      <3>1. Share(c, x)' = {c} \X (1..n)
        BY <1>2, <1>6, <1>8, <2>3 DEF Share, Holders, Cleared, HasSession
      <3>2. /\ IsFiniteSet(Pending(x)')
            /\ Cardinality(Pending(x)') = Cardinality(Pending(x)) + n
            /\ Cardinality(Pending(x)) \in Nat
        BY <1>2, <1>8, <2>1, <2>2, <3>1, PendingGrows DEF SentIsCharged
      <3>3. granted'[x] = granted[x] + n /\ forwarded[x] + Cardinality(Pending(x)) <= granted[x]
        BY <1>4, <2>1, <2>3 DEF SentIsCharged
      <3>4. forwarded'[x] + Cardinality(Pending(x)') <= granted'[x]
        <4> HIDE DEF n, s, q
        <4> QED BY <1>2, <2>1, <3>2, <3>3, Added
      <3> QED BY <3>2, <3>4 DEF SentIsCharged
    <2>4. CASE x # s
      <3>1. Share(c, x)' = {}
        BY <1>6, <1>8, <2>4 DEF Share, Holders
      <3> QED BY <1>4, <1>8, <2>1, <2>2, <2>4, <3>1, PendingShrinks
    <2> QED BY <2>3, <2>4
  <1>10. ASSUME NEW x \in Client PROVE SnapshotFits(x)'
    <2>1. CASE x = c
      BY <1>2, <1>4, <1>5, <1>6, <1>8, <2>1 DEF SnapshotFits, HasSession
    <2>2. CASE x # c
      BY <1>1, <1>3, <1>8, <2>2, SnapshotKeeps DEF GatewayInv
    <2> QED BY <2>1, <2>2
  <1>11. BlindWereInFlight'
    <2>1. Busy' = Busy
      BY <1>1, <1>8 DEF Busy
    <2> QED BY <2>1 DEF GatewayInv, BlindWereInFlight
  <1> QED BY <1>3, <1>8, <1>9, <1>10, <1>11 DEF FlightInv

(* A request leaves for the upstream: its calls are no longer pending.     *)
LEMMA ForwardInv ==
    ASSUME GatewayInv, NEW c \in Client, forward(c)
    PROVE  FlightInv' /\ forwarded' \in [SessionId -> Nat]
  <1> DEFINE q == r[c].call
             n == Len(q.tools)
             f == [[r[c] EXCEPT !.at = "upstream"] EXCEPT !.sent = TRUE]
  <1>1. /\ r \in [Client -> InFlight \cup {Idle}] /\ r[c] # Idle /\ r[c] \in InFlight
        /\ r[c].at = "forward" /\ forwarded \in [SessionId -> Nat]
        /\ UNCHANGED storeVars /\ UNCHANGED <<config, sink, blind>>
    BY DEF GatewayInv, PipelineTypeOK, forward, Idle, auditVars, stateVars
  <1>2. q \in Calls /\ n \in Nat
    BY <1>1, FlightType, CallType
  <1>3. /\ f \in InFlight /\ f.at = "upstream" /\ f.call = q /\ f.remaining = r[c].remaining
    BY <1>1 DEF InFlight, Stage
  <1>4. r' = [r EXCEPT ![c] = f]
    BY <1>1 DEF forward
  <1> HIDE DEF f
  <1>5. /\ r' \in [Client -> InFlight \cup {Idle}] /\ r'[c] = f /\ f # Idle
        /\ \A x \in Client \ {c} : r'[x] = r[x]
    BY <1>1, <1>3, <1>4, FlightType
  <1>6. /\ forwarded' \in [SessionId -> Nat]
        /\ \A x \in SessionId :
              forwarded'[x] = IF HasSession(q) /\ q.session = x THEN forwarded[x] + n ELSE forwarded[x]
    <2>1. CASE HasSession(q)
      <3>1. q.session \in SessionId
        BY <2>1 DEF HasSession
      <3>2. forwarded' = [forwarded EXCEPT ![q.session] = forwarded[q.session] + n]
        BY <2>1 DEF forward
      <3> HIDE DEF q, n
      <3> QED BY <1>1, <1>2, <2>1, <3>1, <3>2
    <2>2. CASE ~HasSession(q)
      BY <1>1, <2>2 DEF forward
    <2> QED BY <2>1, <2>2
  <1>7. ASSUME NEW x \in SessionId PROVE SentIsCharged(x)'
    <2>1. /\ SentIsCharged(x) /\ forwarded[x] \in Nat
          /\ granted'[x] = granted[x] /\ granted[x] \in Nat
      BY <1>1 DEF GatewayInv, PipelineTypeOK, Store!StoreInv, Store!TypeOK, storeVars
    <2>2. Share(c, x)' = {}
      BY <1>3, <1>5 DEF Share, Holders, Cleared
    <2>3. CASE HasSession(q) /\ q.session = x
      <3>1. Share(c, x) = {c} \X (1..n)
        BY <1>1, <2>3 DEF Share, Holders, Cleared
      <3>2. /\ IsFiniteSet(Pending(x)')
            /\ Cardinality(Pending(x)) = Cardinality(Pending(x)') + n
            /\ Cardinality(Pending(x)') \in Nat
        BY <1>2, <1>5, <2>1, <2>2, <3>1, PendingLoses DEF SentIsCharged
      <3> QED BY <1>2, <1>6, <2>1, <2>3, <3>2, SMTT(30) DEF SentIsCharged
    <2>4. CASE ~(HasSession(q) /\ q.session = x)
      BY <1>5, <1>6, <2>1, <2>2, <2>4, PendingShrinks
    <2> QED BY <2>3, <2>4
  <1>8. ASSUME NEW x \in Client PROVE SnapshotFits(x)'
    <2>1. CASE x = c
      <3>1. SnapshotFits(c)
        BY DEF GatewayInv
      <3> QED BY <1>1, <1>3, <1>5, <2>1, <3>1 DEF SnapshotFits, HasSession, storeVars
    <2>2. CASE x # c
      BY <1>1, <1>5, <2>2, SnapshotKeeps DEF GatewayInv
    <2> QED BY <2>1, <2>2
  <1>9. BlindWereInFlight'
    <2>1. Busy' = Busy
      BY <1>1, <1>5 DEF Busy
    <2> QED BY <1>1, <2>1 DEF GatewayInv, BlindWereInFlight
  <1> QED BY <1>5, <1>6, <1>7, <1>8, <1>9 DEF FlightInv

(* What goes on around the requests touches none of them.                  *)
LEMMA AroundInv ==
    ASSUME GatewayInv, StoreMove \/ UNCHANGED storeVars,
           UNCHANGED <<r, forwarded, config, sink, blind>>
    PROVE  FlightInv'
  <1>1. r \in [Client -> InFlight \cup {Idle}]
    BY DEF GatewayInv, PipelineTypeOK
  <1>2. ASSUME NEW s \in SessionId PROVE SentIsCharged(s)'
    <2>1. Holders(s)' = Holders(s)
      BY DEF Holders, HasSession
    <2>2. Pending(s)' = Pending(s)
      BY <2>1 DEF Pending
    <2>3. /\ SentIsCharged(s) /\ forwarded[s] \in Nat /\ granted[s] \in Nat
          /\ granted'[s] \in Nat /\ granted[s] <= granted'[s]
      BY StoreHistory DEF GatewayInv, PipelineTypeOK
    <2>4. Cardinality(Pending(s)) \in Nat
      BY <2>3, FS_CardinalityType DEF SentIsCharged
    <2> QED BY <2>2, <2>3, <2>4 DEF SentIsCharged
  <1>3. ASSUME NEW c \in Client PROVE SnapshotFits(c)'
    BY <1>1, SnapshotKeeps DEF GatewayInv
  <1>4. BlindWereInFlight'
    BY DEF GatewayInv, BlindWereInFlight, Busy
  <1> QED BY <1>1, <1>2, <1>3, <1>4 DEF FlightInv

-----------------------------------------------------------------------------
(* The actions.  Those of a request that leave everything else alone need  *)
(* only their part in flight, ...                                          *)
LEMMA LocalInv ==
    ASSUME GatewayInv, Local, FlightInv'
    PROVE  GatewayInv'
  <1>1. Store!StoreInv'
    BY StoreStep DEF GatewayInv, Local
  <1>2. PipelineTypeOK'
    BY DEF GatewayInv, Local, PipelineTypeOK, FlightInv, stateVars, auditVars
  <1> QED BY <1>1, <1>2 DEF GatewayInv, FlightInv

(* ... and of those that only move on, what the next stage asks for.       *)
LEMMA StayInv ==
    ASSUME GatewayInv, Local, NEW c \in Client, r[c] # Idle,
           NEW stage \in Stage \ {"use"}, Goto(c, stage),
           stage \in Cleared /\ HasSession(r[c].call) => r[c].at \in Cleared,
           stage = "fetch" => HasSession(r[c].call),
           stage \in {"evaluate", "anomaly", "demote_read"} => r[c].call.agent \in Agent
    PROVE  GatewayInv'
  <1>1. /\ UNCHANGED storeVars
        /\ UNCHANGED <<created, granted>> /\ UNCHANGED <<config, sink, blind, forwarded>>
    BY DEF Local, storeVars, stateVars, auditVars
  <1>2. FlightInv'
    BY <1>1, GotoInv
  <1> QED BY <1>2, LocalInv

LEMMA DenyInv ==
    ASSUME GatewayInv, Local, NEW c \in Client, r[c] # Idle, deny(c)
    PROVE  GatewayInv'
  <1>1. "audit" \in Stage \ {"use"} /\ "audit" \notin Cleared
    BY DEF Stage, Cleared
  <1> QED BY <1>1, StayInv DEF deny

LEMMA GatesInv ==
    ASSUME GatewayInv, Local, NEW c \in Client, r[c] # Idle, Goto(c, AfterGates(r[c].call))
    PROVE  GatewayInv'
  <1> DEFINE stage == AfterGates(r[c].call)
  <1>1. /\ stage \in Stage \ {"use"}
        /\ HasSession(r[c].call) => stage = "fetch"
        /\ stage = "fetch" => HasSession(r[c].call)
        /\ stage \notin {"evaluate", "anomaly", "demote_read"}
    BY DEF AfterGates, Stage
  <1>2. "fetch" \notin Cleared
    BY DEF Cleared
  <1> HIDE DEF stage
  <1>3. Goto(c, stage)
    BY DEF stage
  <1> QED BY <1>1, <1>2, <1>3, StayInv

LEMMA ParseInv ==
    ASSUME GatewayInv, NEW c \in Client, parse(c)
    PROVE  GatewayInv'
  <1>1. r[c] # Idle /\ Local
    BY DEF parse, Idle
  <1>2. \/ deny(c) \/ Goto(c, "peek") \/ Goto(c, AfterGates(r[c].call))
    BY DEF parse
  <1>3. CASE Goto(c, "peek")
    <2>1. "peek" \in Stage \ {"use"} /\ "peek" \notin Cleared
      BY DEF Stage, Cleared
    <2> QED BY <1>1, <1>3, <2>1, StayInv
  <1> QED BY <1>1, <1>2, <1>3, DenyInv, GatesInv

LEMMA PeekInv ==
    ASSUME GatewayInv, NEW c \in Client, peek(c)
    PROVE  GatewayInv'
  <1>1. r[c] # Idle /\ Local
    BY DEF peek, Idle
  <1>2. deny(c) \/ Goto(c, AfterGates(r[c].call))
    BY DEF peek
  <1> QED BY <1>1, <1>2, DenyInv, GatesInv

(* The session fetched is the one the store holds: Faithful relates it to  *)
(* the request it was created from and to the calls granted so far.        *)
LEMMA FetchInv ==
    ASSUME GatewayInv, NEW c \in Client, fetch(c)
    PROVE  GatewayInv'
  <1> DEFINE q == r[c].call
             s == q.session
             ses == sessions[s]
             f == [[r[c] EXCEPT !.at = "use"] EXCEPT !.session = ses]
  <1>1. /\ r \in [Client -> InFlight \cup {Idle}] /\ r[c] # Idle /\ r[c] \in InFlight
        /\ Local /\ r[c].at = "fetch"
    BY DEF fetch, Idle, GatewayInv, PipelineTypeOK
  <1>2. HasSession(q) /\ s \in SessionId
    BY <1>1 DEF GatewayInv, SnapshotFits, HasSession
  <1>3. CASE deny(c)
    BY <1>1, <1>3, DenyInv
  <1>4. CASE ses # NoSession /\ r' = [r EXCEPT ![c].at = "use", ![c].session = ses]
    <2>1. ses \in Store!TaskSessions
      BY <1>2, <1>4 DEF GatewayInv, Store!StoreInv, Store!TypeOK
    <2>2. /\ created[s] # NoRequest /\ ses.call_budget = created[s].call_budget
          /\ ses.calls_made = granted[s] /\ granted[s] \in Nat
      BY <1>2, <1>4 DEF GatewayInv, Store!StoreInv, Store!TypeOK, Store!Faithful
    <2>3. r' = [r EXCEPT ![c] = f]
      BY <1>1, <1>4
    <2>4. /\ f \in InFlight /\ f.at = "use" /\ f.call = q /\ f.session = ses
          /\ f.remaining = r[c].remaining
      <3> HIDE DEF q, ses
      <3> QED BY <1>1, <2>1 DEF InFlight, Stage, q
    <2>5. "use" \notin Cleared
      BY DEF Cleared
    <2>6. UNCHANGED storeVars /\ UNCHANGED <<created, granted>> /\ UNCHANGED <<config, sink, blind, forwarded>>
      BY <1>1 DEF Local, storeVars, stateVars, auditVars
    <2> HIDE DEF f
    <2>7. /\ HasSession(f.call)
          /\ f.session # NoSession
          /\ created[f.call.session] # NoRequest
          /\ f.session.call_budget = created[f.call.session].call_budget
          /\ f.session.calls_made <= granted[f.call.session]
      BY <1>2, <1>4, <2>2, <2>4
    <2>8. FlightInv'
      BY <1>1, <2>3, <2>4, <2>5, <2>6, <2>7, MoveInv
    <2> QED BY <1>1, <2>8, LocalInv
  <1> QED BY <1>3, <1>4 DEF fetch

(* The batch is charged, the session is found past its time, or the batch  *)
(* is refused.                                                             *)
LEMMA ValidateInv ==
    ASSUME GatewayInv, NEW c \in Client, validate_session_tools(c)
    PROVE  GatewayInv'
  <1> DEFINE q == r[c].call
  <1>1. /\ r[c].at = "use" /\ r[c] # Idle
        /\ UNCHANGED <<config, sink, blind, forwarded>> /\ UNCHANGED <<policy, trust, disk>>
    BY DEF validate_session_tools, Idle, stateVars, auditVars
  <1>2. r[c] \in InFlight
    BY <1>1 DEF GatewayInv, PipelineTypeOK
  <1>3. HasSession(q) /\ q.session \in SessionId
    BY <1>1 DEF GatewayInv, SnapshotFits, HasSession
  <1>4. FlightInv' /\ (StoreMove \/ UNCHANGED storeVars)
    <2>1. CASE /\ Store!use_session_batch(q.session, q.tools, q.agent)
               /\ r' = [r EXCEPT ![c].at = "policy", ![c].session = NoSession,
                                 ![c].remaining = calls_remaining(r[c].session, Len(q.tools))]
      BY <1>1, <2>1, ChargeInv
    <2>2. ASSUME StoreMove \/ UNCHANGED storeVars, UNCHANGED <<created, granted>>, deny(c)
          PROVE  FlightInv'
      <3>1. "audit" \in Stage \ {"use"} /\ "audit" \notin Cleared
        BY DEF Stage, Cleared
      <3> QED BY <1>1, <2>2, <3>1, GotoInv DEF deny
    <2>3. CASE Store!use_expired(q.session, q.agent) /\ deny(c)
      <3>1. sessions[q.session] # NoSession /\ q.agent \in {NoAgent, sessions[q.session].agent_id}
        BY <2>3 DEF Store!use_expired, Store!Overdue, Store!Reachable
      <3>2. q.agent \in Agent \cup {NoAgent}
        BY <1>3, <3>1 DEF GatewayInv, Store!StoreInv, Store!TypeOK, Store!TaskSessions
      <3>3. StoreMove
        BY <1>3, <2>3, <3>2 DEF StoreMove
      <3>4. UNCHANGED <<created, granted>>
        BY <2>3 DEF Store!use_expired
      <3> QED BY <2>2, <2>3, <3>3, <3>4
    <2>4. CASE UNCHANGED storeVars /\ deny(c)
      <3>1. UNCHANGED <<created, granted>>
        BY <2>4 DEF storeVars
      <3> QED BY <2>2, <2>4, <3>1
    <2> QED BY <2>1, <2>3, <2>4 DEF validate_session_tools
  <1>5. Store!StoreInv'
    BY <1>4, StoreStep DEF GatewayInv
  <1>6. PipelineTypeOK'
    BY <1>1, <1>4 DEF GatewayInv, PipelineTypeOK, FlightInv
  <1> QED BY <1>4, <1>5, <1>6 DEF GatewayInv, FlightInv

LEMMA PolicyInv ==
    ASSUME GatewayInv, NEW c \in Client, policy_snapshot(c)
    PROVE  GatewayInv'
  <1> DEFINE f == [[r[c] EXCEPT !.at = "evaluate"] EXCEPT !.policy = policy]
  <1>1. /\ r \in [Client -> InFlight \cup {Idle}] /\ r[c] # Idle /\ r[c] \in InFlight
        /\ Local /\ r[c].at = "policy"
    BY DEF policy_snapshot, Idle, GatewayInv, PipelineTypeOK
  <1>2. CASE deny(c)
    BY <1>1, <1>2, DenyInv
  <1>3. CASE /\ r[c].call.agent \in Agent
             /\ r' = [r EXCEPT ![c].at = "evaluate", ![c].policy = policy]
    <2>1. policy \in PolicyConfig \cup {NoPolicy}
      BY GatewayAssumption DEF GatewayInv, PipelineTypeOK
    <2>2. r' = [r EXCEPT ![c] = f]
      BY <1>1, <1>3
    <2>3. /\ f \in InFlight /\ f.at = "evaluate" /\ f.call = r[c].call
          /\ f.remaining = r[c].remaining
      BY <1>1, <2>1 DEF InFlight, Stage
    <2>4. "policy" \in Cleared
      BY DEF Cleared
    <2>5. UNCHANGED storeVars /\ UNCHANGED <<created, granted>> /\ UNCHANGED <<config, sink, blind, forwarded>>
      BY <1>1 DEF Local, storeVars, stateVars, auditVars
    <2>6. r[c].call.agent \in Agent
      BY <1>3
    <2> HIDE DEF f
    <2>7. FlightInv'
      BY <1>1, <2>2, <2>3, <2>4, <2>5, <2>6, MoveInv
    <2> QED BY <1>1, <2>7, LocalInv
  <1> QED BY <1>2, <1>3 DEF policy_snapshot

LEMMA EvaluateInv ==
    ASSUME GatewayInv, NEW c \in Client, evaluate_mcp_policies(c)
    PROVE  GatewayInv'
  <1> DEFINE stage == IF HasSession(r[c].call) THEN "anomaly" ELSE "forward"
             f == [[r[c] EXCEPT !.at = stage] EXCEPT !.policy = NoPolicy]
  <1>1. /\ r \in [Client -> InFlight \cup {Idle}] /\ r[c] # Idle /\ r[c] \in InFlight
        /\ Local /\ r[c].at = "evaluate"
    BY DEF evaluate_mcp_policies, Idle, GatewayInv, PipelineTypeOK
  <1>2. CASE deny(c)
    BY <1>1, <1>2, DenyInv
  <1>3. CASE r' = [r EXCEPT ![c].at = stage, ![c].policy = NoPolicy]
    <2>1. r[c].call.agent \in Agent
      BY <1>1 DEF GatewayInv, SnapshotFits
    <2>2. r' = [r EXCEPT ![c] = f]
      BY <1>1, <1>3
    <2>3. stage \in Stage \ {"use", "fetch"}
      BY DEF Stage
    <2> HIDE DEF stage
    <2>4. /\ f \in InFlight /\ f.at = stage /\ f.call = r[c].call
          /\ f.remaining = r[c].remaining
      BY <1>1, <2>3 DEF InFlight
    <2>5. "evaluate" \in Cleared
      BY DEF Cleared
    <2>6. UNCHANGED storeVars /\ UNCHANGED <<created, granted>> /\ UNCHANGED <<config, sink, blind, forwarded>>
      BY <1>1 DEF Local, storeVars, stateVars, auditVars
    <2> HIDE DEF f
    <2>7. FlightInv'
      BY <1>1, <2>1, <2>2, <2>3, <2>4, <2>5, <2>6, MoveInv
    <2> QED BY <1>1, <2>7, LocalInv
  <1> QED BY <1>2, <1>3 DEF evaluate_mcp_policies

(* Stage 9: whatever the detector flags, the request stays charged.        *)
LEMMA AnomalyInv ==
    ASSUME GatewayInv, NEW c \in Client, NEW n, NEW denied \in BOOLEAN, NEW hours,
           detect_behavioral_anomalies(c, n, denied, hours)
    PROVE  GatewayInv'
  <1>1. /\ r \in [Client -> InFlight \cup {Idle}] /\ r[c] # Idle /\ r[c] \in InFlight
        /\ r[c].at = "anomaly" /\ r[c].call.agent \in Agent
    BY DEF detect_behavioral_anomalies, Idle, GatewayInv, PipelineTypeOK, SnapshotFits
  <1>2. /\ UNCHANGED storeVars /\ UNCHANGED <<created, granted>>
        /\ UNCHANGED <<config, sink, blind, forwarded>> /\ UNCHANGED <<policy, trust, disk>>
    BY DEF detect_behavioral_anomalies, storeVars, auditVars
  <1>3. "anomaly" \in Cleared
    BY DEF Cleared
  <1>4. FlightInv'
    <2>1. CASE Goto(c, "inject")
      <3>1. "inject" \in Stage \ {"use"}
        BY DEF Stage
      <3> QED BY <1>1, <1>2, <1>3, <2>1, <3>1, GotoInv
    <2>2. ASSUME NEW stage \in {"demote_read", "audit", "inject"},
                 r' = [r EXCEPT ![c].denied = denied, ![c].at = stage]
          PROVE  FlightInv'
      <3> DEFINE f == [[r[c] EXCEPT !.denied = denied] EXCEPT !.at = stage]
      <3>1. r' = [r EXCEPT ![c] = f]
        BY <1>1, <2>2
      <3>2. /\ f \in InFlight /\ f.at = stage /\ f.call = r[c].call
            /\ f.remaining = r[c].remaining
        BY <1>1 DEF InFlight, Stage
      <3> HIDE DEF f
      <3> QED BY <1>1, <1>2, <1>3, <3>1, <3>2, MoveInv
    <2>3. Verdict(denied) \in {"audit", "inject"}
      BY DEF Verdict
    <2> QED BY <2>1, <2>2, <2>3 DEF detect_behavioral_anomalies
  <1>5. Store!StoreInv'
    BY <1>2, StoreStep DEF GatewayInv
  <1>6. PipelineTypeOK'
    BY <1>2, <1>4 DEF GatewayInv, PipelineTypeOK, FlightInv
  <1> QED BY <1>4, <1>5, <1>6 DEF GatewayInv, FlightInv

LEMMA DemoteReadInv ==
    ASSUME GatewayInv, NEW c \in Client, demote_read(c)
    PROVE  GatewayInv'
  <1> DEFINE level == EffectiveTrust(r[c].call.agent)
             f == [[r[c] EXCEPT !.at = "demote_write"] EXCEPT !.level = level - 1]
  <1>1. /\ r \in [Client -> InFlight \cup {Idle}] /\ r[c] # Idle /\ r[c] \in InFlight
        /\ Local /\ r[c].at = "demote_read" /\ r[c].call.agent \in Agent
    BY DEF demote_read, Idle, GatewayInv, PipelineTypeOK, SnapshotFits
  <1>2. "demote_read" \in Cleared
    BY DEF Cleared
  <1>3. CASE Goto(c, Verdict(r[c].denied))
    <2>1. Verdict(r[c].denied) \in Stage \ {"use", "fetch", "evaluate", "anomaly", "demote_read"}
      BY DEF Verdict, Stage
    <2> QED BY <1>1, <1>2, <1>3, <2>1, StayInv
  <1>4. CASE level # 0 /\ r' = [r EXCEPT ![c].at = "demote_write", ![c].level = level - 1]
    <2>1. level - 1 \in TrustLevel
      BY <1>1, <1>4 DEF EffectiveTrust, GatewayInv, PipelineTypeOK, TrustLevel
    <2>2. r' = [r EXCEPT ![c] = f]
      BY <1>1, <1>4
    <2> HIDE DEF level
    <2>3. /\ f \in InFlight /\ f.at = "demote_write" /\ f.call = r[c].call
          /\ f.remaining = r[c].remaining
      BY <1>1, <2>1 DEF InFlight, Stage
    <2>4. UNCHANGED storeVars /\ UNCHANGED <<created, granted>> /\ UNCHANGED <<config, sink, blind, forwarded>>
      BY <1>1 DEF Local, storeVars, stateVars, auditVars
    <2> HIDE DEF f
    <2>5. FlightInv'
      BY <1>1, <1>2, <2>2, <2>3, <2>4, MoveInv
    <2> QED BY <1>1, <2>5, LocalInv
  <1> QED BY <1>3, <1>4 DEF demote_read

(* The registry takes the level read before, or refuses it.                *)
LEMMA DemoteWriteInv ==
    ASSUME GatewayInv, NEW c \in Client, NEW ok \in BOOLEAN, demote_write(c, ok)
    PROVE  GatewayInv'
  <1>1. /\ r \in [Client -> InFlight \cup {Idle}] /\ r[c] # Idle /\ r[c] \in InFlight
        /\ r[c].at = "demote_write"
    BY DEF demote_write, Idle, GatewayInv, PipelineTypeOK
  <1>2. /\ UNCHANGED storeVars /\ UNCHANGED <<created, granted>>
        /\ UNCHANGED <<config, sink, blind, forwarded>> /\ UNCHANGED <<policy, disk>>
    BY DEF demote_write, storeVars, auditVars
  <1>3. trust' \in [Agent -> TrustLevel \cup {Unknown}]
    <2>1. r[c].level \in TrustLevel /\ trust \in [Agent -> TrustLevel \cup {Unknown}]
      BY <1>1 DEF InFlight, GatewayInv, PipelineTypeOK
    <2> QED BY <2>1 DEF demote_write
  <1>4. FlightInv'
    <2>1. "demote_reset" \in Stage \ {"use"} /\ "demote_write" \in Cleared
      BY DEF Stage, Cleared
    <2>2. Goto(c, "demote_reset")
      BY DEF demote_write
    <2> QED BY <1>1, <1>2, <2>1, <2>2, GotoInv
  <1>5. Store!StoreInv'
    BY <1>2, StoreStep DEF GatewayInv
  <1>6. PipelineTypeOK'
    BY <1>2, <1>3, <1>4 DEF GatewayInv, PipelineTypeOK, FlightInv
  <1> QED BY <1>4, <1>5, <1>6 DEF GatewayInv, FlightInv

LEMMA DemoteResetInv ==
    ASSUME GatewayInv, NEW c \in Client, demote_reset(c)
    PROVE  GatewayInv'
  <1>1. r[c] # Idle /\ deny(c)
    BY DEF demote_reset, Idle
  <1>2. /\ UNCHANGED storeVars /\ UNCHANGED <<created, granted>>
        /\ UNCHANGED <<config, sink, blind, forwarded>> /\ UNCHANGED <<policy, trust, disk>>
    BY DEF demote_reset, storeVars, auditVars
  <1>3. FlightInv'
    <2>1. "audit" \in Stage \ {"use"} /\ "audit" \notin Cleared
      BY DEF Stage, Cleared
    <2> QED BY <1>1, <1>2, <2>1, GotoInv DEF deny
  <1>4. Store!StoreInv'
    BY <1>2, StoreStep DEF GatewayInv
  <1>5. PipelineTypeOK'
    BY <1>2, <1>3 DEF GatewayInv, PipelineTypeOK, FlightInv
  <1> QED BY <1>3, <1>4, <1>5 DEF GatewayInv, FlightInv

LEMMA InjectInv ==
    ASSUME GatewayInv, NEW c \in Client, NEW ok, inject_credentials(c, ok)
    PROVE  GatewayInv'
  <1>1. /\ r[c] # Idle /\ r[c].at = "inject" /\ Local
        /\ Goto(c, "forward") \/ deny(c)
    BY DEF inject_credentials, Idle, deny
  <1>2. "forward" \in Stage \ {"use"} /\ "inject" \in Cleared
    BY DEF Stage, Cleared
  <1> QED BY <1>1, <1>2, StayInv, DenyInv

(* What the upstream does, or does not do.                                 *)
LEMMA UpstreamInv ==
    ASSUME GatewayInv, NEW c \in Client,
           \/ upstream_timeout(c) \/ upstream_answers(c) \/ upstream_fails(c)
           \/ response_too_large(c) \/ response_collected(c) \/ turn_away(c)
    PROVE  GatewayInv'
  <1>1. r[c] # Idle /\ Local /\ (Goto(c, "response") \/ deny(c))
    BY DEF upstream_timeout, upstream_answers, upstream_fails, response_too_large,
           response_collected, turn_away, Idle, deny
  <1>2. "response" \in Stage \ {"use"} /\ "response" \notin Cleared
    BY DEF Stage, Cleared
  <1> QED BY <1>1, <1>2, StayInv, DenyInv

LEMMA ForwardedInv ==
    ASSUME GatewayInv, NEW c \in Client, forward(c)
    PROVE  GatewayInv'
  <1>1. FlightInv' /\ forwarded' \in [SessionId -> Nat]
    BY ForwardInv
  <1>2. UNCHANGED storeVars /\ UNCHANGED <<config, policy, trust, sink, disk, blind>>
    BY DEF forward, stateVars, auditVars
  <1>3. Store!StoreInv'
    BY <1>2, StoreStep DEF GatewayInv
  <1>4. PipelineTypeOK'
    BY <1>1, <1>2 DEF GatewayInv, PipelineTypeOK, FlightInv
  <1> QED BY <1>1, <1>3, <1>4 DEF GatewayInv, FlightInv

LEMMA AuditedInv ==
    ASSUME GatewayInv, NEW c \in Client, write_audit(c) \/ client_gone(c)
    PROVE  GatewayInv'
  <1>1. /\ FlightInv'
        /\ sink' \in [degraded: BOOLEAN, recovery_successes: 0..(RECOVERY_THRESHOLD - 1)]
        /\ blind' \in 0..(Cardinality(Client) + 1)
    <2>1. CASE write_audit(c)
      BY <2>1, AuditInv
    <2>2. CASE client_gone(c)
      BY <2>2, GoneInv DEF client_gone, GatewayInv, PipelineTypeOK
    <2> QED BY <2>1, <2>2
  <1>2. UNCHANGED storeVars /\ UNCHANGED <<config, policy, trust, disk, forwarded>>
    BY DEF write_audit, client_gone, stateVars
  <1>3. Store!StoreInv'
    BY <1>2, StoreStep DEF GatewayInv
  <1>4. PipelineTypeOK'
    BY <1>1, <1>2 DEF GatewayInv, PipelineTypeOK, FlightInv
  <1> QED BY <1>1, <1>3, <1>4 DEF GatewayInv, FlightInv

(* The policy watcher, the disk, the clock, the admin API.                 *)
LEMMA SurroundingsInv ==
    ASSUME GatewayInv,
           (\E p \in Policies : reload_policy(p)) \/ disk_fails \/ disk_returns \/ admin
    PROVE  GatewayInv'
  <1>1. StoreMove \/ UNCHANGED storeVars
    BY DEF reload_policy, disk_fails, disk_returns, admin, StoreMove
  <1>2. UNCHANGED <<r, forwarded, config, sink, blind>> /\ UNCHANGED trust
    BY DEF reload_policy, disk_fails, disk_returns, admin, stateVars, auditVars
  <1>3. policy' \in Policies /\ disk' \in BOOLEAN
    BY DEF reload_policy, disk_fails, disk_returns, admin, stateVars, auditVars,
           GatewayInv, PipelineTypeOK
  <1>4. FlightInv'
    BY <1>1, <1>2, AroundInv
  <1>5. Store!StoreInv'
    BY <1>1, StoreStep DEF GatewayInv
  <1>6. PipelineTypeOK'
    BY <1>2, <1>3 DEF GatewayInv, PipelineTypeOK
  <1> QED BY <1>4, <1>5, <1>6 DEF GatewayInv, FlightInv

-----------------------------------------------------------------------------
LEMMA InitGatewayInv == Init => GatewayInv
  <1> SUFFICES ASSUME Init PROVE GatewayInv
    OBVIOUS
  <1>1. Store!StoreInv
    <2>1. Store!Init => StoreProofs!Init
      BY DEF Store!Init, StoreProofs!Init
    <2>2. StoreProofs!Init => StoreProofs!StoreInv
      BY StoreConstants, StoreProofs!InitStoreInv
    <2> QED BY <2>1, <2>2, SameInv DEF Init
  <1>2. Cardinality(Client) \in Nat
    BY GatewayAssumption, FS_CardinalityType
  <1>3. PipelineTypeOK
    BY <1>2, GatewayAssumption DEF Init, PipelineTypeOK
  <1>4. ASSUME NEW s \in SessionId PROVE SentIsCharged(s)
    <2>1. Pending(s) = {}
      BY DEF Pending, Holders, Init
    <2>2. forwarded[s] = 0 /\ granted[s] = 0
      BY DEF Init, Store!Init
    <2> QED BY <2>1, <2>2, FS_EmptySet DEF SentIsCharged
  <1>5. ASSUME NEW c \in Client PROVE SnapshotFits(c)
    BY DEF SnapshotFits, Init
  <1>6. BlindWereInFlight
    BY DEF BlindWereInFlight, Init
  <1> QED BY <1>1, <1>3, <1>4, <1>5, <1>6 DEF GatewayInv

LEMMA NextGatewayInv == GatewayInv /\ [Next]_vars => GatewayInv'
  <1> SUFFICES ASSUME GatewayInv, [Next]_vars PROVE GatewayInv'
    OBVIOUS
  <1>1. ASSUME NEW c \in Client, NEW q \in Calls, receive(c, q) PROVE GatewayInv'
    BY <1>1, ReceiveInv, LocalInv DEF receive
  <1>2. ASSUME NEW c \in Client, Work(c) PROVE GatewayInv'
    BY <1>2, PeekInv, FetchInv, ValidateInv, PolicyInv, EvaluateInv, AnomalyInv,
       DemoteReadInv, DemoteResetInv, DemoteWriteInv, InjectInv, ForwardedInv, UpstreamInv,
       AuditedInv DEF Work
  <1>3. ASSUME NEW c \in Client,
               \/ parse(c) \/ turn_away(c) \/ upstream_answers(c) \/ upstream_fails(c)
               \/ response_too_large(c) \/ response_collected(c) \/ client_gone(c)
        PROVE  GatewayInv'
    BY <1>3, ParseInv, UpstreamInv, AuditedInv
  <1>4. CASE (\E p \in Policies : reload_policy(p)) \/ disk_fails \/ disk_returns \/ admin
    BY <1>4, SurroundingsInv
  <1>5. CASE UNCHANGED vars
    <2>1. Local /\ UNCHANGED r
      BY <1>5 DEF vars, Local
    <2>2. UNCHANGED storeVars /\ UNCHANGED <<r, forwarded, config, sink, blind>>
      BY <2>1 DEF Local, stateVars, auditVars
    <2>3. FlightInv'
      BY <2>2, AroundInv
    <2> QED BY <2>1, <2>3, LocalInv
  <1> QED BY <1>1, <1>2, <1>3, <1>4, <1>5 DEF Next

(* Everything the pipeline's promises rest on holds in every reachable     *)
(* state: the store's invariant, the types, and that what was sent or may  *)
(* still be sent has been charged, what a request remembers of its session *)
(* errs on one side, and the blind requests were in flight.                *)
THEOREM GatewayInvariant == Spec => []GatewayInv
  BY InitGatewayInv, NextGatewayInv, PTL DEF Spec

(* handle_request, for any clients, sessions and batches: the upstream     *)
(* never sees more calls of a session than the budget it was created with. *)
THEOREM UpstreamBudgetSafety == Spec => []UpstreamWithinBudget
  <1>1. GatewayInv => UpstreamWithinBudget
    <2> SUFFICES ASSUME GatewayInv, NEW s \in SessionId, created[s] # NoRequest
                 PROVE  forwarded[s] <= created[s].call_budget
      BY DEF UpstreamWithinBudget
    <2>1. /\ IsFiniteSet(Pending(s)) /\ forwarded[s] + Cardinality(Pending(s)) <= granted[s]
          /\ forwarded[s] \in Nat
      BY DEF GatewayInv, SentIsCharged, PipelineTypeOK
    <2>2. Cardinality(Pending(s)) \in Nat
      BY <2>1, FS_CardinalityType
    <2>3. /\ granted[s] \in Nat /\ created[s].call_budget \in Nat
          /\ granted[s] <= created[s].call_budget
      BY DEF GatewayInv, Store!StoreInv, Store!TypeOK, Store!CreateSessionRequest,
             Store!BudgetRespected
    <2> QED BY <2>1, <2>2, <2>3
  <1> QED BY <1>1, GatewayInvariant, PTL

(* Stage 7.5: however stale the snapshot a request computed it from, the   *)
(* calls-remaining header never understates what is left.                  *)
THEOREM RemainingSafety == Spec => []RemainingNeverUnderstated
  <1>1. GatewayInv => RemainingNeverUnderstated
    BY DEF GatewayInv, SnapshotFits, RemainingNeverUnderstated
  <1> QED BY <1>1, GatewayInvariant, PTL

(* Stage 0.5 with require_audit_healthy: a failing audit file hides at     *)
(* most one forwarded request per connection until the sink recovers.      *)
THEOREM BlindSpotSafety == Spec => []BlindSpotBounded
  <1>1. GatewayInv => BlindSpotBounded
    <2> SUFFICES ASSUME GatewayInv, config.require_audit_healthy
                 PROVE  blind <= Cardinality(Client)
      BY DEF BlindSpotBounded
    <2>1. Busy \in SUBSET Client
      BY DEF Busy
    <2>2. Cardinality(Busy) \in Nat /\ Cardinality(Client) \in Nat
      BY <2>1, GatewayAssumption, FS_Subset, FS_CardinalityType
    <2>3. blind \in Nat
      BY <2>2 DEF GatewayInv, PipelineTypeOK
    <2> QED BY <2>2, <2>3 DEF GatewayInv, BlindWereInFlight
  <1> QED BY <1>1, GatewayInvariant, PTL
=============================================================================
