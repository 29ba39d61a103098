------------------------- MODULE SessionStoreProofs -------------------------
(***************************************************************************)
(* For any agents, sessions, requests, batches and clock bound: the        *)
(* in-memory store keeps its inductive invariant StoreInv (so no session   *)
(* overspends) and implements SessionContract.  With a log of when calls   *)
(* were granted (SessionRate), bursts are bounded.                         *)
(***************************************************************************)
EXTENDS SessionRate, TaskSessionProofs, FiniteSetTheorems, WellFoundedInduction, TLAPS

-----------------------------------------------------------------------------
LEMMA InitStoreInv == Init => StoreInv
  BY SessionAssumption DEF Init, StoreInv, TypeOK, BudgetRespected, Faithful, Unissued

(* What the invariant says of one session, separated from the others.      *)
SessionInv(s) ==
    /\ created[s] # NoRequest => granted[s] <= created[s].call_budget
    /\ Faithful(s)
    /\ Unissued(s)

LEMMA InsertInv ==
    ASSUME StoreInv, NEW s \in SessionId, NEW req \in Requests, NEW limit \in Nat,
           Insert(s, req, limit)
    PROVE  StoreInv'
  <1>1. req \in CreateSessionRequest /\ req # NoRequest
    BY SessionAssumption
  <1>2. TypeOK'
    BY <1>1, NewSessionType DEF StoreInv, TypeOK, Insert
  <1>3. ASSUME NEW x \in SessionId PROVE SessionInv(x)'
    <2>1. CASE x = s
      <3>1. /\ sessions'[s] = NewSession(req, limit, now)
            /\ created'[s] = req
            /\ granted'[s] = 0
        BY DEF StoreInv, TypeOK, Insert, Unissued
      <3>2. req.call_budget \in Nat
        BY <1>1 DEF CreateSessionRequest
      <3> QED
        BY <1>1, <2>1, <3>1, <3>2, NewSessionType
           DEF SessionInv, Faithful, Unissued, StoreInv, TypeOK, Insert
    <2>2. CASE x # s
      BY <2>2 DEF StoreInv, TypeOK, Insert, SessionInv, Faithful, Unissued, BudgetRespected
    <2> QED BY <2>1, <2>2
  <1> QED
    BY <1>2, <1>3 DEF StoreInv, SessionInv, BudgetRespected

(* A use that grants n calls to a session with room for them.              *)
LEMMA GrantInv ==
    ASSUME StoreInv, NEW s \in SessionId, NEW n \in Nat,
           sessions[s] # NoSession,
           sessions[s].calls_made + n <= sessions[s].call_budget,
           sessions' = [sessions EXCEPT ![s] = Charged(@, n, now)],
           granted' = [granted EXCEPT ![s] = @ + n],
           UNCHANGED <<now, created>>
    PROVE  StoreInv'
  <1>1. sessions[s] \in TaskSessions /\ now \in Nat
    BY DEF StoreInv, TypeOK
  <1>2. TypeOK'
    <2>1. Charged(sessions[s], n, now) \in TaskSessions
      BY <1>1, ChargedType
    <2> QED BY <2>1 DEF StoreInv, TypeOK
  <1>3. ASSUME NEW x \in SessionId PROVE SessionInv(x)'
    <2>1. CASE x = s
      <3>1. /\ sessions'[s] = Charged(sessions[s], n, now)
            /\ granted'[s] = granted[s] + n
            /\ created'[s] = created[s]
            /\ now' = now
        BY DEF StoreInv, TypeOK
      <3>2. sessions'[s] # NoSession
        BY <1>1, <3>1, ChargedType, SessionAssumption
      <3> QED
        BY <1>1, <2>1, <3>1, <3>2, ChargedType
           DEF SessionInv, StoreInv, Faithful, Unissued
    <2>2. CASE x # s
      BY <2>2 DEF StoreInv, TypeOK, SessionInv, Faithful, Unissued, BudgetRespected
    <2> QED BY <2>1, <2>2
  <1> QED
    BY <1>2, <1>3 DEF StoreInv, SessionInv, BudgetRespected

(* Every other operation changes the status of some sessions, or removes   *)
(* them.                                                                   *)
LEMMA EndInv ==
    ASSUME StoreInv,
           UNCHANGED <<now, created, granted>>,
           sessions' \in [SessionId -> TaskSessions \cup {NoSession}],
           \A x \in SessionId :
              \/ sessions'[x] = sessions[x]
              \/ sessions'[x] = NoSession
              \/ /\ sessions[x] # NoSession
                 /\ \E st \in SessionStatus : sessions'[x] = [sessions[x] EXCEPT !.status = st]
    PROVE  StoreInv'
  <1>1. TypeOK'
    BY DEF StoreInv, TypeOK
  <1>2. ASSUME NEW x \in SessionId PROVE SessionInv(x)'
    <2>1. CASE sessions'[x] = sessions[x] \/ sessions'[x] = NoSession
      BY <2>1 DEF StoreInv, SessionInv, Faithful, Unissued, BudgetRespected
    <2>2. CASE /\ sessions[x] # NoSession
               /\ \E st \in SessionStatus : sessions'[x] = [sessions[x] EXCEPT !.status = st]
      <3>1. sessions[x] \in TaskSessions
        BY <2>2 DEF StoreInv, TypeOK
      <3> QED
        BY <2>2, <3>1, StatusType
           DEF StoreInv, SessionInv, Faithful, Unissued, BudgetRespected
    <2> QED BY <2>1, <2>2
  <1> QED
    BY <1>1, <1>2 DEF StoreInv, SessionInv, BudgetRespected

(* How each operation fits one of the three shapes above.                  *)
LEMMA NextStoreInv == StoreInv /\ [Next]_vars => StoreInv'
  <1> SUFFICES ASSUME StoreInv, [Next]_vars PROVE StoreInv'
    OBVIOUS
  <1>1. ASSUME NEW s \in SessionId, NEW req \in Requests,
               create(s, req) \/ create_if_under_cap(s, req)
        PROVE  StoreInv'
    <2>1. req.time_limit \in Nat
      BY SessionAssumption DEF CreateSessionRequest
    <2>2. CASE create(s, req)
      <3> DEFINE limit == IF req.time_limit < 1 THEN 1 ELSE req.time_limit
      <3>1. limit \in Nat /\ Insert(s, req, limit)
        BY <2>1, <2>2 DEF create
      <3> QED BY <3>1, InsertInv
    <2>3. CASE create_if_under_cap(s, req)
      BY <2>1, <2>3, InsertInv DEF create_if_under_cap
    <2> QED BY <1>1, <2>2, <2>3
  <1>2. ASSUME NEW s \in SessionId, NEW tool \in Tool, NEW caller \in Agent \cup {NoAgent},
               use_session(s, tool, caller)
        PROVE  StoreInv'
    <2>1. sessions[s] # NoSession /\ ~is_budget_exceeded(sessions[s])
      BY <1>2 DEF use_session, Accepts, Reachable
    <2>2. sessions[s].calls_made \in Nat /\ sessions[s].call_budget \in Nat
      BY <2>1 DEF StoreInv, TypeOK, TaskSessions
    <2>3. sessions[s].calls_made + 1 <= sessions[s].call_budget
      BY <2>1, <2>2 DEF is_budget_exceeded
    <2> QED BY <1>2, <2>1, <2>3, GrantInv DEF use_session
  <1>3. ASSUME NEW s \in SessionId, NEW tools \in Batches, NEW caller \in Agent \cup {NoAgent},
               use_session_batch(s, tools, caller)
        PROVE  StoreInv'
    <2>1. Len(tools) \in Nat
      BY SessionAssumption
    <2>2. /\ sessions[s] # NoSession
          /\ sessions[s].calls_made + Len(tools) <= sessions[s].call_budget
      BY <1>3 DEF use_session_batch, AcceptsBatch, Reachable
    <2> QED BY <1>3, <2>1, <2>2, GrantInv DEF use_session_batch
  <1>4. ASSUME NEW s \in SessionId, NEW caller \in Agent \cup {NoAgent},
               use_expired(s, caller)
        PROVE  StoreInv'
    <2>1. sessions[s] \in TaskSessions
      BY <1>4 DEF use_expired, Overdue, Reachable, StoreInv, TypeOK
    <2>2. [sessions[s] EXCEPT !.status = "Expired"] \in TaskSessions
      BY <2>1, StatusType DEF SessionStatus
    <2> QED
      BY <1>4, <2>1, <2>2, EndInv, SessionAssumption
         DEF use_expired, StoreInv, TypeOK, SessionStatus
  <1>5. ASSUME NEW s \in SessionId, close(s)
        PROVE  StoreInv'
    <2>1. sessions[s] \in TaskSessions
      BY <1>5 DEF close, StoreInv, TypeOK
    <2>2. [sessions[s] EXCEPT !.status = "Closed"] \in TaskSessions
      BY <2>1, StatusType DEF SessionStatus
    <2> QED
      BY <1>5, <2>1, <2>2, EndInv, SessionAssumption
         DEF close, StoreInv, TypeOK, SessionStatus
  <1>6. ASSUME NEW a \in Agent, close_sessions_for_agent(a)
        PROVE  StoreInv'
    <2>1. ASSUME NEW x \in ActiveOf(a)
          PROVE  /\ sessions[x] # NoSession
                 /\ [sessions[x] EXCEPT !.status = "Closed"] \in TaskSessions
      <3>1. sessions[x] # NoSession /\ sessions[x] \in TaskSessions
        BY <2>1 DEF ActiveOf, Live, StoreInv, TypeOK
      <3> QED BY <3>1, StatusType DEF SessionStatus
    <2>2. ASSUME NEW x \in SessionId
          PROVE  sessions'[x] = IF x \in ActiveOf(a)
                                THEN [sessions[x] EXCEPT !.status = "Closed"]
                                ELSE sessions[x]
      BY <1>6 DEF close_sessions_for_agent
    <2>3. sessions' \in [SessionId -> TaskSessions \cup {NoSession}]
      BY <1>6, <2>1 DEF close_sessions_for_agent, StoreInv, TypeOK
    <2> QED
      BY <1>6, <2>1, <2>2, <2>3, EndInv DEF close_sessions_for_agent, SessionStatus
  <1>7. CASE cleanup_expired
    BY <1>7, EndInv DEF cleanup_expired, StoreInv, TypeOK
  <1>8. CASE Tick
    BY <1>8 DEF Tick, StoreInv, TypeOK, BudgetRespected, Faithful, Unissued, TaskSessions
  <1>9. CASE UNCHANGED vars
    BY <1>9 DEF vars, StoreInv, TypeOK, BudgetRespected, Faithful, Unissued
  <1> QED
    BY <1>1, <1>2, <1>3, <1>4, <1>5, <1>6, <1>7, <1>8, <1>9 DEF Next

(* StoreInv is an invariant of every instance of the store; in particular  *)
(* a session's record always counts exactly the calls it granted.          *)
THEOREM StoreInvariant == Spec => []StoreInv
  BY InitStoreInv, NextStoreInv, PTL DEF Spec

(* No session is ever granted more calls than its budget.                  *)
THEOREM BudgetSafety == Spec => []BudgetRespected
  <1>1. StoreInv => BudgetRespected
    BY DEF StoreInv
  <1> QED BY <1>1, StoreInvariant, PTL

-----------------------------------------------------------------------------
(* The refinement.  Contract!ContractNext is about Phase, Budget and        *)
(* granted; each operation is an Issue, a Grant or a Shut of those.         *)

LEMMA InsertIssues ==
    ASSUME StoreInv, NEW s \in SessionId, NEW req \in Requests, NEW limit \in Nat,
           Insert(s, req, limit)
    PROVE  Contract!Issue(s)
  <1>1. req \in CreateSessionRequest /\ req # NoRequest /\ req.call_budget \in Nat
    BY SessionAssumption DEF CreateSessionRequest
  <1>2. ASSUME NEW x \in SessionId, x # s
        PROVE  Phase'[x] = Phase[x] /\ Budget'[x] = Budget[x]
    BY <1>2 DEF Insert, Phase, Budget, Usable, StoreInv, TypeOK
  <1>3. Phase[s] = "none" /\ Phase'[s] \in {"open", "shut"}
    BY <1>1 DEF Insert, Phase, StoreInv, TypeOK
  <1>4. Budget'[s] = req.call_budget
    BY <1>1 DEF Insert, Budget, StoreInv, TypeOK
  <1>5. Phase' = [Phase EXCEPT ![s] = Phase'[s]] /\ Budget' = [Budget EXCEPT ![s] = Budget'[s]]
    BY <1>2, ZenonT(30) DEF Phase, Budget
  <1> QED
    BY <1>1, <1>3, <1>4, <1>5 DEF Contract!Issue, Insert

LEMMA UseGrants ==
    ASSUME StoreInv, NEW s \in SessionId, NEW n \in Nat \ {0},
           sessions[s] # NoSession,
           sessions[s].status # "Closed",
           ~is_expired(sessions[s], now),
           sessions[s].calls_made + n <= sessions[s].call_budget,
           sessions' = [sessions EXCEPT ![s] = Charged(@, n, now)],
           granted' = [granted EXCEPT ![s] = @ + n],
           UNCHANGED <<now, created>>
    PROVE  \E m \in 1..Budget[s] : Contract!Grant(s, m)
  <1>1. sessions[s] \in TaskSessions /\ now \in Nat /\ granted[s] \in Nat /\ n \in Nat
    BY DEF StoreInv, TypeOK
  <1>2. Usable(s)
    BY <1>1 DEF Usable, is_expired, TaskSessions, SessionStatus
  <1>3. Usable(s)'
    <2>1. sessions'[s] = Charged(sessions[s], n, now) /\ now' = now
      BY DEF StoreInv, TypeOK
    <2>2. sessions'[s] # NoSession
      BY <1>1, <2>1, ChargedType, SessionAssumption
    <2>3. /\ sessions'[s].status = sessions[s].status
          /\ sessions'[s].created_at = sessions[s].created_at
          /\ sessions'[s].time_limit = sessions[s].time_limit
      <3> DEFINE ses == sessions[s]
      <3>1. ses \in TaskSessions
        BY <1>1
      <3> HIDE DEF ses
      <3>2. /\ Charged(ses, n, now).status = ses.status
            /\ Charged(ses, n, now).created_at = ses.created_at
            /\ Charged(ses, n, now).time_limit = ses.time_limit
        BY <1>1, <3>1, ChargedType
      <3> QED BY <2>1, <3>2 DEF ses
    <2> QED BY <1>2, <2>1, <2>2, <2>3 DEF Usable, is_expired
  <1>4. ASSUME NEW x \in SessionId PROVE Phase'[x] = Phase[x]
    <2>1. CASE x = s
      BY <1>2, <1>3, <2>1 DEF Phase
    <2>2. CASE x # s
      BY <2>2 DEF Phase, Usable, StoreInv, TypeOK
    <2> QED BY <2>1, <2>2
  <1>5. Phase' = Phase /\ Budget' = Budget
    BY <1>4 DEF Phase, Budget
  <1>6. /\ Phase[s] = "open"
        /\ Budget[s] = sessions[s].call_budget
        /\ granted[s] = sessions[s].calls_made
    BY <1>2 DEF Phase, Budget, StoreInv, Faithful
  <1>7. Contract!Grant(s, n)
    BY <1>5, <1>6 DEF Contract!Grant
  <1>8. n \in 1..Budget[s]
    BY <1>1, <1>6 DEF TaskSessions
  <1> QED BY <1>7, <1>8

LEMMA EndShuts ==
    ASSUME UNCHANGED <<created, granted>>,
           \A x \in SessionId : Usable(x)' => Usable(x)
    PROVE  \E S \in SUBSET SessionId : Contract!Shut(S)
  <1> DEFINE S == {x \in SessionId : Phase[x] = "open" /\ Phase'[x] = "shut"}
  <1>1. Budget' = Budget
    BY DEF Budget
  <1>2. ASSUME NEW x \in SessionId
        PROVE  Phase'[x] = IF x \in S THEN "shut" ELSE Phase[x]
    <2>1. Usable(x)' => Usable(x)
      OBVIOUS
    <2> QED BY <2>1 DEF Phase
  <1>3. Phase' = [x \in SessionId |-> IF x \in S THEN "shut" ELSE Phase[x]]
    BY <1>2 DEF Phase
  <1>4. Contract!Shut(S)
    BY <1>1, <1>3 DEF Contract!Shut
  <1> QED BY <1>4

(* Ending an operation: the records of usable sessions are the ones of     *)
(* before, up to their status.                                             *)
LEMMA NextContract == StoreInv /\ [Next]_vars => [Contract!ContractNext]_(Contract!contractVars)
  <1> SUFFICES ASSUME StoreInv, [Next]_vars
               PROVE  Contract!ContractNext \/ UNCHANGED <<Phase, Budget, granted>>
    BY DEF Contract!contractVars
  <1>1. ASSUME NEW s \in SessionId, NEW req \in Requests,
               create(s, req) \/ create_if_under_cap(s, req)
        PROVE  Contract!ContractNext
    <2>1. req.time_limit \in Nat
      BY SessionAssumption DEF CreateSessionRequest
    <2>2. \E limit \in Nat : Insert(s, req, limit)
      <3>1. CASE create(s, req)
        <4> DEFINE limit == IF req.time_limit < 1 THEN 1 ELSE req.time_limit
        <4>1. limit \in Nat /\ Insert(s, req, limit)
          BY <2>1, <3>1 DEF create
        <4> QED BY <4>1
      <3>2. CASE create_if_under_cap(s, req)
        BY <2>1, <3>2 DEF create_if_under_cap
      <3> QED BY <1>1, <3>1, <3>2
    <2> QED BY <2>2, InsertIssues DEF Contract!ContractNext
  <1>2. ASSUME NEW s \in SessionId, NEW tool \in Tool, NEW caller \in Agent \cup {NoAgent},
               use_session(s, tool, caller)
        PROVE  Contract!ContractNext
    <2>1. /\ sessions[s] # NoSession
          /\ sessions[s].status # "Closed"
          /\ ~is_expired(sessions[s], now)
          /\ ~is_budget_exceeded(sessions[s])
      BY <1>2 DEF use_session, Accepts, Reachable
    <2>2. sessions[s].calls_made \in Nat /\ sessions[s].call_budget \in Nat
      BY <2>1 DEF StoreInv, TypeOK, TaskSessions
    <2>3. sessions[s].calls_made + 1 <= sessions[s].call_budget
      BY <2>1, <2>2 DEF is_budget_exceeded
    <2>4. \E m \in 1..Budget[s] : Contract!Grant(s, m)
      <3>1. /\ 1 \in Nat \ {0}
            /\ sessions' = [sessions EXCEPT ![s] = Charged(@, 1, now)]
            /\ granted' = [granted EXCEPT ![s] = @ + 1]
            /\ UNCHANGED <<now, created>>
        BY <1>2 DEF use_session
      <3> QED BY <2>1, <2>3, <3>1, UseGrants
    <2> QED BY <2>4 DEF Contract!ContractNext
  <1>3. ASSUME NEW s \in SessionId, NEW tools \in Batches, NEW caller \in Agent \cup {NoAgent},
               use_session_batch(s, tools, caller)
        PROVE  Contract!ContractNext
    <2>1. Len(tools) \in Nat \ {0}
      BY SessionAssumption
    <2>2. /\ sessions[s] # NoSession
          /\ sessions[s].status # "Closed"
          /\ ~is_expired(sessions[s], now)
          /\ sessions[s].calls_made + Len(tools) <= sessions[s].call_budget
      BY <1>3 DEF use_session_batch, AcceptsBatch, Reachable
    <2>3. \E m \in 1..Budget[s] : Contract!Grant(s, m)
      BY <1>3, <2>1, <2>2, UseGrants DEF use_session_batch
    <2> QED BY <2>3 DEF Contract!ContractNext
  <1>4. ASSUME NEW s \in SessionId, NEW caller \in Agent \cup {NoAgent},
               use_expired(s, caller)
        PROVE  Contract!ContractNext
    <2>1. ASSUME NEW x \in SessionId PROVE Usable(x)' => Usable(x)
      <3>1. CASE x = s
        <4>1. sessions[s] \in TaskSessions
          BY <1>4 DEF use_expired, Overdue, Reachable, StoreInv, TypeOK
        <4>2. sessions'[s].status = "Expired"
          BY <1>4, <4>1, StatusType DEF use_expired, StoreInv, TypeOK, SessionStatus
        <4> QED BY <3>1, <4>2 DEF Usable
      <3>2. CASE x # s
        BY <1>4, <3>2 DEF use_expired, Usable, StoreInv, TypeOK
      <3> QED BY <3>1, <3>2
    <2> QED BY <1>4, <2>1, EndShuts DEF use_expired, Contract!ContractNext
  <1>5. ASSUME NEW s \in SessionId, close(s)
        PROVE  Contract!ContractNext
    <2>1. ASSUME NEW x \in SessionId PROVE Usable(x)' => Usable(x)
      <3>1. CASE x = s
        <4>1. sessions[s] \in TaskSessions
          BY <1>5 DEF close, StoreInv, TypeOK
        <4>2. sessions'[s].status = "Closed"
          BY <1>5, <4>1, StatusType DEF close, StoreInv, TypeOK, SessionStatus
        <4> QED BY <3>1, <4>2 DEF Usable
      <3>2. CASE x # s
        BY <1>5, <3>2 DEF close, Usable, StoreInv, TypeOK
      <3> QED BY <3>1, <3>2
    <2> QED BY <1>5, <2>1, EndShuts DEF close, Contract!ContractNext
  <1>6. ASSUME NEW a \in Agent, close_sessions_for_agent(a)
        PROVE  Contract!ContractNext
    <2>1. ASSUME NEW x \in SessionId PROVE Usable(x)' => Usable(x)
      <3>1. sessions'[x] = IF x \in ActiveOf(a)
                           THEN [sessions[x] EXCEPT !.status = "Closed"]
                           ELSE sessions[x]
        BY <1>6 DEF close_sessions_for_agent
      <3>2. CASE x \in ActiveOf(a)
        <4>1. sessions[x] \in TaskSessions
          BY <3>2 DEF ActiveOf, Live, StoreInv, TypeOK
        <4>2. sessions'[x].status = "Closed"
          BY <3>1, <3>2, <4>1, StatusType DEF SessionStatus
        <4> QED BY <4>2 DEF Usable
      <3>3. CASE x \notin ActiveOf(a)
        BY <1>6, <3>1, <3>3 DEF close_sessions_for_agent, Usable
      <3> QED BY <3>2, <3>3
    <2> QED BY <1>6, <2>1, EndShuts DEF close_sessions_for_agent, Contract!ContractNext
  <1>7. CASE cleanup_expired
    <2>1. ASSUME NEW x \in SessionId PROVE Usable(x)' => Usable(x)
      BY <1>7 DEF cleanup_expired, Usable
    <2> QED BY <1>7, <2>1, EndShuts DEF cleanup_expired, Contract!ContractNext
  <1>8. CASE Tick
    <2>1. ASSUME NEW x \in SessionId PROVE Usable(x)' => Usable(x)
      BY <1>8 DEF Tick, Usable, is_expired, StoreInv, TypeOK, TaskSessions
    <2> QED BY <1>8, <2>1, EndShuts DEF Tick, Contract!ContractNext
  <1>9. CASE UNCHANGED vars
    BY <1>9 DEF vars, Phase, Budget, Usable
  <1> QED
    BY <1>1, <1>2, <1>3, <1>4, <1>5, <1>6, <1>7, <1>8, <1>9 DEF Next

(* The in-memory store implements the session contract, for any number of  *)
(* sessions, agents and requests.                                          *)
THEOREM StoreImplementsContract == Spec => ImplementsContract
  <1>1. Init => Contract!ContractInit
    BY DEF Init, Contract!ContractInit, Phase, Budget
  <1> QED
    BY <1>1, StoreInvariant, NextContract, PTL DEF Spec, ImplementsContract, Contract!ContractSpec

-----------------------------------------------------------------------------
(* The rate limit: calls in a stretch of time.                             *)

(* Every non-empty set of naturals has a least element.                    *)
LEMMA Least ==
    ASSUME NEW T \in SUBSET Nat, T # {}
    PROVE  \E m \in T : \A k \in T : m <= k
  <1> DEFINE R == OpToRel(<, Nat)
  <1>1. IsWellFoundedOn(R, Nat)
    BY NatLessThanWellFounded
  <1> HIDE DEF R
  <1>2. PICK x \in T : \A y \in T : ~(<<y, x>> \in R)
    BY <1>1, WFMin
  <1>3. \A a, b \in Nat : <<a, b>> \in R <=> a < b
    BY DEF R, OpToRel
  <1>4. \A y \in T : ~(y < x)
    BY <1>2, <1>3
  <1>5. x \in Nat /\ \A y \in T : y \in Nat
    OBVIOUS
  <1>6. \A y \in T : x <= y
    BY <1>4, <1>5
  <1> QED BY <1>6

(* A request body is of bounded size, and so is the batch in it.           *)
BatchesBounded == \E n \in Nat : \A b \in Batches : Len(b) <= n

LEMMA LargestOf ==
    ASSUME BatchesBounded, NEW req \in CreateSessionRequest, req.rate_limit # NoLimit,
           NEW C, C = Max({req.rate_limit, 1} \cup {Len(b) : b \in Batches})
    PROVE  /\ C \in Nat /\ 1 <= C
           /\ req.rate_limit \in Nat /\ req.rate_limit <= C
           /\ req.rate_limit_window \in Nat
           /\ \A b \in Batches : Len(b) \in Nat /\ Len(b) <= C
  <1>2. /\ req.rate_limit \in Nat /\ req.rate_limit_window \in Nat
        /\ \A b \in Batches : Len(b) \in Nat
    <2>1. /\ req.rate_limit \in Nat \cup {NoLimit} /\ req.rate_limit # NoLimit
          /\ req.rate_limit_window \in Nat
      BY DEF CreateSessionRequest
    <2>2. \A b \in Batches : Len(b) \in Nat
      BY SessionAssumption
    <2> QED BY <2>1, <2>2
  <1>3. PICK n \in Nat : \A b \in Batches : Len(b) <= n
    BY DEF BatchesBounded
  <1>4. PICK r \in Nat : r = req.rate_limit
    BY <1>2
  <1>5. PICK T \in SUBSET Nat : T = {r, 1} \cup {Len(b) : b \in Batches}
    <2>1. {r, 1} \cup {Len(b) : b \in Batches} \subseteq Nat
      BY <1>2
    <2> QED BY <2>1
  <1>6. PICK top \in Nat : \A x \in T : x <= top
    <2>1. PICK top \in Nat : n <= top /\ r <= top /\ 1 <= top
      <3>1. n + r + 1 \in Nat /\ n <= n + r + 1 /\ r <= n + r + 1 /\ 1 <= n + r + 1
        OBVIOUS
      <3> QED BY <3>1
    <2>2. ASSUME NEW x \in T PROVE x <= top
      <3>1. CASE x \in {r, 1}
        BY <2>1, <3>1
      <3>2. CASE x \in {Len(b) : b \in Batches}
        <4>1. PICK b \in Batches : x = Len(b)
          BY <3>2
        <4>2. Len(b) \in Nat /\ Len(b) <= n /\ n <= top
          BY <1>2, <1>3, <2>1
        <4>3. Len(b) <= top
          BY <4>2
        <4> QED BY <4>1, <4>3
      <3> QED BY <1>5, <3>1, <3>2
    <2> QED BY <2>2
  <1>7. PICK U \in SUBSET Nat : U = {u \in Nat : \A x \in T : x <= u}
    OBVIOUS
  <1>8. PICK u \in U : \A v \in U : u <= v
    BY <1>6, <1>7, Least
  <1>9. u \in Nat /\ \A x \in T : x <= u
    BY <1>7, <1>8
  <1>10. u \in T
    <2> SUFFICES ASSUME u \notin T PROVE FALSE
      OBVIOUS
    <2>1. 1 \in T /\ 1 <= u
      BY <1>5, <1>9
    <2>2. u - 1 \in Nat
      BY <1>9, <2>1
    <2>3. ASSUME NEW x \in T PROVE x <= u - 1
      <3>1. x \in Nat /\ x <= u /\ x # u
        BY <1>9
      <3> QED BY <1>9, <3>1
    <2>4. u - 1 \in U
      BY <1>7, <2>2, <2>3
    <2> QED BY <1>8, <1>9, <2>4
  <1>11. Max(T) \in T /\ \A x \in T : Max(T) >= x
    <2>1. \A x \in T : u >= x
      <3> SUFFICES ASSUME NEW x \in T PROVE u >= x
        OBVIOUS
      <3>1. x \in Nat /\ u \in Nat /\ x <= u
        BY <1>9
      <3> QED BY <3>1
    <2> QED BY <1>10, <2>1 DEF Max
  <1>12. C = Max(T)
    BY <1>4, <1>5
  <1>13. C \in Nat
    BY <1>11, <1>12
  <1>14. ASSUME NEW x \in T PROVE x <= C
    <2>1. x \in Nat /\ C >= x
      BY <1>11, <1>12
    <2> QED BY <2>1
  <1>15. 1 \in T /\ r \in T /\ \A b \in Batches : Len(b) \in T
    BY <1>5
  <1> QED BY <1>2, <1>4, <1>13, <1>14, <1>15

LEMMA LargestIs ==
    ASSUME BatchesBounded, TypeOK, NEW s \in SessionId, Limited(s)
    PROVE  /\ LargestCharge(s) \in Nat /\ 1 <= LargestCharge(s)
           /\ created[s].rate_limit \in Nat /\ created[s].rate_limit <= LargestCharge(s)
           /\ created[s].rate_limit_window \in Nat
           /\ \A b \in Batches : Len(b) \in Nat /\ Len(b) <= LargestCharge(s)
  <1>1. created[s] \in CreateSessionRequest /\ created[s].rate_limit # NoLimit
    BY DEF Limited, TypeOK
  <1>2. LargestCharge(s) = Max({created[s].rate_limit, 1} \cup {Len(b) : b \in Batches})
    BY DEF LargestCharge
  <1> QED BY <1>1, <1>2, LargestOf

(* Times in order, up to t. *)
Ordered(a, t) ==
    /\ \A i \in 1..Len(a) : a[i] <= t
    /\ \A i, j \in 1..Len(a) : i <= j => a[i] <= a[j]

(* What WindowInLog says of a log a whose last m calls are in the window   *)
(* that began at start ...                                                 *)
InWindow(a, m, start, t, C, W) ==
    /\ Len(a) - m \in Nat
    /\ m <= C
    /\ start <= t
    /\ \A i \in 1..(Len(a) - m) :
          a[i] <= start /\ (i <= Len(a) - m - C => a[i] + W <= start)

(* ... and CallsSpaced. *)
Spread(a, C, W) == \A i, j \in 1..Len(a) : j = i + 2 * C => a[i] + W <= a[j]

(* b is a with k calls at t after it. *)
Extends(b, a, k, t) ==
    /\ b \in Seq(Nat) /\ Len(b) = Len(a) + k
    /\ \A i \in 1..Len(a) : b[i] = a[i]
    /\ \A i \in 1..Len(b) : i > Len(a) => b[i] = t

LEMMA LogExtends ==
    ASSUME NEW a \in Seq(Nat), NEW k \in Nat, NEW t \in Nat
    PROVE  Extends(a \o [i \in 1..k |-> t], a, k, t)
  BY DEF Extends

LEMMA OrderExtends ==
    ASSUME NEW a \in Seq(Nat), NEW k \in Nat, NEW t \in Nat,
           NEW b, Extends(b, a, k, t), Ordered(a, t)
    PROVE  Ordered(b, t)
  <1>1. PICK n \in Nat, n2 \in Nat : n = Len(a) /\ n2 = Len(b) /\ n2 = n + k
    BY DEF Extends
  <1>2. /\ \A i \in 1..n : b[i] = a[i]
        /\ \A i \in 1..n2 : i > n => b[i] = t
    BY <1>1 DEF Extends
  <1>3. ASSUME NEW i \in 1..n2 PROVE i \in 1..n \/ i > n
    OBVIOUS
  <1>4. ASSUME NEW i \in 1..n2 PROVE b[i] <= t
    <2>1. CASE i \in 1..n
      BY <1>1, <1>2, <2>1 DEF Ordered
    <2>2. CASE i > n
      BY <1>2, <2>2
    <2> QED BY <1>3, <2>1, <2>2
  <1>5. ASSUME NEW i \in 1..n2, NEW j \in 1..n2, i <= j PROVE b[i] <= b[j]
    <2>1. CASE j \in 1..n
      <3>1. i \in 1..n
        BY <1>5, <2>1
      <3>2. b[i] = a[i] /\ b[j] = a[j]
        BY <1>2, <2>1, <3>1
      <3> QED BY <1>1, <1>5, <2>1, <3>1, <3>2 DEF Ordered
    <2>2. CASE j > n
      BY <1>2, <1>4, <2>2
    <2> QED BY <1>3, <2>1, <2>2
  <1> QED BY <1>1, <1>4, <1>5 DEF Ordered

(* The current window takes k more of the calls it has room for, or k open *)
(* a new one at t.                                                         *)
Moves(m, start, m2, start2, k, t, C, W) ==
    \/ start2 = t /\ m2 = k /\ k <= C /\ t - start >= W
    \/ start2 = start /\ m2 = m + k /\ m2 <= C

LEMMA WindowExtends ==
    ASSUME NEW a \in Seq(Nat), NEW k \in Nat, NEW t \in Nat,
           NEW b, Extends(b, a, k, t), Ordered(a, t),
           NEW C \in Nat, NEW W \in Nat, NEW m \in Nat, NEW start \in Nat,
           InWindow(a, m, start, t, C, W), Spread(a, C, W),
           NEW m2 \in Nat, NEW start2 \in Nat, Moves(m, start, m2, start2, k, t, C, W)
    PROVE  InWindow(b, m2, start2, t, C, W) /\ Spread(b, C, W)
  <1>1. PICK n \in Nat, n2 \in Nat : n = Len(a) /\ n2 = Len(b) /\ n2 = n + k
    BY DEF Extends
  <1>2. /\ \A i \in 1..n : b[i] = a[i] /\ a[i] \in Nat /\ a[i] <= t
        /\ \A i \in 1..n2 : i > n => b[i] = t
    <2>1. \A i \in 1..n : a[i] \in Nat /\ a[i] <= t
      BY <1>1 DEF Ordered
    <2>2. /\ \A i \in 1..n : b[i] = a[i]
          /\ \A i \in 1..n2 : i > n => b[i] = t
      BY <1>1 DEF Extends
    <2> QED BY <2>1, <2>2
  <1>3. n - m \in Nat /\ m <= C /\ start <= t
    BY <1>1 DEF InWindow
  <1>4. PICK e \in Nat : e = n - m
    BY <1>3
  <1>5. e <= n
    BY <1>4
  <1>6. ASSUME NEW i \in 1..e PROVE a[i] <= start /\ (i <= e - C => a[i] + W <= start)
    BY <1>1, <1>4 DEF InWindow
  <1>7. ASSUME NEW i \in 1..n2 PROVE i \in 1..n \/ i > n
    OBVIOUS
  <1>8. PICK f \in Int : f = n2 - m2
    OBVIOUS
  <1>9. /\ f \in Nat /\ f <= n /\ m2 <= C /\ start2 <= t
        /\ \A i \in 1..f : i <= n /\ b[i] <= start2 /\ (i <= f - C => b[i] + W <= start2)
    <2>1. CASE start2 = t /\ m2 = k /\ k <= C /\ t - start >= W
      <3>1. f = n /\ e <= n /\ n - C <= e
        BY <1>1, <1>3, <1>4, <1>8, <2>1
      <3>2. ASSUME NEW i \in 1..f
            PROVE  b[i] <= start2 /\ (i <= f - C => b[i] + W <= start2)
        <4>1. PICK x \in Nat : x = a[i] /\ x = b[i] /\ x <= t
          BY <1>2, <3>1
        <4>2. ASSUME i <= f - C PROVE x + W <= t
          <5>1. i \in 1..e
            BY <3>1, <4>2
          <5>2. x <= start /\ t - start >= W
            BY <1>6, <2>1, <4>1, <5>1
          <5> QED BY <5>2
        <4> QED BY <2>1, <4>1, <4>2
      <3> QED BY <2>1, <3>1, <3>2
    <2>2. CASE start2 = start /\ m2 = m + k /\ m2 <= C
      <3>1. f = e /\ f <= n
        BY <1>1, <1>4, <1>5, <1>8, <2>2
      <3>2. ASSUME NEW i \in 1..f
            PROVE  b[i] <= start2 /\ (i <= f - C => b[i] + W <= start2)
        <4>1. i \in 1..n /\ i \in 1..e
          BY <3>1
        <4>2. b[i] = a[i]
          BY <1>2, <4>1
        <4> QED BY <1>6, <2>2, <3>1, <4>1, <4>2
      <3> QED BY <1>3, <2>2, <3>1, <3>2
    <2> QED BY <2>1, <2>2 DEF Moves
  <1>10. InWindow(b, m2, start2, t, C, W)
    BY <1>1, <1>8, <1>9 DEF InWindow
  <1>11. ASSUME NEW i \in 1..n2, NEW j \in 1..n2, j = i + 2 * C
         PROVE  b[i] + W <= b[j]
    <2>1. CASE j \in 1..n
      <3>1. i \in 1..n
        BY <1>11, <2>1
      <3>2. b[i] = a[i] /\ b[j] = a[j]
        BY <1>2, <2>1, <3>1
      <3> QED BY <1>1, <1>11, <2>1, <3>1, <3>2 DEF Spread
    <2>2. CASE j > n
      <3>0. f = n2 - m2 /\ m2 <= C
        BY <1>8, <1>9
      <3>1. i <= f - C
        BY <1>11, <3>0
      <3>2. i \in 1..f
        BY <1>9, <3>1
      <3>3. i \in 1..n
        BY <1>9, <3>2
      <3>4. PICK x \in Nat : x = b[i]
        BY <1>2, <3>3
      <3>5. x + W <= start2 /\ start2 <= t /\ b[j] = t
        BY <1>2, <1>9, <2>2, <3>1, <3>2, <3>4
      <3>6. x + W <= t
        BY <3>5
      <3> QED BY <3>4, <3>5, <3>6
    <2> QED BY <1>7, <2>1, <2>2
  <1> QED BY <1>1, <1>10, <1>11 DEF Spread

(* RateInv of one session, in these terms.                                 *)
RateInvOf(s) == Logged(s) /\ KeepsLimit(s) /\ WindowInLog(s) /\ CallsSpaced(s)

LEMMA LoggedIs ==
    ASSUME NEW s
    PROVE  Logged(s) <=> /\ log[s] \in Seq(Nat) /\ Len(log[s]) = granted[s]
                         /\ Ordered(log[s], now)
  <1>1. CASE log[s] \in Seq(Nat)
    <2>1. DOMAIN log[s] = 1..Len(log[s])
      BY <1>1
    <2> QED BY <1>1, <2>1 DEF Logged, Ordered
  <1>2. CASE log[s] \notin Seq(Nat)
    BY <1>2 DEF Logged
  <1> QED BY <1>1, <1>2

LEMMA SpacedIs ==
    ASSUME NEW s, log[s] \in Seq(Nat), Limited(s)
    PROVE  CallsSpaced(s) <=>
              Spread(log[s], LargestCharge(s), created[s].rate_limit_window)
  <1>1. DOMAIN log[s] = 1..Len(log[s])
    OBVIOUS
  <1> QED BY <1>1 DEF CallsSpaced, Spread

LEMMA WindowIs ==
    ASSUME NEW s, Limited(s), sessions[s] # NoSession, KeepsLimit(s)
    PROVE  WindowInLog(s) <=>
              InWindow(log[s], sessions[s].rate_window_calls, sessions[s].rate_window_start,
                       now, LargestCharge(s), created[s].rate_limit_window)
  BY DEF WindowInLog, Before, InWindow, KeepsLimit

(* Charging moves the window, or opens one.                                *)
LEMMA ChargeMoves ==
    ASSUME NEW ses \in TaskSessions, NEW k \in Nat, NEW t \in Nat, NEW C \in Nat,
           ses.rate_limit # NoLimit, k <= C,
           WindowElapsed(ses, t) \/ ses.rate_window_calls + k <= C,
           NEW new, new = Charged(ses, k, t)
    PROVE  /\ new \in TaskSessions
           /\ new.rate_limit = ses.rate_limit /\ new.rate_limit_window = ses.rate_limit_window
           /\ Moves(ses.rate_window_calls, ses.rate_window_start,
                    new.rate_window_calls, new.rate_window_start, k, t, C, ses.rate_limit_window)
  <1> DEFINE win == CountedInWindow(ses, k, t)
  <1>1. CASE WindowElapsed(ses, t)
    <2>1. t - ses.rate_window_start >= ses.rate_limit_window
      BY <1>1 DEF WindowElapsed
    <2> DEFINE mid == [ses EXCEPT !.rate_window_start = t]
    <2>2. win = [mid EXCEPT !.rate_window_calls = k]
      BY <1>1 DEF CountedInWindow
    <2>3. mid \in TaskSessions /\ mid.rate_window_start = t
          /\ mid.rate_limit = ses.rate_limit /\ mid.rate_limit_window = ses.rate_limit_window
      BY DEF TaskSessions
    <2> HIDE DEF mid
    <2>4. /\ win \in TaskSessions
          /\ win.rate_window_start = t /\ win.rate_window_calls = k
          /\ win.rate_limit = ses.rate_limit /\ win.rate_limit_window = ses.rate_limit_window
      BY <2>2, <2>3 DEF TaskSessions
    <2> HIDE DEF win
    <2>5. new = [win EXCEPT !.calls_made = win.calls_made + k]
      BY DEF win, Charged
    <2>6. /\ new \in TaskSessions
          /\ new.rate_window_start = t /\ new.rate_window_calls = k
          /\ new.rate_limit = ses.rate_limit /\ new.rate_limit_window = ses.rate_limit_window
      BY <2>4, <2>5 DEF TaskSessions
    <2> QED BY <2>1, <2>6 DEF Moves
  <1>2. CASE ~WindowElapsed(ses, t)
    <2>1. win = [ses EXCEPT !.rate_window_calls = ses.rate_window_calls + k]
      BY <1>2 DEF CountedInWindow
    <2>2. /\ win \in TaskSessions
          /\ win.rate_window_start = ses.rate_window_start
          /\ win.rate_window_calls = ses.rate_window_calls + k
          /\ win.rate_limit = ses.rate_limit /\ win.rate_limit_window = ses.rate_limit_window
      BY <2>1 DEF TaskSessions
    <2> HIDE DEF win
    <2>3. new = [win EXCEPT !.calls_made = win.calls_made + k]
      BY DEF win, Charged
    <2>4. /\ new \in TaskSessions
          /\ new.rate_window_start = ses.rate_window_start
          /\ new.rate_window_calls = ses.rate_window_calls + k
          /\ new.rate_limit = ses.rate_limit /\ new.rate_limit_window = ses.rate_limit_window
      BY <2>2, <2>3 DEF TaskSessions
    <2>5. ses.rate_window_calls + k <= C
      BY <1>2
    <2> QED BY <2>4, <2>5 DEF Moves
  <1> QED BY <1>1, <1>2

LEMMA ChargeUnlimited ==
    ASSUME NEW ses \in TaskSessions, NEW k \in Nat, NEW t \in Nat, ses.rate_limit = NoLimit,
           NEW new, new = Charged(ses, k, t)
    PROVE  /\ new.rate_limit = ses.rate_limit
           /\ new.rate_limit_window = ses.rate_limit_window
  <1>1. new = [ses EXCEPT !.calls_made = ses.calls_made + k]
    BY DEF Charged, CountedInWindow
  <1> QED BY <1>1 DEF TaskSessions

LEMMA SameLimits ==
    ASSUME NEW s, created'[s] = created[s]
    PROVE  /\ Limited(s)' <=> Limited(s)
           /\ LargestCharge(s)' = LargestCharge(s)
  BY DEF Limited, LargestCharge

(* A session that grants k calls.                                          *)
LEMMA RateGrants ==
    ASSUME BatchesBounded, RateInv, NEW s \in SessionId, NEW k \in Nat,
           sessions[s] # NoSession,
           Limited(s) => /\ k <= LargestCharge(s)
                         /\ \/ WindowElapsed(sessions[s], now)
                            \/ sessions[s].rate_window_calls + k <= LargestCharge(s),
           sessions'[s] = Charged(sessions[s], k, now), created'[s] = created[s],
           granted'[s] = granted[s] + k, now' = now,
           log'[s] = log[s] \o [i \in 1..k |-> now]
    PROVE  RateInvOf(s)'
  <1>1. /\ sessions[s] \in TaskSessions /\ now \in Nat /\ granted[s] \in Nat
        /\ TypeOK /\ RateInvOf(s) /\ created[s] # NoRequest
    BY DEF RateInv, StoreInv, TypeOK, RateInvOf, Faithful
  <1>2. log[s] \in Seq(Nat) /\ Len(log[s]) = granted[s] /\ Ordered(log[s], now)
    BY <1>1, LoggedIs DEF RateInvOf
  <1>3. PICK a \in Seq(Nat) : a = log[s]
    BY <1>2
  <1>4. PICK t \in Nat : t = now
    BY <1>1
  <1>5. PICK b : b = log'[s]
    OBVIOUS
  <1>6. Extends(b, a, k, t)
    BY <1>3, <1>4, <1>5, LogExtends
  <1>7. b \in Seq(Nat) /\ Len(b) = Len(a) + k /\ Ordered(b, t)
    BY <1>2, <1>3, <1>4, <1>6, OrderExtends DEF Extends
  <1>8. Logged(s)'
    <2>1. /\ log'[s] \in Seq(Nat) /\ Len(log'[s]) = granted'[s]
          /\ Ordered(log'[s], now')
      BY <1>2, <1>3, <1>4, <1>5, <1>7
    <2>2. DOMAIN log'[s] = 1..Len(log'[s])
      BY <2>1
    <2> QED BY <2>1, <2>2 DEF Logged, Ordered
  <1>9. PICK ses \in TaskSessions : ses = sessions[s]
    BY <1>1
  <1>10. PICK new : new = Charged(ses, k, t) /\ new = sessions'[s]
    BY <1>4, <1>9
  <1>11. /\ ses.rate_limit = created[s].rate_limit
         /\ ses.rate_limit_window = created[s].rate_limit_window
    BY <1>1, <1>9 DEF RateInvOf, KeepsLimit
  <1>12. CASE ~Limited(s)
    <2>1. ses.rate_limit = NoLimit
      BY <1>1, <1>11, <1>12 DEF Limited
    <2>2. new.rate_limit = ses.rate_limit /\ new.rate_limit_window = ses.rate_limit_window
      <3>1. new = Charged(ses, k, t)
        BY <1>10
      <3> QED BY <2>1, <3>1, ChargeUnlimited
    <2>3. KeepsLimit(s)'
      BY <1>10, <1>11, <2>2 DEF KeepsLimit
    <2>4. WindowInLog(s)' /\ CallsSpaced(s)'
      BY <1>12, SameLimits DEF WindowInLog, CallsSpaced
    <2> QED BY <1>8, <2>3, <2>4 DEF RateInvOf
  <1>13. CASE Limited(s)
    <2>1. PICK C \in Nat, W \in Nat : C = LargestCharge(s) /\ W = created[s].rate_limit_window
      BY <1>1, <1>13, LargestIs
    <2>2. /\ ses.rate_limit # NoLimit /\ ses.rate_limit_window = W /\ k <= C
          /\ WindowElapsed(ses, t) \/ ses.rate_window_calls + k <= C
      BY <1>4, <1>9, <1>11, <1>13, <2>1 DEF Limited
    <2>3. /\ new \in TaskSessions
          /\ new.rate_limit = ses.rate_limit /\ new.rate_limit_window = ses.rate_limit_window
          /\ Moves(ses.rate_window_calls, ses.rate_window_start,
                   new.rate_window_calls, new.rate_window_start, k, t, C, ses.rate_limit_window)
      BY <1>10, <2>2, ChargeMoves
    <2>4. KeepsLimit(s)'
      BY <1>10, <1>11, <2>3 DEF KeepsLimit
    <2>5. InWindow(a, ses.rate_window_calls, ses.rate_window_start, t, C, W) /\ Spread(a, C, W)
      BY <1>1, <1>3, <1>4, <1>9, <1>13, <2>1, WindowIs, SpacedIs DEF RateInvOf
    <2>6. /\ ses.rate_window_calls \in Nat /\ ses.rate_window_start \in Nat
          /\ new.rate_window_calls \in Nat /\ new.rate_window_start \in Nat
      BY <2>3 DEF TaskSessions
    <2>7. /\ InWindow(b, new.rate_window_calls, new.rate_window_start, t, C, W)
          /\ Spread(b, C, W)
      BY <1>2, <1>3, <1>4, <1>6, <2>2, <2>3, <2>5, <2>6, WindowExtends
    <2>8. Limited(s)' /\ LargestCharge(s)' = C /\ created'[s].rate_limit_window = W
      BY <1>13, <2>1, SameLimits
    <2>9. WindowInLog(s)'
      BY <1>4, <1>5, <1>10, <1>11, <2>1, <2>3, <2>7, <2>8 DEF WindowInLog, Before, InWindow
    <2>10. CallsSpaced(s)'
      <3>1. DOMAIN b = 1..Len(b)
        BY <1>7
      <3> QED BY <1>5, <2>7, <2>8, <3>1 DEF CallsSpaced, Spread
    <2> QED BY <1>8, <2>4, <2>9, <2>10 DEF RateInvOf
  <1> QED BY <1>12, <1>13

(* A session that grants nothing: its record is gone, or has its window    *)
(* and limits as before.                                                   *)
LEMMA RateStands ==
    ASSUME RateInv, NEW s \in SessionId,
           created'[s] = created[s], granted'[s] = granted[s], log'[s] = log[s],
           now' \in Nat, now <= now',
           \/ sessions'[s] = NoSession
           \/ /\ sessions[s] # NoSession
              /\ sessions'[s].rate_limit = sessions[s].rate_limit
              /\ sessions'[s].rate_limit_window = sessions[s].rate_limit_window
              /\ sessions'[s].rate_window_start = sessions[s].rate_window_start
              /\ sessions'[s].rate_window_calls = sessions[s].rate_window_calls
    PROVE  RateInvOf(s)'
  <1>1. RateInvOf(s) /\ now \in Nat /\ sessions[s] \in TaskSessions \cup {NoSession}
    BY DEF RateInv, RateInvOf, StoreInv, TypeOK
  <1>2. Logged(s)'
    <2>1. PICK a \in Seq(Nat) : a = log[s] /\ a = log'[s]
      BY <1>1 DEF RateInvOf, Logged
    <2>2. \A i \in DOMAIN a : a[i] \in Nat /\ a[i] <= now
      BY <1>1, <2>1 DEF RateInvOf, Logged
    <2>3. ASSUME NEW i \in DOMAIN a PROVE a[i] <= now'
      <3>1. PICK x \in Nat, t \in Nat, u \in Nat :
                x = a[i] /\ t = now /\ u = now' /\ x <= t /\ t <= u
        BY <1>1, <2>2
      <3>2. x <= u
        BY <3>1
      <3> QED BY <3>1, <3>2
    <2> QED BY <1>1, <2>1, <2>3 DEF RateInvOf, Logged
  <1>3. CallsSpaced(s)'
    BY <1>1, SameLimits DEF RateInvOf, CallsSpaced
  <1>4. CASE sessions'[s] = NoSession
    BY <1>2, <1>3, <1>4 DEF RateInvOf, KeepsLimit, WindowInLog
  <1>5. CASE /\ sessions[s] # NoSession
             /\ sessions'[s].rate_limit = sessions[s].rate_limit
             /\ sessions'[s].rate_limit_window = sessions[s].rate_limit_window
             /\ sessions'[s].rate_window_start = sessions[s].rate_window_start
             /\ sessions'[s].rate_window_calls = sessions[s].rate_window_calls
    <2>1. KeepsLimit(s)'
      BY <1>1, <1>5 DEF RateInvOf, KeepsLimit
    <2>2. WindowInLog(s)'
      <3> SUFFICES ASSUME Limited(s) PROVE WindowInLog(s)'
        BY SameLimits DEF WindowInLog
      <3>1. PICK start \in Nat : start = sessions[s].rate_window_start
        BY <1>1, <1>5 DEF TaskSessions
      <3>2. start <= now
        BY <1>1, <1>5, <3>1 DEF RateInvOf, WindowInLog
      <3>3. start <= now'
        BY <1>1, <3>2
      <3>4. Before(s)' = Before(s)
        BY <1>5 DEF Before
      <3> QED BY <1>1, <1>5, <3>1, <3>3, <3>4, SameLimits DEF RateInvOf, WindowInLog
    <2> QED BY <1>2, <1>3, <2>1, <2>2 DEF RateInvOf
  <1> QED BY <1>4, <1>5

(* A session that is created.                                              *)
LEMMA RateCreates ==
    ASSUME BatchesBounded, RateInv, NEW s \in SessionId, NEW req \in Requests, NEW limit \in Nat,
           created[s] = NoRequest, created'[s] = req, TypeOK',
           sessions'[s] = NewSession(req, limit, now), now' = now,
           granted'[s] = granted[s], log'[s] = log[s]
    PROVE  RateInvOf(s)'
  <1>1. now \in Nat /\ granted[s] = 0 /\ Logged(s)
    BY DEF RateInv, StoreInv, TypeOK, Unissued
  <1>2. Logged(s)'
    BY <1>1 DEF Logged
  <1>3. log'[s] \in Seq(Nat) /\ Len(log'[s]) = 0 /\ DOMAIN log'[s] = {}
    <2>1. log'[s] \in Seq(Nat) /\ Len(log'[s]) = 0
      BY <1>1 DEF Logged
    <2> QED BY <2>1
  <1>4. /\ sessions'[s].rate_limit = req.rate_limit
        /\ sessions'[s].rate_limit_window = req.rate_limit_window
        /\ sessions'[s].rate_window_start = now /\ sessions'[s].rate_window_calls = 0
    BY DEF NewSession
  <1>5. Before(s)' = 0
    BY <1>3, <1>4 DEF Before
  <1>6. KeepsLimit(s)'
    BY <1>4 DEF KeepsLimit
  <1>7. WindowInLog(s)'
    <2> SUFFICES ASSUME Limited(s)'
                 PROVE  0 <= LargestCharge(s)'
      BY <1>1, <1>4, <1>5 DEF WindowInLog
    <2>1. req \in CreateSessionRequest /\ req.rate_limit # NoLimit
      BY SessionAssumption DEF Limited
    <2>2. LargestCharge(s)' = Max({req.rate_limit, 1} \cup {Len(b) : b \in Batches})
      BY DEF LargestCharge
    <2>3. LargestCharge(s)' \in Nat
      BY <2>1, <2>2, LargestOf
    <2> QED BY <2>3
  <1>8. CallsSpaced(s)'
    BY <1>3 DEF CallsSpaced
  <1> QED BY <1>2, <1>6, <1>7, <1>8 DEF RateInvOf

(* Each step is one of the three for every session.                        *)
LEMMA RateStep ==
    ASSUME BatchesBounded, RateInv, RateNext
    PROVE  RateInv'
  <1>0. /\ StoreInv /\ TypeOK /\ now \in Nat
        /\ sessions \in [SessionId -> TaskSessions \cup {NoSession}]
        /\ created \in [SessionId -> CreateSessionRequest \cup {NoRequest}]
        /\ granted \in [SessionId -> Nat]
        /\ Next
    BY DEF RateInv, StoreInv, TypeOK, RateNext
  <1>1. StoreInv' /\ TypeOK'
    <2>1. StoreInv'
      BY <1>0, NextStoreInv
    <2> QED BY <2>1 DEF StoreInv
  <1>2. ASSUME NEW s \in SessionId
        PROVE  /\ log'[s] = log[s] \o [i \in 1..(granted'[s] - granted[s]) |-> now]
               /\ granted'[s] = granted[s] => log'[s] = log[s]
    <2>1. log'[s] = log[s] \o [i \in 1..(granted'[s] - granted[s]) |-> now]
      BY DEF RateNext
    <2>2. ASSUME granted'[s] = granted[s] PROVE log'[s] = log[s]
      <3>1. PICK a \in Seq(Nat) : a = log[s]
        BY DEF RateInv, Logged
      <3>2. granted'[s] - granted[s] = 0
        BY <1>0, <2>2
      <3>3. a \o [i \in 1..0 |-> now] = a
        OBVIOUS
      <3> QED BY <2>1, <3>1, <3>2, <3>3
    <2> QED BY <2>1, <2>2
  <1>3. ASSUME NEW s \in SessionId, created'[s] = created[s], granted'[s] = granted[s],
               now' \in Nat, now <= now',
               \/ sessions'[s] = sessions[s]
               \/ sessions'[s] = NoSession
               \/ /\ sessions[s] # NoSession
                  /\ \E st \in SessionStatus : sessions'[s] = [sessions[s] EXCEPT !.status = st]
        PROVE  RateInvOf(s)'
    <2>1. log'[s] = log[s]
      BY <1>2, <1>3
    <2>2. CASE sessions'[s] = NoSession
      BY <1>3, <2>1, <2>2, RateStands
    <2>3. CASE sessions'[s] = sessions[s] /\ sessions[s] # NoSession
      BY <1>3, <2>1, <2>3, RateStands
    <2>4. CASE /\ sessions[s] # NoSession
               /\ \E st \in SessionStatus : sessions'[s] = [sessions[s] EXCEPT !.status = st]
      <3>1. PICK st \in SessionStatus : sessions'[s] = [sessions[s] EXCEPT !.status = st]
        BY <2>4
      <3>2. sessions[s] \in TaskSessions
        BY <1>0, <2>4
      <3>3. /\ sessions'[s].rate_limit = sessions[s].rate_limit
            /\ sessions'[s].rate_limit_window = sessions[s].rate_limit_window
            /\ sessions'[s].rate_window_start = sessions[s].rate_window_start
            /\ sessions'[s].rate_window_calls = sessions[s].rate_window_calls
        BY <3>1, <3>2 DEF TaskSessions
      <3> QED BY <1>3, <2>1, <2>4, <3>3, RateStands
    <2> QED BY <1>3, <2>2, <2>3, <2>4
  <1>4. ASSUME NEW s \in SessionId, NEW req \in Requests, NEW limit \in Nat, Insert(s, req, limit),
               NEW x \in SessionId
        PROVE  RateInvOf(x)'
    <2>1. granted'[x] = granted[x] /\ now' = now
      BY <1>4 DEF Insert
    <2>2. CASE x = s
      <3>1. /\ created[s] = NoRequest /\ created'[s] = req
            /\ sessions'[s] = NewSession(req, limit, now)
        BY <1>0, <1>4 DEF Insert
      <3> QED BY <1>1, <1>2, <2>1, <2>2, <3>1, RateCreates
    <2>3. CASE x # s
      <3>1. created'[x] = created[x] /\ sessions'[x] = sessions[x]
        BY <1>0, <1>4, <2>3 DEF Insert
      <3> QED BY <1>0, <1>3, <2>1, <3>1
    <2> QED BY <2>2, <2>3
  <1>5. ASSUME NEW s \in SessionId, NEW k \in Nat, sessions[s] # NoSession,
               Limited(s) => /\ k <= LargestCharge(s)
                             /\ \/ WindowElapsed(sessions[s], now)
                                \/ sessions[s].rate_window_calls + k <= LargestCharge(s),
               sessions' = [sessions EXCEPT ![s] = Charged(@, k, now)],
               granted' = [granted EXCEPT ![s] = @ + k], UNCHANGED <<now, created>>,
               NEW x \in SessionId
        PROVE  RateInvOf(x)'
    <2>1. CASE x = s
      <3>1. sessions'[s] = Charged(sessions[s], k, now) /\ granted'[s] = granted[s] + k
        BY <1>0, <1>5
      <3>2. granted'[s] - granted[s] = k
        BY <1>0, <3>1
      <3>3. log'[s] = log[s] \o [i \in 1..k |-> now]
        BY <1>2, <3>2
      <3> QED BY <1>5, <2>1, <3>1, <3>3, RateGrants
    <2>2. CASE x # s
      <3>1. granted'[x] = granted[x] /\ sessions'[x] = sessions[x]
        BY <1>0, <1>5, <2>2
      <3> QED BY <1>0, <1>3, <1>5, <3>1
    <2> QED BY <2>1, <2>2
  <1>6. ASSUME NEW s \in SessionId, sessions[s] # NoSession, Limited(s)
        PROVE  /\ sessions[s].rate_limit # NoLimit
               /\ sessions[s].rate_limit \in Nat /\ sessions[s].rate_window_calls \in Nat
               /\ LargestCharge(s) \in Nat /\ 1 <= LargestCharge(s)
               /\ sessions[s].rate_limit <= LargestCharge(s)
               /\ \A b \in Batches : Len(b) \in Nat /\ Len(b) <= LargestCharge(s)
    <2>1. sessions[s].rate_limit = created[s].rate_limit
      BY <1>6 DEF RateInv, KeepsLimit
    <2>2. sessions[s].rate_window_calls \in Nat
      BY <1>0, <1>6 DEF TaskSessions
    <2> QED BY <1>0, <1>6, <2>1, <2>2, LargestIs DEF Limited
  <1>7. ASSUME NEW x \in SessionId PROVE RateInvOf(x)'
    <2>1. ASSUME NEW s \in SessionId, NEW req \in Requests,
                 create(s, req) \/ create_if_under_cap(s, req)
          PROVE  RateInvOf(x)'
      <3>1. req.time_limit \in Nat
        BY SessionAssumption DEF CreateSessionRequest
      <3>2. \E limit \in Nat : Insert(s, req, limit)
        <4>1. CASE create(s, req)
          <5> DEFINE limit == IF req.time_limit < 1 THEN 1 ELSE req.time_limit
          <5>1. limit \in Nat /\ Insert(s, req, limit)
            BY <3>1, <4>1 DEF create
          <5> QED BY <5>1
        <4>2. CASE create_if_under_cap(s, req)
          BY <3>1, <4>2 DEF create_if_under_cap
        <4> QED BY <2>1, <4>1, <4>2
      <3> QED BY <1>4, <3>2
    <2>2. ASSUME NEW s \in SessionId, NEW tool \in Tool, NEW caller \in Agent \cup {NoAgent},
                 use_session(s, tool, caller)
          PROVE  RateInvOf(x)'
      <3>1. sessions[s] # NoSession /\ ~RateLimited(sessions[s], now)
        BY <2>2 DEF use_session, Accepts, Reachable
      <3>2. Limited(s) => /\ 1 <= LargestCharge(s)
                          /\ \/ WindowElapsed(sessions[s], now)
                             \/ sessions[s].rate_window_calls + 1 <= LargestCharge(s)
        <4> SUFFICES ASSUME Limited(s), ~WindowElapsed(sessions[s], now)
                     PROVE  sessions[s].rate_window_calls + 1 <= LargestCharge(s)
          BY <1>6, <3>1
        <4>1. ~(sessions[s].rate_window_calls >= sessions[s].rate_limit)
          BY <1>6, <3>1 DEF RateLimited
        <4>2. PICK m \in Nat, l \in Nat, C \in Nat :
                  /\ m = sessions[s].rate_window_calls /\ l = sessions[s].rate_limit
                  /\ C = LargestCharge(s) /\ l <= C
          BY <1>6, <3>1
        <4> QED BY <4>1, <4>2
      <3>3. /\ sessions' = [sessions EXCEPT ![s] = Charged(@, 1, now)]
            /\ granted' = [granted EXCEPT ![s] = @ + 1] /\ UNCHANGED <<now, created>>
        BY <2>2 DEF use_session
      <3> QED BY <1>5, <3>1, <3>2, <3>3
    <2>3. ASSUME NEW s \in SessionId, NEW tools \in Batches, NEW caller \in Agent \cup {NoAgent},
                 use_session_batch(s, tools, caller)
          PROVE  RateInvOf(x)'
      <3>0. PICK k \in Nat : k = Len(tools)
        BY SessionAssumption
      <3>1. sessions[s] # NoSession /\ ~BatchRateLimited(sessions[s], k, now)
        BY <2>3, <3>0 DEF use_session_batch, AcceptsBatch, Reachable
      <3>2. Limited(s) => /\ k <= LargestCharge(s)
                          /\ \/ WindowElapsed(sessions[s], now)
                             \/ sessions[s].rate_window_calls + k <= LargestCharge(s)
        <4> SUFFICES ASSUME Limited(s)
                     PROVE  /\ k <= LargestCharge(s)
                            /\ \/ WindowElapsed(sessions[s], now)
                               \/ sessions[s].rate_window_calls + k <= LargestCharge(s)
          OBVIOUS
        <4>0. k <= LargestCharge(s)
          BY <1>6, <3>0, <3>1
        <4>1. ASSUME ~WindowElapsed(sessions[s], now)
              PROVE  sessions[s].rate_window_calls + k <= LargestCharge(s)
          <5>1. ~(sessions[s].rate_window_calls + k > sessions[s].rate_limit)
            BY <1>6, <3>1, <4>1 DEF BatchRateLimited
          <5>2. PICK m \in Nat, l \in Nat, C \in Nat :
                  /\ m = sessions[s].rate_window_calls /\ l = sessions[s].rate_limit
                  /\ C = LargestCharge(s) /\ l <= C
            BY <1>6, <3>1
          <5> QED BY <5>1, <5>2
        <4> QED BY <4>0, <4>1
      <3>3. /\ sessions' = [sessions EXCEPT ![s] = Charged(@, k, now)]
            /\ granted' = [granted EXCEPT ![s] = @ + k] /\ UNCHANGED <<now, created>>
        BY <2>3, <3>0 DEF use_session_batch
      <3> QED BY <1>5, <3>1, <3>2, <3>3
    <2>4. ASSUME NEW s \in SessionId, NEW caller \in Agent \cup {NoAgent}, use_expired(s, caller)
          PROVE  RateInvOf(x)'
      <3>1. sessions[s] # NoSession /\ sessions' = [sessions EXCEPT ![s].status = "Expired"]
        BY <2>4 DEF use_expired, Overdue, Reachable
      <3>2. \/ sessions'[x] = sessions[x]
            \/ /\ sessions[x] # NoSession
               /\ \E st \in SessionStatus : sessions'[x] = [sessions[x] EXCEPT !.status = st]
        BY <1>0, <3>1 DEF SessionStatus
      <3>3. created' = created /\ granted' = granted /\ now' = now
        BY <2>4 DEF use_expired
      <3> QED BY <1>0, <1>3, <3>2, <3>3
    <2>5. ASSUME NEW s \in SessionId, close(s) PROVE RateInvOf(x)'
      <3>1. sessions[s] # NoSession /\ sessions' = [sessions EXCEPT ![s].status = "Closed"]
        BY <2>5 DEF close
      <3>2. \/ sessions'[x] = sessions[x]
            \/ /\ sessions[x] # NoSession
               /\ \E st \in SessionStatus : sessions'[x] = [sessions[x] EXCEPT !.status = st]
        BY <1>0, <3>1 DEF SessionStatus
      <3>3. created' = created /\ granted' = granted /\ now' = now
        BY <2>5 DEF close
      <3> QED BY <1>0, <1>3, <3>2, <3>3
    <2>6. ASSUME NEW a \in Agent, close_sessions_for_agent(a) PROVE RateInvOf(x)'
      <3>1. \/ sessions'[x] = sessions[x]
            \/ /\ sessions[x] # NoSession
               /\ \E st \in SessionStatus : sessions'[x] = [sessions[x] EXCEPT !.status = st]
        BY <2>6 DEF close_sessions_for_agent, ActiveOf, Live, SessionStatus
      <3>2. created' = created /\ granted' = granted /\ now' = now
        BY <2>6 DEF close_sessions_for_agent
      <3> QED BY <1>0, <1>3, <3>1, <3>2
    <2>7. CASE cleanup_expired
      <3>1. sessions'[x] = sessions[x] \/ sessions'[x] = NoSession
        BY <2>7 DEF cleanup_expired
      <3>2. created' = created /\ granted' = granted /\ now' = now
        BY <2>7 DEF cleanup_expired
      <3> QED BY <1>0, <1>3, <3>1, <3>2
    <2>8. CASE Tick
      <3>1. sessions' = sessions /\ created' = created /\ granted' = granted /\ now' = now + 1
        BY <2>8 DEF Tick
      <3>2. now' \in Nat /\ now <= now'
        BY <1>0, <3>1
      <3> QED BY <1>3, <3>1, <3>2
    <2> QED BY <1>0, <2>1, <2>2, <2>3, <2>4, <2>5, <2>6, <2>7, <2>8 DEF Next
  <1> QED BY <1>1, <1>7 DEF RateInv, RateInvOf

(* store.rs, use_session and use_session_batch: however single calls and   *)
(* batches mix, and whatever is closed or cleaned up in between, a session *)
(* limited to some rate grants in no stretch as long as its window more    *)
(* than two of the largest charges a window can take.                      *)
THEOREM BurstSafety ==
    ASSUME BatchesBounded
    PROVE  RateSpec => []BurstBounded
  <1>1. RateInit => RateInv
    <2> SUFFICES ASSUME RateInit PROVE RateInv
      OBVIOUS
    <2>1. StoreInv
      BY InitStoreInv DEF RateInit
    <2>2. ASSUME NEW s \in SessionId PROVE RateInvOf(s)
      <3>1. log[s] = <<>> /\ granted[s] = 0 /\ created[s] = NoRequest /\ sessions[s] = NoSession
        BY DEF RateInit, Init
      <3>2. <<>> \in Seq(Nat) /\ Len(<<>>) = 0 /\ DOMAIN <<>> = {}
        OBVIOUS
      <3> QED BY <3>1, <3>2 DEF RateInvOf, Logged, KeepsLimit, WindowInLog, CallsSpaced, Limited
    <2> QED BY <2>1, <2>2 DEF RateInv, RateInvOf
  <1>2. RateInv /\ [RateNext]_rateVars => RateInv'
    <2> SUFFICES ASSUME RateInv, UNCHANGED rateVars PROVE RateInv'
      BY RateStep
    <2>1. log' = log /\ now' = now /\ sessions' = sessions /\ created' = created
          /\ granted' = granted /\ UNCHANGED vars
      BY DEF rateVars, vars
    <2>2. StoreInv' /\ now \in Nat
      BY <2>1, NextStoreInv DEF RateInv, StoreInv, TypeOK
    <2>3. ASSUME NEW s \in SessionId PROVE RateInvOf(s)'
      <3>1. now' \in Nat /\ now <= now'
        BY <2>1, <2>2
      <3>2. sessions'[s] = NoSession \/ sessions[s] # NoSession
        BY <2>1
      <3> QED BY <2>1, <3>1, <3>2, RateStands
    <2> QED BY <2>2, <2>3 DEF RateInv, RateInvOf
  <1>3. RateInv => BurstBounded
    <2> SUFFICES ASSUME RateInv, NEW s \in SessionId, Limited(s), NEW from \in 0..MaxNow
                 PROVE  GrantedDuring(s, from, created[s].rate_limit_window) <= 2 * LargestCharge(s)
      BY DEF BurstBounded
    <2>1. TypeOK /\ Logged(s) /\ CallsSpaced(s)
      BY DEF RateInv, StoreInv
    <2>2. PICK C \in Nat, W \in Nat :
              C = LargestCharge(s) /\ W = created[s].rate_limit_window /\ 1 <= C
      BY <2>1, LargestIs
    <2>3. from \in Nat
      BY SessionAssumption
    <2>4. PICK a \in Seq(Nat) : a = log[s]
      BY <2>1 DEF Logged
    <2>5. PICK n \in Nat : n = Len(a) /\ DOMAIN a = 1..n
      OBVIOUS
    <2>6. /\ \A i \in 1..n : a[i] \in Nat
          /\ \A i, j \in 1..n : i <= j => a[i] <= a[j]
      <3>1. \A i \in 1..n : a[i] \in Nat
        BY <2>5
      <3>2. \A i, j \in 1..n : i <= j => a[i] <= a[j]
        BY <2>1, <2>4, <2>5 DEF Logged
      <3> QED BY <3>1, <3>2
    <2>7. \A i, j \in 1..n : j = i + 2 * C => a[i] + W <= a[j]
      BY <2>1, <2>2, <2>4, <2>5 DEF CallsSpaced
    <2>8. PICK S \in SUBSET (1..n) : S = {i \in 1..n : a[i] \in from..(from + W - 1)}
      OBVIOUS
    <2>9. GrantedDuring(s, from, created[s].rate_limit_window) = Cardinality(S)
      BY <2>2, <2>4, <2>5, <2>8 DEF GrantedDuring
    <2>10. CASE S = {}
      <3>1. Cardinality(S) = 0
        BY <2>10, FS_EmptySet
      <3>2. 0 <= 2 * C
        OBVIOUS
      <3> QED BY <2>2, <2>9, <3>1, <3>2
    <2>11. CASE S # {}
      <3>1. S \in SUBSET Nat
        <4>1. 1..n \subseteq Nat
          OBVIOUS
        <4> QED BY <4>1
      <3>2. PICK i \in S : \A j \in S : i <= j
        BY <2>11, <3>1, Least
      <3>3. PICK x \in Nat : i \in 1..n /\ x = a[i] /\ from <= x
        BY <2>3, <2>6, <2>8
      <3>4. ASSUME NEW j \in S PROVE j \in i..(i + 2 * C - 1)
        <4>1. PICK z \in Nat : j \in 1..n /\ z = a[j] /\ z <= from + W - 1
          BY <2>3, <2>6, <2>8
        <4>2. ASSUME j >= i + 2 * C PROVE FALSE
          <5>1. PICK l \in 1..n : l = i + 2 * C /\ l <= j
            BY <3>3, <4>1, <4>2
          <5>2. PICK y \in Nat : y = a[l]
            BY <2>6
          <5>3. x + W <= y /\ y <= z
            BY <2>6, <2>7, <3>3, <4>1, <5>1, <5>2
          <5>4. from \in Nat /\ from <= x /\ z <= from + W - 1
            BY <2>3, <3>3, <4>1
          <5> QED BY <5>3, <5>4
        <4>3. i \in Nat /\ j \in Nat /\ i <= j
          BY <3>1, <3>2
        <4> QED BY <4>2, <4>3
      <3>5. i \in Nat
        BY <3>1
      <3>6. PICK last \in Int : last = i + 2 * C - 1
        BY <3>5
      <3>7. IsFiniteSet(i..last) /\ Cardinality(i..last) = 2 * C
        <4>1. IsFiniteSet(i..last) /\ Cardinality(i..last) = IF i > last THEN 0 ELSE last - i + 1
          BY <3>5, FS_Interval
        <4>2. ~(i > last) /\ last - i + 1 = 2 * C
          BY <2>2, <3>5, <3>6
        <4> QED BY <4>1, <4>2
      <3>8. S \subseteq i..last
        BY <3>4, <3>6
      <3>9. Cardinality(S) <= Cardinality(i..last)
        BY <3>7, <3>8, FS_Subset
      <3> QED BY <2>2, <2>9, <3>7, <3>9
    <2> QED BY <2>10, <2>11
  <1> QED BY <1>1, <1>2, <1>3, PTL DEF RateSpec
=============================================================================
