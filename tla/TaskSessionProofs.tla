------------------------- MODULE TaskSessionProofs --------------------------
(* What the session-record operators preserve; shared by the proofs about  *)
(* both session stores.                                                    *)
EXTENDS TaskSession, TLAPS

(* Charging a session for n calls gives a session that differs in its      *)
(* counters only.                                                          *)
LEMMA ChargedType ==
    ASSUME NEW ses \in TaskSessions, NEW n \in Nat, NEW t \in Nat
    PROVE  /\ Charged(ses, n, t) \in TaskSessions
           /\ Charged(ses, n, t).calls_made = ses.calls_made + n
           /\ Charged(ses, n, t).agent_id = ses.agent_id
           /\ Charged(ses, n, t).authorized_tools = ses.authorized_tools
           /\ Charged(ses, n, t).authorized_credentials = ses.authorized_credentials
           /\ Charged(ses, n, t).call_budget = ses.call_budget
           /\ Charged(ses, n, t).created_at = ses.created_at
           /\ Charged(ses, n, t).time_limit = ses.time_limit
           /\ Charged(ses, n, t).status = ses.status
  <1> DEFINE win == CountedInWindow(ses, n, t)
  <1>1. /\ win \in TaskSessions
        /\ win.calls_made = ses.calls_made
        /\ win.agent_id = ses.agent_id
        /\ win.authorized_tools = ses.authorized_tools
        /\ win.authorized_credentials = ses.authorized_credentials
        /\ win.call_budget = ses.call_budget
        /\ win.created_at = ses.created_at
        /\ win.time_limit = ses.time_limit
        /\ win.status = ses.status
    <2>1. CASE ses.rate_limit = NoLimit
      BY <2>1 DEF CountedInWindow
    <2>2. CASE ses.rate_limit # NoLimit /\ WindowElapsed(ses, t)
      <3> DEFINE mid == [ses EXCEPT !.rate_window_start = t]
      <3>1. win = [mid EXCEPT !.rate_window_calls = n]
        BY <2>2 DEF CountedInWindow
      <3> QED BY <3>1 DEF TaskSessions
    <2>3. CASE ses.rate_limit # NoLimit /\ ~WindowElapsed(ses, t)
      <3>1. win = [ses EXCEPT !.rate_window_calls = ses.rate_window_calls + n]
        BY <2>3 DEF CountedInWindow
      <3> QED BY <3>1 DEF TaskSessions
    <2> QED BY <2>1, <2>2, <2>3
  <1> HIDE DEF win
  <1>2. Charged(ses, n, t) = [win EXCEPT !.calls_made = win.calls_made + n]
    BY DEF Charged, win
  <1> QED BY <1>1, <1>2 DEF TaskSessions

(* A new record is a session whose scope is the request's.                 *)
LEMMA NewSessionType ==
    ASSUME NEW req \in CreateSessionRequest, NEW limit \in Nat, NEW t \in Nat
    PROVE  /\ NewSession(req, limit, t) \in TaskSessions
           /\ NewSession(req, limit, t).calls_made = 0
           /\ NewSession(req, limit, t).agent_id = req.agent_id
           /\ NewSession(req, limit, t).authorized_tools = req.authorized_tools
           /\ NewSession(req, limit, t).authorized_credentials = req.authorized_credentials
           /\ NewSession(req, limit, t).call_budget = req.call_budget
           /\ NewSession(req, limit, t).created_at = t
           /\ NewSession(req, limit, t).status = "Active"
  BY DEF NewSession, TaskSessions, CreateSessionRequest, SessionStatus

(* Changing the status of a session changes nothing else.                  *)
LEMMA StatusType ==
    ASSUME NEW ses \in TaskSessions, NEW st \in SessionStatus
    PROVE  LET new == [ses EXCEPT !.status = st] IN
           /\ new \in TaskSessions
           /\ new.status = st
           /\ new.calls_made = ses.calls_made
           /\ new.agent_id = ses.agent_id
           /\ new.authorized_tools = ses.authorized_tools
           /\ new.authorized_credentials = ses.authorized_credentials
           /\ new.call_budget = ses.call_budget
           /\ new.created_at = ses.created_at
           /\ new.time_limit = ses.time_limit
  BY DEF TaskSessions, SessionStatus

=============================================================================
