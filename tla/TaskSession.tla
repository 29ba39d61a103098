---------------------------- MODULE TaskSession ----------------------------
(***************************************************************************)
(* The task-session record of crates/arbiter-session/src/model.rs and the  *)
(* checks every session store makes on it.  All of them are pure: a store  *)
(* reads the clock, asks these questions of one record while it holds its  *)
(* lock, and replaces the record.                                          *)
(*                                                                         *)
(* Abstracted: a tool or credential name is a model value; the authorized  *)
(* lists are sets, because the code only ever asks for membership and for  *)
(* emptiness; intent, delegation snapshot and sensitivity ceiling are      *)
(* carried unread by the stores and left out.  One tick is one second.     *)
(***************************************************************************)
EXTENDS Integers, Sequences, FiniteSets

CONSTANTS
    Agent,          \* agent ids
    NoAgent,        \* Option::None where an agent id is optional
    Tool,           \* tool (or method) names
    Credential,     \* credential references
    NoSession,      \* "no such entry" in a session map
    SessionId,      \* v4 UUIDs: drawn fresh, never twice
    Requests,       \* the requests callers make
    NoRequest,      \* "this id has not been issued"
    Batches,        \* the tool-name lists callers send (never empty)
    MaxSessions,    \* max_concurrent_sessions_per_agent
    MaxNow          \* bound: the clock stops here

(* Option::None of rate_limit_per_minute. *)
NoLimit == -1

SessionStatus == {"Active", "Closed", "Expired"}

(* What a caller asks for when it creates a session. *)
CreateSessionRequest ==
    [agent_id: Agent, authorized_tools: SUBSET Tool,
     authorized_credentials: SUBSET Credential,
     time_limit: Nat, call_budget: Nat,
     rate_limit: Nat \cup {NoLimit}, rate_limit_window: Nat]

TaskSessions ==
    [agent_id: Agent, authorized_tools: SUBSET Tool,
     authorized_credentials: SUBSET Credential,
     time_limit: Nat, call_budget: Nat, calls_made: Nat,
     rate_limit: Nat \cup {NoLimit}, rate_limit_window: Nat,
     rate_window_start: Nat, rate_window_calls: Nat,
     created_at: Nat, status: SessionStatus]

ASSUME SessionAssumption ==
    /\ NoSession \notin TaskSessions
    /\ NoAgent \notin Agent
    /\ Requests \subseteq CreateSessionRequest
    /\ NoRequest \notin CreateSessionRequest
    /\ Batches \subseteq Seq(Tool)
    /\ \A b \in Batches : Len(b) > 0
    /\ MaxSessions \in Nat
    /\ MaxNow \in Nat

(* The record a store builds for a request; timeLimit is the limit it      *)
(* settled on, which one of the two stores clamps.                         *)
NewSession(req, timeLimit, now) ==
    [agent_id |-> req.agent_id, authorized_tools |-> req.authorized_tools,
     authorized_credentials |-> req.authorized_credentials,
     time_limit |-> timeLimit, call_budget |-> req.call_budget, calls_made |-> 0,
     rate_limit |-> req.rate_limit, rate_limit_window |-> req.rate_limit_window,
     rate_window_start |-> now, rate_window_calls |-> 0,
     created_at |-> now, status |-> "Active"]

is_expired(s, now) ==
    \/ now - s.created_at > s.time_limit
    \/ s.status = "Expired"

is_budget_exceeded(s) == s.calls_made >= s.call_budget

(* An empty list authorizes every tool. *)
is_tool_authorized(s, tool) ==
    s.authorized_tools = {} \/ tool \in s.authorized_tools

(* An empty list authorizes every credential. *)
is_credential_authorized(s, ref) ==
    s.authorized_credentials = {} \/ ref \in s.authorized_credentials

(* The fixed window a session counts calls in has run out. *)
WindowElapsed(s, now) == now - s.rate_window_start >= s.rate_limit_window

(* check_rate_limit's verdict on one more call ... *)
RateLimited(s, now) ==
    /\ s.rate_limit # NoLimit
    /\ ~WindowElapsed(s, now)
    /\ s.rate_window_calls >= s.rate_limit

(* ... and use_session_batch's on n more: a window that has run out is not *)
(* compared with the limit at all.                                         *)
BatchRateLimited(s, n, now) ==
    /\ s.rate_limit # NoLimit
    /\ ~WindowElapsed(s, now)
    /\ s.rate_window_calls + n > s.rate_limit

(* Faulty variant: the count restarts but the window's start is left.      *)
CountedWithoutRestart(s, n, now) ==
    IF s.rate_limit = NoLimit THEN s
    ELSE [s EXCEPT !.rate_window_calls = IF WindowElapsed(s, now) THEN n ELSE @ + n]

(* n calls are let through: they count in the current window, or open a    *)
(* new one ...                                                             *)
CountedInWindow(s, n, now) ==
    IF s.rate_limit = NoLimit THEN s
    ELSE IF WindowElapsed(s, now)
         THEN [s EXCEPT !.rate_window_start = now, !.rate_window_calls = n]
         ELSE [s EXCEPT !.rate_window_calls = @ + n]

(* Faulty variant: a batch is charged as one call. *)
ChargedOnce(s, n, now) == [CountedInWindow(s, n, now) EXCEPT !.calls_made = @ + 1]

(* ... and against the budget. *)
Charged(s, n, now) == [CountedInWindow(s, n, now) EXCEPT !.calls_made = @ + n]

(* Faulty variant: a closed session still answers. *)
ReachableThoughClosed(s, caller) ==
    /\ s # NoSession
    /\ caller \in {NoAgent, s.agent_id}

(* The session exists, belongs to the caller (NoAgent: the caller is not   *)
(* identified and the binding is not checked) and has not been closed.     *)
Reachable(s, caller) ==
    /\ s # NoSession
    /\ caller \in {NoAgent, s.agent_id}
    /\ s.status # "Closed"

(* Faulty variant: the deadline is left to the cleanup task. *)
AcceptsOverdue(s, tool, caller, now) ==
    /\ Reachable(s, caller)
    /\ s.status # "Expired"
    /\ ~is_budget_exceeded(s)
    /\ is_tool_authorized(s, tool)
    /\ ~RateLimited(s, now)

(* use_session lets one call through: every early return is a conjunct.    *)
Accepts(s, tool, caller, now) ==
    /\ Reachable(s, caller)
    /\ ~is_expired(s, now)
    /\ ~is_budget_exceeded(s)
    /\ is_tool_authorized(s, tool)
    /\ ~RateLimited(s, now)

(* Faulty variant: the batch is compared with the budget as one call.      *)
AcceptsBatchAsOne(s, tools, caller, now) ==
    /\ Reachable(s, caller)
    /\ ~is_expired(s, now)
    /\ ~is_budget_exceeded(s)
    /\ \A i \in DOMAIN tools : is_tool_authorized(s, tools[i])
    /\ ~BatchRateLimited(s, Len(tools), now)

(* use_session_batch lets the whole batch through.                         *)
AcceptsBatch(s, tools, caller, now) ==
    /\ Reachable(s, caller)
    /\ ~is_expired(s, now)
    /\ s.calls_made + Len(tools) <= s.call_budget
    /\ \A i \in DOMAIN tools : is_tool_authorized(s, tools[i])
    /\ ~BatchRateLimited(s, Len(tools), now)

(* Either call finds the session past its time: it records the fact and    *)
(* refuses.                                                                *)
Overdue(s, caller, now) == Reachable(s, caller) /\ is_expired(s, now)
============================================================================
