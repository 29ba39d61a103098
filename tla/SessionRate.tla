---------------------------- MODULE SessionRate ----------------------------
(***************************************************************************)
(* SessionStore with a log of when each call was granted, to ask of the    *)
(* rate limit what a reader of the configuration would: how many calls get *)
(* through in a stretch of time?  The log is a history variable; it never  *)
(* constrains a step.                                                      *)
(***************************************************************************)
EXTENDS SessionStore, FiniteSetsExt

VARIABLE log            \* log[s][i]: when the i-th call on s was granted

rateVars == <<vars, log>>

RateInit == Init /\ log = [s \in SessionId |-> <<>>]

(* Each newly granted call enters the log at the time it was granted. *)
RateNext ==
    /\ Next
    /\ log' = [s \in SessionId |->
                 log[s] \o [i \in 1..(granted'[s] - granted[s]) |-> now]]

RateSpec == RateInit /\ [][RateNext]_rateVars

(* Calls granted on s at from, from + 1, ..., from + width - 1. *)
GrantedDuring(s, from, width) ==
    Cardinality({i \in DOMAIN log[s] : log[s][i] \in from..(from + width - 1)})

Limited(s) == created[s] # NoRequest /\ created[s].rate_limit # NoLimit

(* The most one answer can put into a window: an elapsed window takes a    *)
(* whole batch without comparing it with the limit.                        *)
LargestCharge(s) ==
    Max({created[s].rate_limit, 1} \cup {Len(b) : b \in Batches})

(* A limited session cannot be drained in a burst: in no stretch as long   *)
(* as its window does it grant more than two windows' worth of calls,      *)
(* whatever mix of single calls and batches arrives at the window's edge.  *)
BurstBounded ==
    \A s \in SessionId : Limited(s) =>
        \A from \in 0..MaxNow :
            GrantedDuring(s, from, created[s].rate_limit_window) <= 2 * LargestCharge(s)

----------------------------------------------------------------------------
(* Why it holds. *)

(* The log has every granted call, in the order of time. *)
Logged(s) ==
    /\ log[s] \in Seq(Nat) /\ Len(log[s]) = granted[s]
    /\ \A i \in DOMAIN log[s] : log[s][i] <= now
    /\ \A i, j \in DOMAIN log[s] : i <= j => log[s][i] <= log[s][j]

(* The record has the limit and the window that were asked for. *)
KeepsLimit(s) ==
    sessions[s] # NoSession =>
        /\ sessions[s].rate_limit = created[s].rate_limit
        /\ sessions[s].rate_limit_window = created[s].rate_limit_window

(* The calls before those of the current window. *)
Before(s) == Len(log[s]) - sessions[s].rate_window_calls

(* No window has more than the largest charge; what was granted before the *)
(* current one was granted by its start, and all but the last largest      *)
(* charge of that a whole window earlier.                                  *)
WindowInLog(s) ==
    Limited(s) /\ sessions[s] # NoSession =>
        /\ Before(s) \in Nat
        /\ sessions[s].rate_window_calls <= LargestCharge(s)
        /\ sessions[s].rate_window_start <= now
        /\ \A i \in 1..Before(s) :
              /\ log[s][i] <= sessions[s].rate_window_start
              /\ i <= Before(s) - LargestCharge(s) =>
                    log[s][i] + sessions[s].rate_limit_window <= sessions[s].rate_window_start

(* Calls two largest charges apart are a window apart. *)
CallsSpaced(s) ==
    Limited(s) =>
        \A i, j \in DOMAIN log[s] :
            j = i + 2 * LargestCharge(s) =>
                log[s][i] + created[s].rate_limit_window <= log[s][j]

RateInv ==
    /\ StoreInv
    /\ \A s \in SessionId : Logged(s) /\ KeepsLimit(s) /\ WindowInLog(s) /\ CallsSpaced(s)
============================================================================
