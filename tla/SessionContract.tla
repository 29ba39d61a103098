-------------------------- MODULE SessionContract --------------------------
(***************************************************************************)
(* What a session store promises the gateway, with no mention of clocks,   *)
(* caches, windows or storage: a session is opened once, with a budget; it *)
(* grants tool calls only while it is open and never more than its budget; *)
(* once shut it stays shut.  SessionStore and StorageBackedSessionStore    *)
(* are both shown to implement this.                                       *)
(***************************************************************************)
EXTENDS Naturals

CONSTANT SessionId

VARIABLES
    phase,      \* phase[s]: "none" (never issued), "open" or "shut"
    budget,     \* budget[s]: calls the session was opened for
    spent       \* spent[s]: calls granted so far

contractVars == <<phase, budget, spent>>

ContractInit ==
    /\ phase = [s \in SessionId |-> "none"]
    /\ budget = [s \in SessionId |-> 0]
    /\ spent = [s \in SessionId |-> 0]

(* A session id is issued, once, for some number of calls.  It may be dead *)
(* on arrival (shut), which is as final as any other way to end.           *)
Issue(s) ==
    /\ phase[s] = "none"
    /\ \E p \in {"open", "shut"} : phase' = [phase EXCEPT ![s] = p]
    /\ budget'[s] \in Nat
    /\ budget' = [budget EXCEPT ![s] = budget'[s]]
    /\ UNCHANGED spent

Grant(s, n) ==
    /\ phase[s] = "open"
    /\ spent[s] + n <= budget[s]
    /\ spent' = [spent EXCEPT ![s] = @ + n]
    /\ UNCHANGED <<phase, budget>>

(* Any number of sessions end together: a clock tick, a deactivated agent  *)
(* and a cleanup pass may each end several.                                *)
Shut(S) ==
    /\ \A s \in S : phase[s] = "open"
    /\ phase' = [s \in SessionId |-> IF s \in S THEN "shut" ELSE phase[s]]
    /\ UNCHANGED <<budget, spent>>

ContractNext ==
    \/ \E s \in SessionId : Issue(s)
    \/ \E s \in SessionId : \E n \in 1..budget[s] : Grant(s, n)
    \/ \E S \in SUBSET SessionId : Shut(S)

ContractSpec == ContractInit /\ [][ContractNext]_contractVars
============================================================================
