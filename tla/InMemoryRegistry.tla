-------------------------- MODULE InMemoryRegistry --------------------------
(***************************************************************************)
(* The agent registry of crates/arbiter-identity/src/registry.rs: a map of *)
(* agents and a list of delegation links behind two separate locks.        *)
(*                                                                         *)
(* register_agent is one step.  create_delegation releases its locks       *)
(* between checking the agents, looking for a cycle and appending the      *)
(* link; cascade_deactivate takes the locks anew for every agent it        *)
(* visits.  Each stretch under a lock is one action of the request that    *)
(* runs it.  A request whose client hangs up is dropped at one of the      *)
(* awaits between them: what it has done stays, the rest is never done.    *)
(*                                                                         *)
(* Abstracted: the model name, the expiry of links (only verify_chain      *)
(* looks at it) and the trust level, which no operation here reads:        *)
(* update_trust_level is left to the gateway's model.                      *)
(***************************************************************************)
EXTENDS Integers, Sequences, FiniteSets

CONSTANTS
    AgentId,            \* v4 UUIDs
    Owner,              \* human principals
    Scope,              \* capability names
    Unregistered,       \* "no such agent"
    Capabilities,       \* the capability lists agents are registered with
    Expiries,           \* the expires_at values agents are registered with
    Delegators,         \* requests that call create_delegation
    Deactivators,       \* requests that call cascade_deactivate
    MAX_CHAIN_DEPTH,    \* 10 in the code
    MaxLinks            \* bound: links ever created

(* Option::None of expires_at. *)
Never == -1

Agents == [owner: Owner, capabilities: SUBSET Scope, expires_at: Nat \cup {Never},
           active: BOOLEAN]

(* live and alone are history: when the link was appended, was the         *)
(* delegating agent active, and was no other request past its cycle check? *)
DelegationLinks ==
    [from: AgentId, to: AgentId, scope_narrowing: SUBSET Scope, live: BOOLEAN, alone: BOOLEAN]

ASSUME RegistryAssumption ==
    /\ Unregistered \notin Agents /\ Unregistered \notin AgentId
    /\ Capabilities \subseteq SUBSET Scope
    /\ Expiries \subseteq Nat \cup {Never}
    /\ IsFiniteSet(AgentId)
    /\ MAX_CHAIN_DEPTH \in Nat \ {0}
    /\ MaxLinks \in Nat

VARIABLES
    agents,         \* agents[a]: an Agents record, or Unregistered
    delegations,    \* the links, in the order they were appended
    delegating,     \* delegating[p]: how far p's create_delegation has come
    cascading,      \* cascading[p]: how far p's cascade_deactivate has come
    unwalked,       \* history: agents whose children a dropped cascade never read
    missed          \* history: children a dropped cascade had read and not reached

dropped == <<unwalked, missed>>
registryVars == <<agents, delegations, delegating, cascading, dropped>>

(* A create_delegation request: idle, past the agent checks, or past the   *)
(* cycle check.                                                            *)
Delegating ==
    [step: {"idle"}] \cup
    [step: {"checked", "acyclic"}, from: AgentId, to: AgentId, scope_narrowing: SUBSET Scope]

(* A cascade_deactivate request: to_process is the stack (its order does   *)
(* not matter to any property, so a set), children what is left of the     *)
(* children of the agent popped last, deactivated the answer so far.       *)
Cascading ==
    [running: BOOLEAN, to_process: SUBSET AgentId, children: SUBSET AgentId,
     deactivated: SUBSET AgentId]

Idle == [step |-> "idle"]
NoCascade == [running |-> FALSE, to_process |-> {}, children |-> {}, deactivated |-> {}]

RegistryInit ==
    /\ agents = [a \in AgentId |-> Unregistered]
    /\ delegations = <<>>
    /\ delegating = [p \in Delegators |-> Idle]
    /\ cascading = [p \in Deactivators |-> NoCascade]
    /\ unwalked = {} /\ missed = {}

----------------------------------------------------------------------------
(* Reads. *)

Exists(a) == agents[a] # Unregistered
Active(a) == Exists(a) /\ agents[a].active

(* get_agent: an expired agent is not found; an inactive one is.           *)
get_agent(a, now) ==
    Exists(a) /\ (agents[a].expires_at = Never \/ now <= agents[a].expires_at)

Links == {delegations[i] : i \in DOMAIN delegations}

(* delegations.iter().find(|d| d.to == a): the first link appended.        *)
IncomingOf(a) == {i \in DOMAIN delegations : delegations[i].to = a}
FirstLinkTo(a) == delegations[CHOOSE i \in IncomingOf(a) : \A j \in IncomingOf(a) : i <= j]

(* The walk from a towards the root of its chain: Ancestor(a)[n] is n      *)
(* first-links up, or Unregistered past the root.                          *)
Ancestor(a) ==
    LET up[n \in Nat] ==
          IF n = 0 THEN a
          ELSE IF up[n-1] = Unregistered \/ IncomingOf(up[n-1]) = {} THEN Unregistered
          ELSE FirstLinkTo(up[n-1]).from
    IN  up

(* The depth loop gives up after MAX_CHAIN_DEPTH links. *)
TooDeep(a) == Ancestor(a)[MAX_CHAIN_DEPTH] # Unregistered

(* Faulty variant: the walk starts at the delegate. *)
WouldCycleBelow(from, to) == \E n \in 1..Cardinality(AgentId) : Ancestor(to)[n] = from

(* The cycle loop stops at the root or at an agent seen before, so it      *)
(* visits every agent the walk can reach.                                  *)
WouldCycle(from, to) == \E n \in 1..Cardinality(AgentId) : Ancestor(from)[n] = to

----------------------------------------------------------------------------
register_agent(a, owner, capabilities, expires) ==
    /\ agents[a] = Unregistered
    /\ agents' = [agents EXCEPT ![a] =
                    [owner |-> owner, capabilities |-> capabilities,
                     expires_at |-> expires, active |-> TRUE]]
    /\ UNCHANGED <<delegations, delegating, cascading, dropped>>

(* create_delegation, holding the agents lock: every early return of its   *)
(* first half is a conjunct.                                               *)
delegation_check(p, from, to, scopes) ==
    /\ delegating[p] = Idle
    /\ from # to
    /\ Active(from)
    /\ Exists(to)
    /\ agents[from].owner = agents[to].owner
    /\ ~TooDeep(from)
    /\ scopes # {}
    /\ scopes \subseteq agents[from].capabilities
    /\ delegating' = [delegating EXCEPT ![p] =
                        [step |-> "checked", from |-> from, to |-> to,
                         scope_narrowing |-> scopes]]
    /\ UNCHANGED <<agents, delegations, cascading, dropped>>

(* create_delegation, reading the links: refused if to is found upstream.  *)
delegation_cycle_check(p) ==
    LET d == delegating[p] IN
    /\ d.step = "checked"
    /\ delegating' = [delegating EXCEPT ![p] =
                        IF WouldCycle(d.from, d.to) THEN Idle ELSE [d EXCEPT !.step = "acyclic"]]
    /\ UNCHANGED <<agents, delegations, cascading, dropped>>

(* create_delegation appends the link, without looking again.              *)
delegation_push(p) ==
    LET d == delegating[p] IN
    /\ d.step = "acyclic"
    /\ Len(delegations) < MaxLinks
    /\ delegations' = Append(delegations,
                        [from |-> d.from, to |-> d.to, scope_narrowing |-> d.scope_narrowing,
                         live |-> Active(d.from),
                         alone |-> \A q \in Delegators \ {p} : delegating[q].step # "acyclic"])
    /\ delegating' = [delegating EXCEPT ![p] = Idle]
    /\ UNCHANGED <<agents, cascading, dropped>>

(* The client of a delegation hangs up before the link is appended.        *)
delegation_dropped(p) ==
    /\ delegating[p] # Idle
    /\ delegating' = [delegating EXCEPT ![p] = Idle]
    /\ UNCHANGED <<agents, delegations, cascading, dropped>>

(* cascade_deactivate(id) starts with deactivate_agent(id), which refuses  *)
(* an unknown or inactive agent.                                           *)
cascade_start(p, id) ==
    /\ ~cascading[p].running
    /\ Active(id)
    /\ agents' = [agents EXCEPT ![id].active = FALSE]
    /\ cascading' = [cascading EXCEPT ![p] =
                       [running |-> TRUE, to_process |-> {id}, children |-> {},
                        deactivated |-> {id}]]
    /\ UNCHANGED <<delegations, delegating, dropped>>

(* Pop an agent and read its children. *)
cascade_pop(p, current) ==
    /\ cascading[p].running
    /\ cascading[p].children = {}
    /\ current \in cascading[p].to_process
    /\ cascading' = [cascading EXCEPT
                       ![p].to_process = @ \ {current},
                       ![p].children = {l.to : l \in {k \in Links : k.from = current}}]
    /\ UNCHANGED <<agents, delegations, delegating, dropped>>

(* Faulty variant: a child is deactivated without its own children being   *)
(* queued.                                                                 *)
cascade_one_level(p, child) ==
    /\ child \in cascading[p].children
    /\ agents' = [agents EXCEPT ![child].active = FALSE]
    /\ cascading' = [cascading EXCEPT ![p].children = @ \ {child},
                                      ![p].deactivated = @ \cup {child}]
    /\ UNCHANGED <<delegations, delegating, dropped>>

(* Faulty variant: a child that is inactive already is queued again.       *)
cascade_revisiting(p, child) ==
    /\ child \in cascading[p].children
    /\ agents' = [agents EXCEPT ![child].active = FALSE]
    /\ cascading' = [cascading EXCEPT ![p].children = @ \ {child},
                                      ![p].to_process = @ \cup {child},
                                      ![p].deactivated = @ \cup {child}]
    /\ UNCHANGED <<delegations, delegating, dropped>>

(* Deactivate one child; an inactive one is passed over, with everything   *)
(* below it.                                                               *)
cascade_child(p, child) ==
    /\ child \in cascading[p].children
    /\ IF Active(child)
       THEN /\ agents' = [agents EXCEPT ![child].active = FALSE]
            /\ cascading' = [cascading EXCEPT
                               ![p].children = @ \ {child},
                               ![p].to_process = @ \cup {child},
                               ![p].deactivated = @ \cup {child}]
       ELSE /\ cascading' = [cascading EXCEPT ![p].children = @ \ {child}]
            /\ UNCHANGED agents
    /\ UNCHANGED <<delegations, delegating, dropped>>

(* Nothing left to process: the list of deactivated agents is returned.    *)
CascadeDone(p) ==
    /\ cascading[p].running
    /\ cascading[p].children = {}
    /\ cascading[p].to_process = {}

cascade_return(p) ==
    /\ CascadeDone(p)
    /\ cascading' = [cascading EXCEPT ![p] = NoCascade]
    /\ UNCHANGED <<agents, delegations, delegating, dropped>>

(* The client of a deactivation hangs up while the cascade waits for a     *)
(* lock: nobody takes over the agents it has left.                         *)
cascade_dropped(p) ==
    /\ cascading[p].running
    /\ cascading' = [cascading EXCEPT ![p] = NoCascade]
    /\ unwalked' = unwalked \cup cascading[p].to_process
    /\ missed' = missed \cup cascading[p].children
    /\ UNCHANGED <<agents, delegations, delegating>>

DelegationNext ==
    \E p \in Delegators :
        \/ \E from, to \in AgentId, scopes \in SUBSET Scope : delegation_check(p, from, to, scopes)
        \/ delegation_cycle_check(p)
        \/ delegation_push(p)
        \/ delegation_dropped(p)

CascadeNext(p) ==
    \/ \E a \in AgentId : cascade_pop(p, a) \/ cascade_child(p, a)
    \/ cascade_return(p)
    \/ cascade_dropped(p)

RegistryNext ==
    \/ \E a \in AgentId, owner \in Owner, caps \in Capabilities, expires \in Expiries :
          register_agent(a, owner, caps, expires)
    \/ DelegationNext
    \/ \E p \in Deactivators :
          (\E id \in AgentId : cascade_start(p, id)) \/ CascadeNext(p)

RegistrySpec == RegistryInit /\ [][RegistryNext]_registryVars

----------------------------------------------------------------------------
(* Properties. *)

(* Every variable has its type. *)
RegistryTypeOK ==
    /\ agents \in [AgentId -> Agents \cup {Unregistered}]
    /\ delegations \in Seq(DelegationLinks)
    /\ delegating \in [Delegators -> Delegating]
    /\ cascading \in [Deactivators -> Cascading]
    /\ unwalked \subseteq AgentId /\ missed \subseteq AgentId

(* No cascade is under way. *)
Quiet == \A p \in Deactivators : ~cascading[p].running

(* Some cascade has yet to deal with the children of a, or with the child  *)
(* c of a that it has read already.                                        *)
Pending(a, c) ==
    \E p \in Deactivators : a \in cascading[p].to_process \/ c \in cascading[p].children

(* What a dropped cascade left undone: it never read the children of a, or *)
(* it had read the child c and did not get to it.                          *)
LeftBehind(a, c) == a \in unwalked \/ c \in missed

(* The inductive form: whatever an inactive agent delegated to while it    *)
(* was active is inactive, or some cascade is still on its way to it, or a *)
(* cascade was dropped on its way to it.                                   *)
CascadeProgress ==
    \A l \in Links :
        l.live /\ ~Active(l.from)
            => ~Active(l.to) \/ Pending(l.from, l.to) \/ LeftBehind(l.from, l.to)

(* Cascades running over and through each other, and delegations created   *)
(* meanwhile, leave no one behind: once no cascade is under way, an        *)
(* inactive agent has no active delegate among those it delegated to while *)
(* it was active, except where a cascade was dropped on the way there.  (A *)
(* cascade may return before: it passes over an inactive child whose own   *)
(* cascade is still running.)                                              *)
CascadeComplete ==
    Quiet => \A l \in Links :
        l.live /\ ~Active(l.from) => ~Active(l.to) \/ LeftBehind(l.from, l.to)

(* The chain verify_chain and the session snapshot walk, each agent's      *)
(* first incoming link, never runs into a cycle, whatever registrations    *)
(* and cascades come between a cycle check and its push, as long as no     *)
(* other delegation was pushed there.                                      *)
ChainsEnd ==
    (\A l \in Links : l.alone)
        => \A a \in AgentId : Ancestor(a)[Cardinality(AgentId)] = Unregistered

(* A cascade ends, though agents and links are added under it, other       *)
(* cascades cross it and the links form a cycle: each of its steps         *)
(* deactivates one more agent or, if it deactivates none, shortens what it *)
(* has left to process.                                                    *)
Shrinks(S, T) == T \subseteq S /\ T # S

CascadeAdvances ==
    [][\A p \in Deactivators :
          LET before == cascading[p]  after == cascading'[p] IN
          before # after /\ before.running /\ after.running =>
             \/ Shrinks(after.deactivated, before.deactivated)
             \/ /\ after.deactivated = before.deactivated
                /\ \/ Shrinks(before.to_process, after.to_process)
                   \/ /\ after.to_process = before.to_process
                      /\ Shrinks(before.children, after.children)]_registryVars
=============================================================================
