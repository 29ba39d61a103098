----------------------- MODULE StorageBackedRegistry ------------------------
(***************************************************************************)
(* The agent registry over a database,                                     *)
(* crates/arbiter-identity/src/storage_registry.rs on                      *)
(* crates/arbiter-storage/src/sqlite.rs.                                   *)
(*                                                                         *)
(* There is no lock and no transaction: every storage call is a statement  *)
(* of its own and one action here, any of them may fail, and other         *)
(* requests run between any two of one request.  A request is dropped      *)
(* where it stands when its client hangs up or the process ends; the rows  *)
(* stay.  Only the registry's own requests are modelled: register_agent,   *)
(* create_delegation, update_trust_level and cascade_deactivate.           *)
(*                                                                         *)
(* Abstracted: model name, timestamps and expiries, and the scopes of a    *)
(* link beyond their check.                                                *)
(***************************************************************************)
EXTENDS Integers, Sequences, FiniteSets

CONSTANTS
    AgentId, Owner, Scope,
    Unregistered,   \* no row
    Capabilities,   \* the capability lists agents are registered with
    TrustLevel,     \* the levels an administrator sets
    Delegators,     \* requests that call create_delegation
    Administrators, \* requests that call update_trust_level or cascade_deactivate
    MaxLinks,       \* bound: rows of delegation_links
    MaxFailures     \* bound: storage calls that fail, requests dropped

Rows == [owner: Owner, capabilities: SUBSET Scope, trust_level: TrustLevel, active: BOOLEAN]

(* live and alone are history: when the row was inserted, was the          *)
(* delegating agent active, and had no other delegation begun its walk?    *)
LinkRows == [from: AgentId, to: AgentId, live: BOOLEAN, alone: BOOLEAN]

ASSUME StorageRegistryAssumption ==
    /\ Unregistered \notin Rows
    /\ Capabilities \subseteq SUBSET Scope
    /\ IsFiniteSet(AgentId)
    /\ MaxLinks \in Nat
    /\ MaxFailures \in Nat

VARIABLES
    agents,         \* the agents table
    links,          \* the delegation_links table, in row order
    delegating, administering,  \* how far each request has come
    failures,       \* failures so far
    unwalked,       \* history: agents whose delegates a cascade never looked at
    missed          \* history: delegates a cascade failed to deactivate

tables == <<agents, links>>
history == <<failures, unwalked, missed>>
storageRegistryVars == <<tables, delegating, administering, history>>

NoRequest == [at |-> "idle"]

StorageRegistryInit ==
    /\ agents = [a \in AgentId |-> Unregistered]
    /\ links = <<>>
    /\ delegating = [p \in Delegators |-> NoRequest]
    /\ administering = [p \in Administrators |-> NoRequest]
    /\ failures = 0 /\ unwalked = {} /\ missed = {}

----------------------------------------------------------------------------
(* Statements. *)

Exists(a) == agents[a] # Unregistered
Active(a) == Exists(a) /\ agents[a].active

LinkSet == {links[i] : i \in DOMAIN links}
DelegatesOf(a) == {l.to : l \in {k \in LinkSet : k.from = a}}

(* The first row of get_delegations_to. *)
IncomingOf(a) == {i \in DOMAIN links : links[i].to = a}
FirstLinkTo(a) == links[CHOOSE i \in IncomingOf(a) : \A j \in IncomingOf(a) : i <= j]

(* A storage call that fails. *)
fails == failures < MaxFailures /\ failures' = failures + 1

InsertAgent(a, row) == agents' = [agents EXCEPT ![a] = row]
InsertDelegation(row) == links' = Append(links, row)

(* The updates set one column each. *)
SetTrustLevel(a, level) == agents' = [agents EXCEPT ![a].trust_level = level]
SetInactive(a) == agents' = [agents EXCEPT ![a].active = FALSE]

----------------------------------------------------------------------------
register_agent(a, owner, capabilities, level) ==
    /\ agents[a] = Unregistered
    /\ InsertAgent(a, [owner |-> owner, capabilities |-> capabilities, trust_level |-> level,
                       active |-> TRUE])
    /\ UNCHANGED <<links, delegating, administering, history>>

(* create_delegation: the parent's row (and the check against it of the    *)
(* scopes, which the code makes after it has read the target), ...         *)
delegation_parent(p, from, to, scopes) ==
    /\ delegating[p] = NoRequest
    /\ from # to
    /\ Active(from)
    /\ scopes \subseteq agents[from].capabilities
    /\ delegating' = [delegating EXCEPT ![p] =
                        [at |-> "target", from |-> from, to |-> to, owner |-> agents[from].owner]]
    /\ UNCHANGED <<tables, administering, history>>

(* Faulty variant: the walk starts at the target. *)
delegation_target_down(p) ==
    LET d == delegating[p] IN
    /\ d.at = "target"
    /\ delegating' = [delegating EXCEPT ![p] =
                        IF Exists(d.to) /\ d.owner = agents[d.to].owner
                        THEN [at |-> "walk", from |-> d.from, to |-> d.to, current |-> d.to,
                              visited |-> {d.to}]
                        ELSE NoRequest]
    /\ UNCHANGED <<tables, administering, history>>

(* ... the target's row and what the two allow, ... *)
delegation_target(p) ==
    LET d == delegating[p] IN
    /\ d.at = "target"
    /\ delegating' = [delegating EXCEPT ![p] =
                        IF Exists(d.to) /\ d.owner = agents[d.to].owner
                        THEN [at |-> "walk", from |-> d.from, to |-> d.to, current |-> d.from,
                              visited |-> {d.from}]
                        ELSE NoRequest]
    /\ UNCHANGED <<tables, administering, history>>

(* ... one link after the other up to the root: refused if the target is   *)
(* met, done at the root or where the walk has been before, ...            *)
delegation_walk(p) ==
    LET d == delegating[p]
        up == FirstLinkTo(d.current).from
    IN
    /\ d.at = "walk"
    /\ delegating' = [delegating EXCEPT ![p] =
                        IF IncomingOf(d.current) = {} \/ (up # d.to /\ up \in d.visited)
                        THEN [at |-> "insert", from |-> d.from, to |-> d.to]
                        ELSE IF up = d.to THEN NoRequest
                        ELSE [d EXCEPT !.current = up, !.visited = @ \cup {up}]]
    /\ UNCHANGED <<tables, administering, history>>

(* Delegations whose walk has begun and whose row is not there yet.        *)
WalkingUp == {p \in Delegators : delegating[p].at \in {"walk", "insert"}}

(* ... and the new row, without looking at the parent or at the chain      *)
(* again.  (A dropped request whose INSERT the database executes later is  *)
(* one that inserts late.)                                                 *)
delegation_insert(p) ==
    LET d == delegating[p] IN
    /\ d.at = "insert"
    /\ Len(links) < MaxLinks
    /\ InsertDelegation([from |-> d.from, to |-> d.to, live |-> Active(d.from),
                         alone |-> WalkingUp = {p}])
    /\ delegating' = [delegating EXCEPT ![p] = NoRequest]
    /\ UNCHANGED <<agents, administering, history>>

----------------------------------------------------------------------------
Administer(p, state) == administering' = [administering EXCEPT ![p] = state]

(* update_trust_level: the row is read, its agent must be active, ... *)
trust_read(p, a, level) ==
    /\ administering[p] = NoRequest
    /\ Active(a)
    /\ Administer(p, [at |-> "update", agent |-> a, level |-> level])
    /\ UNCHANGED <<tables, delegating, history>>

(* ... and one column is written, whatever has become of the agent.  (The  *)
(* row is then read once more for the answer.)                             *)
trust_write(p) ==
    LET t == administering[p] IN
    /\ t.at = "update"
    /\ SetTrustLevel(t.agent, t.level)
    /\ Administer(p, NoRequest)
    /\ UNCHANGED <<links, delegating, history>>

----------------------------------------------------------------------------
(* cascade_deactivate(id) starts with deactivate_agent: the row is read,   *)
(* ...                                                                     *)
cascade_read(p, id) ==
    /\ administering[p] = NoRequest
    /\ Active(id)
    /\ Administer(p, [at |-> "root", root |-> id])
    /\ UNCHANGED <<tables, delegating, history>>

(* ... and made inactive, even if another request has done so meanwhile.   *)
cascade_root(p) ==
    LET id == administering[p].root IN
    /\ administering[p].at = "root"
    /\ SetInactive(id)
    /\ Administer(p, [at |-> "loop", to_process |-> {id}, children |-> {}])
    /\ UNCHANGED <<links, delegating, history>>

(* The next agent on the stack (in any order): its delegates are read.     *)
cascade_pop(p, current) ==
    LET c == administering[p] IN
    /\ c.at = "loop" /\ c.children = {}
    /\ current \in c.to_process
    /\ Administer(p, [c EXCEPT !.to_process = @ \ {current}, !.children = DelegatesOf(current)])
    /\ UNCHANGED <<tables, delegating, history>>

(* If they cannot be, the cascade ends with an error. *)
cascade_abort(p) ==
    LET c == administering[p] IN
    /\ c.at = "loop" /\ c.children = {} /\ c.to_process # {}
    /\ fails
    /\ unwalked' = unwalked \cup c.to_process
    /\ Administer(p, NoRequest)
    /\ UNCHANGED <<tables, delegating, missed>>

(* One delegate: its row is read, an inactive one passed over, ... *)
cascade_child(p, child) ==
    LET c == administering[p] IN
    /\ c.at = "loop" /\ child \in c.children
    /\ Administer(p, IF Active(child)
                  THEN [at |-> "child", to_process |-> c.to_process,
                        children |-> c.children \ {child}, child |-> child]
                  ELSE [c EXCEPT !.children = @ \ {child}])
    /\ UNCHANGED <<tables, delegating, history>>

(* ... one that cannot be read passed over too, ... *)
cascade_child_unread(p, child) ==
    LET c == administering[p] IN
    /\ c.at = "loop" /\ child \in c.children
    /\ fails
    /\ missed' = missed \cup {child}
    /\ Administer(p, [c EXCEPT !.children = @ \ {child}])
    /\ UNCHANGED <<tables, delegating, unwalked>>

Back(c, pushed) ==
    [at |-> "loop", to_process |-> c.to_process \cup pushed, children |-> c.children]

(* Faulty variant: the delegate is not put on the stack. *)
cascade_update_only(p) ==
    LET c == administering[p] IN
    /\ c.at = "child"
    /\ SetInactive(c.child)
    /\ Administer(p, Back(c, {}))
    /\ UNCHANGED <<links, delegating, history>>

(* ... and one that is active made inactive and put on the stack, ... *)
cascade_update(p) ==
    LET c == administering[p] IN
    /\ c.at = "child"
    /\ SetInactive(c.child)
    /\ Administer(p, Back(c, {c.child}))
    /\ UNCHANGED <<links, delegating, history>>

(* ... or, if that fails, left active without a word. *)
cascade_update_fails(p) ==
    LET c == administering[p] IN
    /\ c.at = "child"
    /\ fails
    /\ missed' = missed \cup {c.child}
    /\ Administer(p, Back(c, {}))
    /\ UNCHANGED <<tables, delegating, unwalked>>

cascade_return(p) ==
    LET c == administering[p] IN
    /\ c.at = "loop" /\ c.children = {} /\ c.to_process = {}
    /\ Administer(p, NoRequest)
    /\ UNCHANGED <<tables, delegating, history>>

(* What a cascade that is given up leaves undone: agents whose delegates   *)
(* it has not read, delegates it has not made inactive.                    *)
Written(c) == IF c.at = "root" THEN {c.root} ELSE IF c.at = "child" THEN {c.child} ELSE {}
Unfinished(c) == Written(c) \cup (IF c.at \in {"loop", "child"} THEN c.to_process ELSE {})
InHand(c) == Written(c) \cup (IF c.at \in {"loop", "child"} THEN c.children ELSE {})

(* The other storage calls: an error ends the request, and nothing is      *)
(* written.                                                                *)
call_fails ==
    /\ fails
    /\ \/ \E p \in Delegators : delegating[p] # NoRequest /\ delegating' = [delegating EXCEPT ![p] = NoRequest]
                                 /\ UNCHANGED <<administering>>
       \/ \E p \in Administrators : administering[p].at \in {"update", "root"} /\ Administer(p, NoRequest)
                                     /\ UNCHANGED delegating
    /\ UNCHANGED <<tables, unwalked, missed>>

(* The client of a cascade hangs up, and the request is dropped; the       *)
(* statement it has handed to the database may still be executed.  Here it *)
(* is at once or never; the agents it is about are in unwalked and missed  *)
(* from now on, and a later execution would show only in them.             *)
administrator_gone(p) ==
    LET c == administering[p] IN
    /\ c.at \in {"root", "loop", "child"}
    /\ fails
    /\ Administer(p, NoRequest)
    /\ unwalked' = unwalked \cup Unfinished(c)
    /\ missed' = missed \cup InHand(c)
    /\ agents' \in {agents, [a \in AgentId |-> IF a \in Written(c)
                                               THEN [agents[a] EXCEPT !.active = FALSE]
                                               ELSE agents[a]]}
    /\ UNCHANGED <<links, delegating>>

(* The process ends and is started again: every request is dropped. *)
restart ==
    /\ fails
    /\ delegating' = [p \in Delegators |-> NoRequest]
    /\ administering' = [p \in Administrators |-> NoRequest]
    /\ unwalked' = unwalked \cup UNION {Unfinished(administering[p]) : p \in Administrators}
    /\ missed' = missed \cup UNION {InHand(administering[p]) : p \in Administrators}
    /\ UNCHANGED tables

----------------------------------------------------------------------------
CascadeSteps(p) ==
    \/ cascade_root(p) \/ cascade_abort(p) \/ cascade_update(p) \/ cascade_update_fails(p)
    \/ cascade_return(p)
    \/ \E a \in AgentId : cascade_pop(p, a) \/ cascade_child(p, a) \/ cascade_child_unread(p, a)

StorageRegistryNext ==
    \/ \E a \in AgentId, o \in Owner, caps \in Capabilities, level \in TrustLevel :
          register_agent(a, o, caps, level)
    \/ \E p \in Delegators :
          \/ \E from, to \in AgentId, scopes \in SUBSET Scope : delegation_parent(p, from, to, scopes)
          \/ delegation_target(p) \/ delegation_walk(p) \/ delegation_insert(p)
    \/ \E p \in Administrators :
          (\E a \in AgentId, level \in TrustLevel : trust_read(p, a, level)) \/ trust_write(p)
    \/ \E p \in Administrators :
          (\E id \in AgentId : cascade_read(p, id)) \/ CascadeSteps(p) \/ administrator_gone(p)
    \/ call_fails \/ restart

StorageRegistrySpec == StorageRegistryInit /\ [][StorageRegistryNext]_storageRegistryVars

----------------------------------------------------------------------------
(* The types, and that a link joins two registered agents of one owner.    *)
StorageRegistryTypeOK ==
    /\ agents \in [AgentId -> Rows \cup {Unregistered}]
    /\ LinkSet \subseteq LinkRows
    /\ \A l \in LinkSet : Exists(l.from) /\ Exists(l.to) /\ agents[l.from].owner = agents[l.to].owner
    /\ \A p \in Administrators :
         LET c == administering[p] IN
         c.at \in {"loop", "child"} => c.to_process \subseteq AgentId /\ c.children \subseteq AgentId
    /\ failures \in 0..MaxFailures
    /\ unwalked \subseteq AgentId /\ missed \subseteq AgentId

Quiet == \A p \in Administrators : administering[p].at \in {"idle", "update"}

(* cascade_deactivate, storage_registry.rs 416-454: what failures leave    *)
(* behind is no more than what they hit.  Once no cascade is under way, an *)
(* inactive agent has an active delegate (from when it was active itself)  *)
(* only if a cascade was cut short before that agent's delegates were read *)
(* or failed on this very delegate; cascades that meet, delegations made   *)
(* meanwhile and trust updates never add to that.                          *)
StrandedOnlyByFailure ==
    Quiet => \A l \in LinkSet :
                l.live /\ ~Active(l.from) /\ Active(l.to) => l.from \in unwalked \/ l.to \in missed

(* No agents have their first incoming links from each other in a ring.    *)
FirstLinksEnd ==
    \A S \in SUBSET AgentId :
        S # {} => \E a \in S : IncomingOf(a) = {} \/ FirstLinkTo(a).from \notin S

MadeAlone == \A l \in LinkSet : l.alone

(* create_delegation's walk, storage_registry.rs 300-325: the first-link   *)
(* chains that get_chain_for_agent follows end, whatever cascades, trust   *)
(* updates, failures, restarts and other delegations come between the      *)
(* statements of one, as long as no row was inserted while another         *)
(* delegation was between its walk's first statement and its INSERT.       *)
(* Nothing in the code keeps two from that.                                *)
ChainsEnd == MadeAlone => FirstLinksEnd

----------------------------------------------------------------------------
(* Why they hold.  A request between two of its statements: *)
Delegatings ==
    {NoRequest} \cup [at: {"target"}, from: AgentId, to: AgentId, owner: Owner]
    \cup [at: {"walk"}, from: AgentId, to: AgentId, current: AgentId, visited: SUBSET AgentId]
    \cup [at: {"insert"}, from: AgentId, to: AgentId]

Administerings ==
    {NoRequest} \cup [at: {"update"}, agent: AgentId, level: TrustLevel]
    \cup [at: {"root"}, root: AgentId]
    \cup [at: {"loop"}, to_process: SUBSET AgentId, children: SUBSET AgentId]
    \cup [at: {"child"}, to_process: SUBSET AgentId, children: SUBSET AgentId, child: AgentId]

(* The agents a request has read stay registered, and keep their owner.    *)
ReadForDelegation(d) ==
    d # NoRequest =>
        /\ Exists(d.from) /\ d.from # d.to
        /\ d.at = "target" => agents[d.from].owner = d.owner
        /\ d.at # "target" => Exists(d.to) /\ agents[d.from].owner = agents[d.to].owner
ReadByAdministrator(c) ==
    /\ c.at = "update" => Exists(c.agent)
    /\ \A a \in Unfinished(c) \cup InHand(c) : Exists(a)

InRows ==
    /\ links \in Seq(LinkRows)
    /\ delegating \in [Delegators -> Delegatings]
    /\ administering \in [Administrators -> Administerings]
    /\ \A p \in Delegators : ReadForDelegation(delegating[p])
    /\ \A p \in Administrators : ReadByAdministrator(administering[p])

(* Stranded delegates a running cascade will still come to.                *)
Reaches(c, l) == c.at \in {"loop", "child"} /\ (l.from \in c.to_process \/ l.to \in InHand(c))
Covered ==
    \A l \in LinkSet :
        l.live /\ ~Active(l.from) /\ Active(l.to) =>
            \/ l.from \in unwalked \/ l.to \in missed
            \/ \E p \in Administrators : Reaches(administering[p], l)

RowsInv == StorageRegistryTypeOK /\ InRows /\ Covered

(* While every row was inserted alone, a delegation has, between its walk  *)
(* and its row, a set of agents that holds from, not to, and that the walk *)
(* up from any but the last never leaves: what delegation_walk has         *)
(* visited.                                                                *)
ClosedBut(V, last) == \A v \in V \ last : IncomingOf(v) # {} => FirstLinkTo(v).from \in V
WalkedUp ==
    \A p \in Delegators :
        LET d == delegating[p] IN
        /\ d.at = "walk" => /\ d.from \in d.visited /\ d.current \in d.visited /\ d.to \notin d.visited
                            /\ ClosedBut(d.visited, {d.current})
        /\ d.at = "insert" => \E V \in SUBSET AgentId :
                                d.from \in V /\ d.to \notin V /\ ClosedBut(V, {})
=============================================================================
