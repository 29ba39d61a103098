-------------------------- MODULE LifecycleProofs ---------------------------
(***************************************************************************)
(* For any agents, sessions and number of admin requests under way at      *)
(* once: deactivations end the sessions of the agents they deactivate, the *)
(* gauge agrees with the registry, and the session cap is overshot by the  *)
(* requests in flight at most.                                             *)
(***************************************************************************)
EXTENDS Lifecycle, FiniteSetTheorems, TLAPS

-----------------------------------------------------------------------------
(* The registry keeps its types.                                           *)

LEMMA AgentIs ==
    ASSUME Registry!RegistryTypeOK, NEW a \in AgentId
    PROVE  /\ Registry!Exists(a) => agents[a] \in Registry!Agents
           /\ Registry!Active(a) \in BOOLEAN
           /\ Registry!Active(a) => Registry!Exists(a)
  <1>1. Registry!Exists(a) => agents[a] \in Registry!Agents
    BY DEF Registry!RegistryTypeOK, Registry!Exists
  <1> QED BY <1>1 DEF Registry!Active, Registry!Agents, Registry!Exists

LEMMA RegistersType ==
    ASSUME Registry!RegistryTypeOK, NEW a \in AgentId, NEW owner \in Owner,
           NEW caps \in Capabilities, NEW expires \in Expiries,
           Registry!register_agent(a, owner, caps, expires)
    PROVE  /\ Registry!RegistryTypeOK'
           /\ ~Registry!Exists(a) /\ Registry!Active(a)'
           /\ \A b \in AgentId \ {a} :
                 /\ Registry!Exists(b)' <=> Registry!Exists(b)
                 /\ Registry!Active(b)' <=> Registry!Active(b)
  <1> DEFINE new == [owner |-> owner, capabilities |-> caps, expires_at |-> expires,
                     active |-> TRUE]
  <1>1. new \in Registry!Agents /\ new.active = TRUE
    <2>1. caps \in SUBSET Scope /\ expires \in Nat \cup {Registry!Never}
      BY LifecycleAssumption
    <2> QED BY <2>1 DEF Registry!Agents
  <1>2. /\ agents' = [agents EXCEPT ![a] = new] /\ agents[a] = Unregistered
        /\ UNCHANGED <<delegations, delegating, cascading, unwalked, missed>>
        /\ agents \in [AgentId -> Registry!Agents \cup {Unregistered}]
    BY DEF Registry!register_agent, Registry!dropped, Registry!RegistryTypeOK
  <1>3. new # Unregistered
    BY <1>1, LifecycleAssumption
  <1> HIDE DEF new
  <1>4. agents' \in [AgentId -> Registry!Agents \cup {Unregistered}]
    BY <1>1, <1>2
  <1>5. Registry!RegistryTypeOK'
    BY <1>2, <1>4 DEF Registry!RegistryTypeOK
  <1>6. ~Registry!Exists(a) /\ Registry!Active(a)'
    BY <1>1, <1>2, <1>3 DEF Registry!Exists, Registry!Active
  <1>7. ASSUME NEW b \in AgentId \ {a}
        PROVE  /\ Registry!Exists(b)' <=> Registry!Exists(b)
               /\ Registry!Active(b)' <=> Registry!Active(b)
    BY <1>2, <1>7 DEF Registry!Exists, Registry!Active
  <1> QED BY <1>5, <1>6, <1>7

LEMMA DelegatesType ==
    ASSUME Registry!RegistryTypeOK, Registry!DelegationNext
    PROVE  Registry!RegistryTypeOK' /\ UNCHANGED <<agents, cascading>>
  <1>1. PICK p \in Delegators :
          \/ \E from, to \in AgentId, scopes \in SUBSET Scope :
                Registry!delegation_check(p, from, to, scopes)
          \/ Registry!delegation_cycle_check(p)
          \/ Registry!delegation_push(p)
          \/ Registry!delegation_dropped(p)
    BY DEF Registry!DelegationNext
  <1>2. ASSUME NEW d \in Registry!Delegating, delegating' = [delegating EXCEPT ![p] = d],
               UNCHANGED <<agents, delegations, cascading, Registry!dropped>>
        PROVE  Registry!RegistryTypeOK' /\ UNCHANGED <<agents, cascading>>
    BY <1>2 DEF Registry!RegistryTypeOK, Registry!dropped
  <1>3. Registry!Idle \in Registry!Delegating
    BY DEF Registry!Idle, Registry!Delegating
  <1>4. delegating[p] \in Registry!Delegating
    BY DEF Registry!RegistryTypeOK
  <1>5. ASSUME NEW from \in AgentId, NEW to \in AgentId, NEW scopes \in SUBSET Scope,
               Registry!delegation_check(p, from, to, scopes)
        PROVE  Registry!RegistryTypeOK' /\ UNCHANGED <<agents, cascading>>
    <2> DEFINE d == [step |-> "checked", from |-> from, to |-> to, scope_narrowing |-> scopes]
    <2>1. d \in Registry!Delegating
      BY DEF Registry!Delegating
    <2>2. /\ delegating' = [delegating EXCEPT ![p] = d]
          /\ UNCHANGED <<agents, delegations, cascading, Registry!dropped>>
      BY <1>5 DEF Registry!delegation_check
    <2> HIDE DEF d
    <2> QED BY <1>2, <2>1, <2>2
  <1>6. CASE Registry!delegation_cycle_check(p)
    <2>1. PICK d : d = delegating[p]
      OBVIOUS
    <2> DEFINE e == [d EXCEPT !.step = "acyclic"]
    <2>2. d.step = "checked" /\ UNCHANGED <<agents, delegations, cascading, Registry!dropped>>
      BY <1>6, <2>1 DEF Registry!delegation_cycle_check
    <2>3. e \in Registry!Delegating
      BY <1>4, <2>1, <2>2 DEF Registry!Delegating
    <2>4. \/ delegating' = [delegating EXCEPT ![p] = Registry!Idle]
          \/ delegating' = [delegating EXCEPT ![p] = e]
      BY <1>6, <2>1 DEF Registry!delegation_cycle_check
    <2> HIDE DEF e
    <2> QED BY <1>2, <1>3, <2>2, <2>3, <2>4
  <1>7. CASE Registry!delegation_push(p)
    <2>1. PICK d : d = delegating[p]
      OBVIOUS
    <2>2. d.step = "acyclic"
      BY <1>7, <2>1 DEF Registry!delegation_push
    <2>3. d.from \in AgentId /\ d.to \in AgentId /\ d.scope_narrowing \in SUBSET Scope
      BY <1>4, <2>1, <2>2 DEF Registry!Delegating
    <2>4. PICK live \in BOOLEAN, alone \in BOOLEAN :
             /\ live = Registry!Active(d.from)
             /\ alone = (\A q \in Delegators \ {p} : delegating[q].step # "acyclic")
      BY <2>3, AgentIs
    <2> DEFINE l == [from |-> d.from, to |-> d.to, scope_narrowing |-> d.scope_narrowing,
                     live |-> live, alone |-> alone]
    <2>5. l \in Registry!DelegationLinks
      BY <2>3 DEF Registry!DelegationLinks
    <2>6. /\ delegations' = Append(delegations, l)
          /\ delegating' = [delegating EXCEPT ![p] = Registry!Idle]
          /\ UNCHANGED <<agents, cascading, unwalked, missed>>
      BY <1>7, <2>1, <2>4 DEF Registry!delegation_push, Registry!dropped
    <2> HIDE DEF l
    <2>7. delegations' \in Seq(Registry!DelegationLinks)
      BY <2>5, <2>6 DEF Registry!RegistryTypeOK
    <2> QED BY <1>3, <2>6, <2>7 DEF Registry!RegistryTypeOK
  <1>8. CASE Registry!delegation_dropped(p)
    BY <1>2, <1>3, <1>8 DEF Registry!delegation_dropped
  <1> QED BY <1>1, <1>5, <1>6, <1>7, <1>8

(* One agent is deactivated.                                               *)
LEMMA Deactivates ==
    ASSUME Registry!RegistryTypeOK, NEW id \in AgentId, Registry!Exists(id),
           agents' = [agents EXCEPT ![id].active = FALSE]
    PROVE  /\ agents' \in [AgentId -> Registry!Agents \cup {Unregistered}]
           /\ \A a \in AgentId : Registry!Exists(a)' <=> Registry!Exists(a)
           /\ \A a \in AgentId : Registry!Active(a)' <=> Registry!Active(a) /\ a # id
  <1>1. PICK old \in Registry!Agents : old = agents[id]
    BY AgentIs
  <1> DEFINE new == [old EXCEPT !.active = FALSE]
  <1>2. new \in Registry!Agents /\ new.active = FALSE
    BY DEF Registry!Agents
  <1>3. agents' = [agents EXCEPT ![id] = new]
    BY <1>1
  <1>4. new # Unregistered
    BY <1>2, LifecycleAssumption
  <1> HIDE DEF new
  <1>5. agents \in [AgentId -> Registry!Agents \cup {Unregistered}]
    BY DEF Registry!RegistryTypeOK
  <1>6. agents' \in [AgentId -> Registry!Agents \cup {Unregistered}]
        /\ agents'[id] = new /\ \A a \in AgentId \ {id} : agents'[a] = agents[a]
    BY <1>2, <1>3, <1>5
  <1> QED BY <1>2, <1>4, <1>6 DEF Registry!Exists, Registry!Active

-----------------------------------------------------------------------------
(* The invariant in two halves: who is counted, and which sessions there   *)
(* are; SessionsCounted joins them.                                        *)
AgentsInv ==
    /\ Registry!RegistryTypeOK
    /\ closing \in [Deactivators -> SUBSET AgentId]
    /\ registered_agents \in Int
    /\ signing \in BOOLEAN
    /\ forsaken \subseteq AgentId /\ uncounted \subseteq AgentId
    /\ OwedOnce /\ GaugeCounts

SessionsInv ==
    /\ Store!TypeOK
    /\ creating \in [Creators -> {NotCreating} \cup [step: {"agent_ok", "under_cap"}, req: Requests]]
    /\ ghosts \subseteq SessionId
    /\ CapOvershootBounded

LEMMA Halves == LifecycleInv <=> AgentsInv /\ SessionsInv /\ SessionsCounted
  BY DEF LifecycleInv, AgentsInv, SessionsInv, TypeOK

-----------------------------------------------------------------------------
(* Who is counted.                                                         *)

LEMMA OwedIs ==
    ASSUME AgentsInv, NEW p \in Deactivators
    PROVE  /\ cascading[p] \in Registry!Cascading
           /\ cascading[p].deactivated \in SUBSET AgentId /\ closing[p] \in SUBSET AgentId
           /\ Owed(p) \in SUBSET AgentId
  <1>1. cascading[p] \in Registry!Cascading /\ closing[p] \in SUBSET AgentId
    BY DEF AgentsInv, Registry!RegistryTypeOK
  <1>2. cascading[p].deactivated \in SUBSET AgentId
    BY <1>1 DEF Registry!Cascading
  <1> QED BY <1>1, <1>2 DEF Owed

LEMMA CountedIs ==
    ASSUME AgentsInv
    PROVE  Counted \in SUBSET AgentId /\ IsFiniteSet(Counted) /\ Cardinality(Counted) \in Nat
  <1>1. Counted \in SUBSET AgentId
    BY OwedIs DEF AgentsInv, Counted
  <1> QED BY <1>1, LifecycleAssumption, FS_Subset, FS_CardinalityType

LEMMA UncountedIs ==
    ASSUME AgentsInv
    PROVE  IsFiniteSet(uncounted) /\ Cardinality(uncounted) \in Nat
  BY LifecycleAssumption, FS_Subset, FS_CardinalityType DEF AgentsInv

(* No agent is registered without being counted.                           *)
LEMMA GaugeKept ==
    ASSUME AgentsInv, UNCHANGED <<signing, uncounted>>,
           \A a \in AgentId : Registry!Exists(a) => Registry!Exists(a)',
           registered_agents' - registered_agents = Cardinality(Counted') - Cardinality(Counted),
           registered_agents' \in Int, Cardinality(Counted') \in Nat
    PROVE  signing' \in BOOLEAN /\ uncounted' \subseteq AgentId /\ GaugeCounts'
  <1>1. uncounted' \subseteq AgentId /\ signing' \in BOOLEAN
    BY DEF AgentsInv
  <1>2. \A a \in uncounted' : Registry!Exists(a)'
    BY DEF AgentsInv, GaugeCounts
  <1>3. PICK r, t, c, d, u \in Int :
           /\ r = registered_agents /\ t = registered_agents' /\ c = Cardinality(Counted)
           /\ d = Cardinality(Counted') /\ u = Cardinality(uncounted)
    BY CountedIs, UncountedIs DEF AgentsInv
  <1>4. r = c - u /\ t - r = d - c /\ Cardinality(uncounted') = u
    BY <1>3 DEF AgentsInv, GaugeCounts
  <1>5. t = d - u
    <2>1. r = c - u /\ t - r = d - c
      BY <1>4
    <2> QED BY <2>1
  <1> QED BY <1>1, <1>2, <1>3, <1>4, <1>5 DEF GaugeCounts

(* ... and the gauge stands still, as does the count.                      *)
LEMMA GaugeStill ==
    ASSUME AgentsInv, UNCHANGED <<registered_agents, signing, uncounted>>, Counted' = Counted,
           \A a \in AgentId : Registry!Exists(a) => Registry!Exists(a)'
    PROVE  /\ registered_agents' \in Int
           /\ signing' \in BOOLEAN /\ uncounted' \subseteq AgentId /\ GaugeCounts'
  <1>1. Cardinality(Counted) \in Nat /\ registered_agents \in Int
    BY CountedIs DEF AgentsInv
  <1>2. registered_agents' - registered_agents = Cardinality(Counted') - Cardinality(Counted)
    BY <1>1
  <1> QED BY <1>1, <1>2, GaugeKept

(* The registry's agents and the deactivations stand still.                *)
LEMMA AgentsStill ==
    ASSUME AgentsInv, Registry!RegistryTypeOK',
           UNCHANGED <<agents, cascading, closing, registered_agents, forsaken, signing, uncounted>>
    PROVE  AgentsInv' /\ Counted' = Counted
  <1>1. /\ \A a : Registry!Exists(a)' <=> Registry!Exists(a)
        /\ \A a : Registry!Active(a)' <=> Registry!Active(a)
        /\ \A p : Owed(p)' = Owed(p)
    BY DEF Registry!Exists, Registry!Active, Owed
  <1>2. Counted' = Counted
    BY <1>1 DEF Counted
  <1>3. OwedOnce'
    BY <1>1 DEF AgentsInv, OwedOnce
  <1>4. GaugeCounts'
    BY <1>1, <1>2, GaugeStill
  <1> QED BY <1>2, <1>3, <1>4 DEF AgentsInv

(* A new agent is active, and was not counted before.                      *)
LEMMA RegisterAgents ==
    ASSUME AgentsInv, register_agent
    PROVE  AgentsInv' /\ Counted \subseteq Counted'
  <1>1. PICK a \in AgentId, owner \in Owner, caps \in Capabilities, expires \in Expiries :
           /\ Registry!register_agent(a, owner, caps, expires)
           /\ uncounted' = IF signing THEN uncounted ELSE uncounted \cup {a}
    BY DEF register_agent
  <1>2. /\ Registry!RegistryTypeOK' /\ ~Registry!Exists(a) /\ Registry!Active(a)'
        /\ \A b \in AgentId \ {a} :
              /\ Registry!Exists(b)' <=> Registry!Exists(b)
              /\ Registry!Active(b)' <=> Registry!Active(b)
    BY <1>1, RegistersType DEF AgentsInv
  <1>3. /\ UNCHANGED <<cascading, closing, forsaken>>
        /\ registered_agents' = IF signing THEN registered_agents + 1 ELSE registered_agents
        /\ signing' = signing
    BY <1>1 DEF register_agent, Registry!register_agent, history
  <1>4. \A p : Owed(p)' = Owed(p)
    BY <1>3 DEF Owed
  <1>5. a \notin forsaken /\ \A p \in Deactivators : a \notin Owed(p)
    BY <1>2 DEF AgentsInv, OwedOnce
  <1>6. ~Registry!Active(a)
    BY <1>2 DEF Registry!Active
  <1>7. Counted' = Counted \cup {a} /\ a \notin Counted
    <2>1. {b \in AgentId : Registry!Active(b)}' = {b \in AgentId : Registry!Active(b)} \cup {a}
      BY <1>2, <1>6
    <2>2. (UNION {Owed(p) : p \in Deactivators})' = UNION {Owed(p) : p \in Deactivators}
      BY <1>4
    <2> QED BY <1>3, <1>5, <1>6, <2>1, <2>2 DEF Counted
  <1>8. Cardinality(Counted') = Cardinality(Counted) + 1 /\ Cardinality(Counted) \in Nat
    BY <1>7, CountedIs, FS_AddElement
  <1>9. OwedOnce'
    <2>1. ASSUME NEW p \in Deactivators, NEW b \in Owed(p)
          PROVE  Registry!Exists(b)' /\ ~Registry!Active(b)' /\ b \notin forsaken
      <3>1. b \in AgentId \ {a}
        BY <1>5, <2>1, OwedIs
      <3> QED BY <1>2, <2>1, <3>1 DEF AgentsInv, OwedOnce
    <2>2. ASSUME NEW b \in forsaken PROVE Registry!Exists(b)' /\ ~Registry!Active(b)'
      <3>1. b \in AgentId \ {a}
        BY <1>5, <2>2 DEF AgentsInv
      <3> QED BY <1>2, <2>2, <3>1 DEF AgentsInv, OwedOnce
    <2>3. ASSUME NEW p \in Deactivators
          PROVE  /\ cascading[p].running => closing[p] = {}
                 /\ ~cascading[p].running => cascading[p] = Registry!NoCascade
                 /\ \A q \in Deactivators \ {p} : Owed(p) \cap Owed(q) = {}
      BY <2>3 DEF AgentsInv, OwedOnce
    <2> QED BY <1>3, <1>4, <2>1, <2>2, <2>3 DEF OwedOnce
  <1>10. \A b \in AgentId : Registry!Exists(b) => Registry!Exists(b)'
    BY <1>2
  <1>11. /\ registered_agents' \in Int /\ signing' \in BOOLEAN
         /\ uncounted' \subseteq AgentId /\ GaugeCounts'
    <2>1. CASE signing
      <3>1. /\ UNCHANGED <<signing, uncounted>>
            /\ registered_agents' = registered_agents + 1 /\ registered_agents' \in Int
        BY <1>1, <1>3, <2>1 DEF AgentsInv
      <3>2. registered_agents' - registered_agents = Cardinality(Counted') - Cardinality(Counted)
        BY <1>8, <3>1 DEF AgentsInv
      <3>3. Cardinality(Counted') \in Nat
        BY <1>8
      <3> QED BY <1>10, <3>1, <3>2, <3>3, GaugeKept
    <2>2. CASE ~signing
      <3>1. /\ UNCHANGED registered_agents /\ uncounted' = uncounted \cup {a}
            /\ registered_agents \in Int /\ signing' \in BOOLEAN
        BY <1>1, <1>3, <2>2 DEF AgentsInv
      <3>2. a \notin uncounted
        BY <1>2 DEF AgentsInv, GaugeCounts
      <3>3. Cardinality(uncounted') = Cardinality(uncounted) + 1 /\ Cardinality(uncounted) \in Nat
        BY <3>1, <3>2, UncountedIs, FS_AddElement
      <3>4. registered_agents = Cardinality(Counted) - Cardinality(uncounted)
        BY DEF AgentsInv, GaugeCounts
      <3>5. registered_agents' = Cardinality(Counted') - Cardinality(uncounted')
        BY <1>8, <3>1, <3>3, <3>4
      <3>6. Registry!Exists(a)'
        BY <1>2 DEF Registry!Active
      <3>7. uncounted' \subseteq AgentId /\ \A b \in uncounted' : Registry!Exists(b)'
        BY <1>10, <3>1, <3>6 DEF AgentsInv, GaugeCounts
      <3> QED BY <3>1, <3>5, <3>7 DEF GaugeCounts
    <2> QED BY <2>1, <2>2
  <1> QED BY <1>2, <1>3, <1>7, <1>9, <1>11 DEF AgentsInv

(* A deactivation p goes on: it comes to c and k, and forsakes gone.       *)
LEMMA OwedStep ==
    ASSUME AgentsInv, NEW p \in Deactivators, NEW c \in Registry!Cascading,
           NEW k \in SUBSET AgentId, NEW gone \in SUBSET AgentId,
           cascading' = [cascading EXCEPT ![p] = c],
           closing' = [closing EXCEPT ![p] = k],
           forsaken' = forsaken \cup gone,
           UNCHANGED <<delegations, delegating>>,
           unwalked' \subseteq AgentId, missed' \subseteq AgentId,
           agents' \in [AgentId -> Registry!Agents \cup {Unregistered}],
           \A a \in AgentId : Registry!Exists(a)' <=> Registry!Exists(a),
           \A a \in AgentId : Registry!Active(a)' => Registry!Active(a),
           c.running => k = {},
           ~c.running => c = Registry!NoCascade,
           (c.deactivated \cup k) \cap gone = {},
           \A a \in c.deactivated \cup k \cup gone :
              /\ Registry!Exists(a) /\ ~Registry!Active(a)' /\ a \notin forsaken
              /\ \A q \in Deactivators \ {p} : a \notin Owed(q)
    PROVE  /\ Registry!RegistryTypeOK' /\ closing' \in [Deactivators -> SUBSET AgentId]
           /\ forsaken' \subseteq AgentId /\ OwedOnce'
           /\ Owed(p)' = c.deactivated \cup k
           /\ \A q \in Deactivators \ {p} : Owed(q)' = Owed(q)
  <1>1. /\ cascading' \in [Deactivators -> Registry!Cascading]
        /\ cascading'[p] = c /\ \A q \in Deactivators \ {p} : cascading'[q] = cascading[q]
    BY DEF AgentsInv, Registry!RegistryTypeOK
  <1>2. /\ closing' \in [Deactivators -> SUBSET AgentId]
        /\ closing'[p] = k /\ \A q \in Deactivators \ {p} : closing'[q] = closing[q]
    BY DEF AgentsInv
  <1>3. Registry!RegistryTypeOK' /\ forsaken' \subseteq AgentId
    BY <1>1 DEF AgentsInv, Registry!RegistryTypeOK
  <1>4. Owed(p)' = c.deactivated \cup k /\ \A q \in Deactivators \ {p} : Owed(q)' = Owed(q)
    BY <1>1, <1>2 DEF Owed
  <1>5. c.deactivated \cup k \in SUBSET AgentId
    BY DEF Registry!Cascading
  <1>6. ASSUME NEW q \in Deactivators
        PROVE  /\ cascading'[q].running => closing'[q] = {}
               /\ ~cascading'[q].running => cascading'[q] = Registry!NoCascade
    <2>1. CASE q = p
      BY <1>1, <1>2, <2>1
    <2>2. CASE q # p
      BY <1>1, <1>2, <2>2 DEF AgentsInv, OwedOnce
    <2> QED BY <2>1, <2>2
  <1>7. ASSUME NEW q \in Deactivators, NEW a \in Owed(q)'
        PROVE  Registry!Exists(a)' /\ ~Registry!Active(a)' /\ a \notin forsaken'
    <2>1. CASE q = p
      BY <1>4, <1>5, <1>7, <2>1
    <2>2. CASE q # p
      <3>1. a \in Owed(q) /\ a \in AgentId
        BY <1>4, <1>7, <2>2, OwedIs
      <3>2. Registry!Exists(a) /\ ~Registry!Active(a) /\ a \notin forsaken
        BY <3>1 DEF AgentsInv, OwedOnce
      <3>3. a \notin gone
        BY <2>2, <3>1
      <3> QED BY <3>1, <3>2, <3>3
    <2> QED BY <2>1, <2>2
  <1>8. ASSUME NEW q \in Deactivators, NEW o \in Deactivators \ {q}
        PROVE  Owed(q)' \cap Owed(o)' = {}
    <2>1. CASE q = p
      BY <1>4, <1>8, <2>1
    <2>2. CASE o = p
      BY <1>4, <1>8, <2>2
    <2>3. CASE q # p /\ o # p
      BY <1>4, <1>8, <2>3 DEF AgentsInv, OwedOnce
    <2> QED BY <2>1, <2>2, <2>3
  <1>9. ASSUME NEW a \in forsaken' PROVE Registry!Exists(a)' /\ ~Registry!Active(a)'
    <2>1. CASE a \in forsaken
      BY <2>1 DEF AgentsInv, OwedOnce
    <2>2. CASE a \in gone
      BY <2>2
    <2> QED BY <1>9, <2>1, <2>2
  <1>10. OwedOnce'
    BY <1>6, <1>7, <1>8, <1>9 DEF OwedOnce
  <1> QED BY <1>2, <1>3, <1>4, <1>10

(* ... and nobody leaves the count, if what is no longer active or owed is *)
(* owed or forsaken now.                                                   *)
LEMMA CountKept ==
    ASSUME AgentsInv, NEW p \in Deactivators, NEW owed \in SUBSET AgentId,
           NEW gone \in SUBSET AgentId,
           Owed(p)' = owed, \A q \in Deactivators \ {p} : Owed(q)' = Owed(q),
           forsaken' = forsaken \cup gone,
           \A a \in AgentId :
              Registry!Active(a)' \/ a \in owed \cup gone <=> Registry!Active(a) \/ a \in Owed(p)
    PROVE  Counted' = Counted
  <1>1. ASSUME NEW a
        PROVE  a \in Counted <=> \/ a \in AgentId /\ (Registry!Active(a) \/ a \in Owed(p))
                                 \/ a \in forsaken
                                 \/ \E q \in Deactivators \ {p} : a \in Owed(q)
    BY OwedIs DEF Counted
  <1>2. ASSUME NEW a
        PROVE  a \in Counted' <=> \/ a \in AgentId /\ (Registry!Active(a)' \/ a \in owed)
                                  \/ a \in forsaken \cup gone
                                  \/ \E q \in Deactivators \ {p} : a \in Owed(q)
    BY DEF Counted
  <1> QED BY <1>1, <1>2

(* A cascade that runs on: it owes what it has deactivated.                *)
LEMMA CascadeRuns ==
    ASSUME AgentsInv, NEW p \in Deactivators, NEW c \in Registry!Cascading, c.running,
           cascading' = [cascading EXCEPT ![p] = c], closing[p] = {},
           UNCHANGED <<closing, forsaken, registered_agents, delegations, delegating>>,
           UNCHANGED <<unwalked, missed, signing, uncounted>>,
           agents' \in [AgentId -> Registry!Agents \cup {Unregistered}],
           \A a \in AgentId : Registry!Exists(a)' <=> Registry!Exists(a),
           \A a \in AgentId : Registry!Active(a)' => Registry!Active(a),
           \A a \in AgentId :
              Registry!Active(a)' \/ a \in c.deactivated <=> Registry!Active(a) \/ a \in Owed(p),
           \A a \in c.deactivated :
              /\ Registry!Exists(a) /\ ~Registry!Active(a)' /\ a \notin forsaken
              /\ \A q \in Deactivators \ {p} : a \notin Owed(q)
    PROVE  AgentsInv' /\ Counted' = Counted
  <1>1. PICK k \in SUBSET AgentId, gone \in SUBSET AgentId : k = {} /\ gone = {}
    OBVIOUS
  <1>2. closing' = [closing EXCEPT ![p] = k] /\ forsaken' = forsaken \cup gone
    BY <1>1 DEF AgentsInv
  <1>3. PICK owed \in SUBSET AgentId : owed = c.deactivated
    BY DEF Registry!Cascading
  <1>4. c.deactivated \cup k = owed /\ c.deactivated \cup k \cup gone = owed
        /\ owed \cup gone = owed
    BY <1>1, <1>3
  <1>5. /\ Registry!RegistryTypeOK' /\ closing' \in [Deactivators -> SUBSET AgentId]
        /\ forsaken' \subseteq AgentId /\ OwedOnce'
        /\ Owed(p)' = owed /\ \A q \in Deactivators \ {p} : Owed(q)' = Owed(q)
    <2>1. (c.deactivated \cup k) \cap gone = {} /\ (c.running => k = {})
          /\ (~c.running => c = Registry!NoCascade)
      BY <1>1
    <2>2. \A a \in c.deactivated \cup k \cup gone :
             /\ Registry!Exists(a) /\ ~Registry!Active(a)' /\ a \notin forsaken
             /\ \A q \in Deactivators \ {p} : a \notin Owed(q)
      BY <1>3, <1>4
    <2>3. /\ UNCHANGED <<delegations, delegating>>
          /\ unwalked' \subseteq AgentId /\ missed' \subseteq AgentId
      BY DEF AgentsInv, Registry!RegistryTypeOK
    <2> QED BY <1>2, <1>4, <2>1, <2>2, <2>3, OwedStep
  <1>6. Counted' = Counted
    <2>1. \A a \in AgentId :
             Registry!Active(a)' \/ a \in owed \cup gone <=> Registry!Active(a) \/ a \in Owed(p)
      BY <1>3, <1>4
    <2> QED BY <1>2, <1>5, <2>1, CountKept
  <1>7. GaugeCounts'
    BY <1>6, GaugeStill
  <1> QED BY <1>5, <1>6, <1>7 DEF AgentsInv

LEMMA DeactivateStartAgents ==
    ASSUME AgentsInv, NEW p \in Deactivators, NEW id \in AgentId, deactivate_start(p, id)
    PROVE  AgentsInv' /\ Counted' = Counted
  <1> DEFINE c == [running |-> TRUE, to_process |-> {id}, children |-> {}, deactivated |-> {id}]
  <1>1. /\ closing[p] = {} /\ ~cascading[p].running /\ Registry!Active(id)
        /\ agents' = [agents EXCEPT ![id].active = FALSE]
        /\ cascading' = [cascading EXCEPT ![p] = c]
        /\ UNCHANGED <<closing, forsaken, registered_agents, delegations, delegating>>
        /\ UNCHANGED <<unwalked, missed, signing, uncounted>>
    BY DEF deactivate_start, Registry!cascade_start, Registry!dropped, handlerVars, history
  <1>2. c \in Registry!Cascading /\ c.running /\ c.deactivated = {id}
    BY DEF Registry!Cascading
  <1> HIDE DEF c
  <1>3. Owed(p) = {}
    BY <1>1 DEF AgentsInv, OwedOnce, Owed, Registry!NoCascade
  <1>4. Registry!Exists(id)
    BY <1>1 DEF Registry!Active
  <1>5. /\ agents' \in [AgentId -> Registry!Agents \cup {Unregistered}]
        /\ \A a \in AgentId : Registry!Exists(a)' <=> Registry!Exists(a)
        /\ \A a \in AgentId : Registry!Active(a)' <=> Registry!Active(a) /\ a # id
    BY <1>1, <1>4, Deactivates DEF AgentsInv
  <1>6. id \notin forsaken /\ \A q \in Deactivators : id \notin Owed(q)
    BY <1>1 DEF AgentsInv, OwedOnce
  <1>7. \A a \in AgentId :
           Registry!Active(a)' \/ a \in c.deactivated <=> Registry!Active(a) \/ a \in Owed(p)
    BY <1>1, <1>2, <1>3, <1>5
  <1>8. \A a \in c.deactivated :
           /\ Registry!Exists(a) /\ ~Registry!Active(a)' /\ a \notin forsaken
           /\ \A q \in Deactivators \ {p} : a \notin Owed(q)
    BY <1>2, <1>4, <1>5, <1>6
  <1> QED BY <1>1, <1>2, <1>5, <1>7, <1>8, CascadeRuns

LEMMA DeactivateStepAgents ==
    ASSUME AgentsInv, NEW p \in Deactivators, deactivate_step(p)
    PROVE  AgentsInv' /\ Counted' = Counted
  <1>1. /\ UNCHANGED <<closing, forsaken, registered_agents, delegations, delegating>>
        /\ UNCHANGED <<unwalked, missed, signing, uncounted>>
    BY DEF deactivate_step, handlerVars, history, Registry!cascade_pop, Registry!cascade_child,
           Registry!dropped
  <1>2. PICK old \in Registry!Cascading : old = cascading[p]
    BY OwedIs
  <1>3. old.running /\ closing[p] = {} /\ Owed(p) = old.deactivated
    <2>1. old.running
      BY <1>2 DEF deactivate_step, Registry!cascade_pop, Registry!cascade_child, AgentsInv,
                  OwedOnce, Registry!NoCascade, Registry!Cascading
    <2> QED BY <1>2, <2>1 DEF AgentsInv, OwedOnce, Owed
  <1>4. ASSUME NEW c \in Registry!Cascading, cascading' = [cascading EXCEPT ![p] = c],
               c.running, c.deactivated = old.deactivated, UNCHANGED agents
        PROVE  AgentsInv' /\ Counted' = Counted
    <2>1. /\ agents' \in [AgentId -> Registry!Agents \cup {Unregistered}]
          /\ \A a \in AgentId : Registry!Exists(a)' <=> Registry!Exists(a)
          /\ \A a \in AgentId : Registry!Active(a)' <=> Registry!Active(a)
      BY <1>4 DEF AgentsInv, Registry!RegistryTypeOK, Registry!Exists, Registry!Active
    <2>2. \A a \in Owed(p) :
             /\ Registry!Exists(a) /\ ~Registry!Active(a)' /\ a \notin forsaken
             /\ \A q \in Deactivators \ {p} : a \notin Owed(q)
      BY <2>1, OwedIs DEF AgentsInv, OwedOnce
    <2>3. c.deactivated = Owed(p)
      BY <1>3, <1>4
    <2> QED BY <1>1, <1>3, <1>4, <2>1, <2>2, <2>3, CascadeRuns, ZenonT(30)
  <1>5. ASSUME NEW a \in AgentId, Registry!cascade_pop(p, a)
        PROVE  AgentsInv' /\ Counted' = Counted
    <2>1. PICK below : below = {l.to : l \in {k \in Registry!Links : k.from = a}}
      OBVIOUS
    <2>2. below \in SUBSET AgentId
      <3>1. \A l \in Registry!Links : l \in Registry!DelegationLinks
        BY DEF AgentsInv, Registry!RegistryTypeOK, Registry!Links
      <3>2. \A l \in Registry!Links : l.to \in AgentId
        BY <3>1 DEF Registry!DelegationLinks
      <3> QED BY <2>1, <3>2
    <2> DEFINE c == [[old EXCEPT !.to_process = old.to_process \ {a}] EXCEPT !.children = below]
    <2>3. cascading' = [cascading EXCEPT ![p] = c] /\ UNCHANGED agents
      BY <1>2, <1>5, <2>1 DEF Registry!cascade_pop, AgentsInv, Registry!RegistryTypeOK
    <2>4. c \in Registry!Cascading /\ c.running /\ c.deactivated = old.deactivated
      BY <1>3, <2>2 DEF Registry!Cascading
    <2> HIDE DEF c
    <2> QED BY <1>4, <2>3, <2>4
  <1>6. ASSUME NEW a \in AgentId, Registry!cascade_child(p, a), ~Registry!Active(a)
        PROVE  AgentsInv' /\ Counted' = Counted
    <2> DEFINE c == [old EXCEPT !.children = old.children \ {a}]
    <2>1. cascading' = [cascading EXCEPT ![p] = c] /\ UNCHANGED agents
      BY <1>2, <1>6 DEF Registry!cascade_child, AgentsInv, Registry!RegistryTypeOK
    <2>2. c \in Registry!Cascading /\ c.running /\ c.deactivated = old.deactivated
      BY <1>3 DEF Registry!Cascading
    <2> HIDE DEF c
    <2> QED BY <1>4, <2>1, <2>2
  <1>7. ASSUME NEW a \in AgentId, Registry!cascade_child(p, a), Registry!Active(a)
        PROVE  AgentsInv' /\ Counted' = Counted
    <2> DEFINE c == [[[old EXCEPT !.children = old.children \ {a}]
                           EXCEPT !.to_process = old.to_process \cup {a}]
                           EXCEPT !.deactivated = old.deactivated \cup {a}]
    <2>1. /\ cascading' = [cascading EXCEPT ![p] = c]
          /\ agents' = [agents EXCEPT ![a].active = FALSE]
      BY <1>2, <1>7 DEF Registry!cascade_child, AgentsInv, Registry!RegistryTypeOK
    <2>2. c \in Registry!Cascading /\ c.running /\ c.deactivated = old.deactivated \cup {a}
      BY <1>3 DEF Registry!Cascading
    <2> HIDE DEF c
    <2>3. Registry!Exists(a)
      BY <1>7 DEF Registry!Active
    <2>4. /\ agents' \in [AgentId -> Registry!Agents \cup {Unregistered}]
          /\ \A b \in AgentId : Registry!Exists(b)' <=> Registry!Exists(b)
          /\ \A b \in AgentId : Registry!Active(b)' <=> Registry!Active(b) /\ b # a
      BY <2>1, <2>3, Deactivates DEF AgentsInv
    <2>5. a \notin forsaken /\ \A q \in Deactivators : a \notin Owed(q)
      BY <1>7 DEF AgentsInv, OwedOnce
    <2>6. c.deactivated = Owed(p) \cup {a}
      BY <1>3, <2>2
    <2>7. \A b \in c.deactivated :
             /\ Registry!Exists(b) /\ ~Registry!Active(b)' /\ b \notin forsaken
             /\ \A q \in Deactivators \ {p} : b \notin Owed(q)
      BY <2>3, <2>4, <2>5, <2>6, OwedIs DEF AgentsInv, OwedOnce
    <2>8. \A b \in AgentId :
             Registry!Active(b)' \/ b \in c.deactivated <=> Registry!Active(b) \/ b \in Owed(p)
      BY <1>7, <2>4, <2>6
    <2> QED BY <1>1, <1>3, <2>1, <2>2, <2>4, <2>7, <2>8, CascadeRuns
  <1> QED BY <1>5, <1>6, <1>7 DEF deactivate_step

(* A deactivation past its cascade: nothing happens to the agents.         *)
LEMMA CascadeOver ==
    ASSUME AgentsInv, NEW p \in Deactivators, NEW k \in SUBSET AgentId, NEW gone \in SUBSET AgentId,
           cascading' = [cascading EXCEPT ![p] = Registry!NoCascade],
           closing' = [closing EXCEPT ![p] = k], forsaken' = forsaken \cup gone,
           UNCHANGED <<agents, delegations, delegating>>,
           unwalked' \subseteq AgentId, missed' \subseteq AgentId,
           k \cup gone \subseteq Owed(p), k \cap gone = {}
    PROVE  /\ Registry!RegistryTypeOK' /\ closing' \in [Deactivators -> SUBSET AgentId]
           /\ forsaken' \subseteq AgentId /\ OwedOnce'
           /\ Owed(p)' = k /\ \A q \in Deactivators \ {p} : Owed(q)' = Owed(q)
           /\ \A a \in AgentId : Registry!Active(a)' <=> Registry!Active(a)
           /\ \A a \in AgentId : Registry!Exists(a)' <=> Registry!Exists(a)
  <1>1. /\ Registry!NoCascade \in Registry!Cascading
        /\ Registry!NoCascade.deactivated = {} /\ ~Registry!NoCascade.running
    BY DEF Registry!NoCascade, Registry!Cascading
  <1>2. /\ agents' \in [AgentId -> Registry!Agents \cup {Unregistered}]
        /\ \A a \in AgentId : Registry!Exists(a)' <=> Registry!Exists(a)
        /\ \A a \in AgentId : Registry!Active(a)' <=> Registry!Active(a)
    BY DEF AgentsInv, Registry!RegistryTypeOK, Registry!Exists, Registry!Active
  <1>3. \A a \in Owed(p) :
           /\ Registry!Exists(a) /\ ~Registry!Active(a)' /\ a \notin forsaken
           /\ \A q \in Deactivators \ {p} : a \notin Owed(q)
    BY <1>2, OwedIs DEF AgentsInv, OwedOnce
  <1>4. /\ Registry!NoCascade.deactivated \cup k = k
        /\ Registry!NoCascade.deactivated \cup k \cup gone = k \cup gone
    BY <1>1
  <1>5. \A a \in Registry!NoCascade.deactivated \cup k \cup gone :
           /\ Registry!Exists(a) /\ ~Registry!Active(a)' /\ a \notin forsaken
           /\ \A q \in Deactivators \ {p} : a \notin Owed(q)
    BY <1>3, <1>4
  <1>6. (Registry!NoCascade.deactivated \cup k) \cap gone = {} /\ UNCHANGED <<delegations, delegating>>
    BY <1>1
  <1> QED BY <1>1, <1>2, <1>4, <1>5, <1>6, OwedStep, ZenonT(30)

LEMMA DeactivateCascadedAgents ==
    ASSUME AgentsInv, NEW p \in Deactivators, deactivate_cascaded(p)
    PROVE  AgentsInv' /\ Counted' = Counted
  <1>1. PICK k \in SUBSET AgentId, gone \in SUBSET AgentId :
           k = cascading[p].deactivated /\ gone = {}
    BY OwedIs
  <1>2. /\ cascading' = [cascading EXCEPT ![p] = Registry!NoCascade]
        /\ closing' = [closing EXCEPT ![p] = k] /\ forsaken' = forsaken \cup gone
        /\ UNCHANGED <<agents, delegations, delegating, registered_agents, signing, uncounted>>
        /\ unwalked' \subseteq AgentId /\ missed' \subseteq AgentId
        /\ cascading[p].running
    BY <1>1 DEF deactivate_cascaded, Registry!cascade_return, Registry!CascadeDone,
                Registry!dropped, history, AgentsInv, Registry!RegistryTypeOK
  <1>3. Owed(p) = k
    BY <1>1, <1>2 DEF AgentsInv, OwedOnce, Owed
  <1>4. k \cup gone \subseteq Owed(p) /\ k \cap gone = {}
    BY <1>1, <1>3
  <1>5. /\ Registry!RegistryTypeOK' /\ closing' \in [Deactivators -> SUBSET AgentId]
        /\ forsaken' \subseteq AgentId /\ OwedOnce'
        /\ Owed(p)' = k /\ \A q \in Deactivators \ {p} : Owed(q)' = Owed(q)
        /\ \A a \in AgentId : Registry!Active(a)' <=> Registry!Active(a)
        /\ \A a \in AgentId : Registry!Exists(a)' <=> Registry!Exists(a)
    BY <1>2, <1>4, CascadeOver
  <1>6. Counted' = Counted
    <2>1. \A a \in AgentId :
             Registry!Active(a)' \/ a \in k \cup gone <=> Registry!Active(a) \/ a \in Owed(p)
      BY <1>1, <1>3, <1>5
    <2> QED BY <1>2, <1>5, <2>1, CountKept
  <1>7. /\ registered_agents' \in Int /\ signing' \in BOOLEAN
        /\ uncounted' \subseteq AgentId /\ GaugeCounts'
    BY <1>2, <1>5, <1>6, GaugeStill
  <1> QED BY <1>5, <1>6, <1>7 DEF AgentsInv

(* The dropped deactivation's agents stay counted: they are forsaken.      *)
LEMMA DeactivateDroppedAgents ==
    ASSUME AgentsInv, NEW p \in Deactivators, deactivate_dropped(p)
    PROVE  AgentsInv' /\ Counted' = Counted
  <1>1. PICK k \in SUBSET AgentId, gone \in SUBSET AgentId : k = {} /\ gone = Owed(p)
    BY OwedIs
  <1>2. /\ cascading' = [cascading EXCEPT ![p] = Registry!NoCascade]
        /\ closing' = [closing EXCEPT ![p] = k] /\ forsaken' = forsaken \cup gone
        /\ UNCHANGED <<agents, delegations, delegating, registered_agents, signing, uncounted>>
        /\ unwalked' \subseteq AgentId /\ missed' \subseteq AgentId
    <2>1. /\ closing' = [closing EXCEPT ![p] = k] /\ forsaken' = forsaken \cup gone
          /\ UNCHANGED <<registered_agents, signing, uncounted>>
      BY <1>1 DEF deactivate_dropped, Owed
    <2>2. CASE Registry!cascade_dropped(p)
      <3>1. cascading[p].to_process \in SUBSET AgentId /\ cascading[p].children \in SUBSET AgentId
        BY OwedIs DEF Registry!Cascading
      <3> QED BY <2>1, <2>2, <3>1 DEF Registry!cascade_dropped, AgentsInv, Registry!RegistryTypeOK
    <2>3. CASE ~cascading[p].running /\ UNCHANGED registryVars
      <3>1. cascading[p] = Registry!NoCascade
        BY <2>3 DEF AgentsInv, OwedOnce
      <3>2. cascading = [cascading EXCEPT ![p] = Registry!NoCascade]
        BY <3>1 DEF AgentsInv, Registry!RegistryTypeOK
      <3> QED BY <2>1, <2>3, <3>2 DEF registryVars, AgentsInv, Registry!RegistryTypeOK
    <2> QED BY <2>2, <2>3 DEF deactivate_dropped
  <1>3. k \cup gone \subseteq Owed(p) /\ k \cap gone = {}
    BY <1>1
  <1>4. /\ Registry!RegistryTypeOK' /\ closing' \in [Deactivators -> SUBSET AgentId]
        /\ forsaken' \subseteq AgentId /\ OwedOnce'
        /\ Owed(p)' = k /\ \A q \in Deactivators \ {p} : Owed(q)' = Owed(q)
        /\ \A a \in AgentId : Registry!Active(a)' <=> Registry!Active(a)
        /\ \A a \in AgentId : Registry!Exists(a)' <=> Registry!Exists(a)
    BY <1>2, <1>3, CascadeOver
  <1>5. Counted' = Counted
    <2>1. \A a \in AgentId :
             Registry!Active(a)' \/ a \in k \cup gone <=> Registry!Active(a) \/ a \in Owed(p)
      BY <1>1, <1>4
    <2> QED BY <1>2, <1>4, <2>1, CountKept
  <1>6. /\ registered_agents' \in Int /\ signing' \in BOOLEAN
        /\ uncounted' \subseteq AgentId /\ GaugeCounts'
    BY <1>2, <1>4, <1>5, GaugeStill
  <1> QED BY <1>4, <1>5, <1>6 DEF AgentsInv

(* An agent whose sessions have been closed leaves the count: nobody else  *)
(* owes it.                                                                *)
LEMMA DeactivateCloseAgents ==
    ASSUME AgentsInv, NEW p \in Deactivators, NEW id \in AgentId, deactivate_close(p, id)
    PROVE  AgentsInv' /\ Counted' = Counted \ {id}
  <1>1. /\ id \in closing[p] /\ closing' = [closing EXCEPT ![p] = closing[p] \ {id}]
        /\ registered_agents' = registered_agents - 1
        /\ UNCHANGED <<agents, delegations, delegating, cascading, forsaken>>
        /\ UNCHANGED <<unwalked, missed, signing, uncounted>>
    BY DEF deactivate_close, registryVars, history
  <1>2. cascading[p] = Registry!NoCascade
    BY <1>1 DEF AgentsInv, OwedOnce
  <1>3. PICK k \in SUBSET AgentId, gone \in SUBSET AgentId : k = closing[p] \ {id} /\ gone = {}
    BY OwedIs
  <1>4. Owed(p) = closing[p] /\ id \in Owed(p) /\ k = Owed(p) \ {id}
    BY <1>1, <1>2, <1>3 DEF Owed, Registry!NoCascade
  <1>5. /\ cascading' = [cascading EXCEPT ![p] = Registry!NoCascade]
        /\ closing' = [closing EXCEPT ![p] = k] /\ forsaken' = forsaken \cup gone
        /\ UNCHANGED <<agents, delegations, delegating>>
        /\ unwalked' \subseteq AgentId /\ missed' \subseteq AgentId
    <2>1. cascading = [cascading EXCEPT ![p] = Registry!NoCascade]
      BY <1>2 DEF AgentsInv, Registry!RegistryTypeOK
    <2>2. unwalked' \subseteq AgentId /\ missed' \subseteq AgentId
      BY <1>1 DEF AgentsInv, Registry!RegistryTypeOK
    <2> QED BY <1>1, <1>3, <2>1, <2>2
  <1>6. k \cup gone \subseteq Owed(p) /\ k \cap gone = {}
    BY <1>3, <1>4
  <1>7. /\ Registry!RegistryTypeOK' /\ closing' \in [Deactivators -> SUBSET AgentId]
        /\ forsaken' \subseteq AgentId /\ OwedOnce'
        /\ Owed(p)' = k /\ \A q \in Deactivators \ {p} : Owed(q)' = Owed(q)
        /\ \A a \in AgentId : Registry!Active(a)' <=> Registry!Active(a)
        /\ \A a \in AgentId : Registry!Exists(a)' <=> Registry!Exists(a)
    BY <1>5, <1>6, CascadeOver
  <1>8. ~Registry!Active(id) /\ id \notin forsaken /\ \A q \in Deactivators \ {p} : id \notin Owed(q)
    BY <1>4 DEF AgentsInv, OwedOnce
  <1>9. Counted' = Counted \ {id} /\ id \in Counted
    <2>1. ASSUME NEW a
          PROVE  a \in Counted <=> \/ a \in AgentId /\ Registry!Active(a)
                                   \/ a \in Owed(p) \/ a \in forsaken
                                   \/ \E q \in Deactivators \ {p} : a \in Owed(q)
      BY DEF Counted
    <2>2. ASSUME NEW a
          PROVE  a \in Counted' <=> \/ a \in AgentId /\ Registry!Active(a)
                                    \/ a \in k \/ a \in forsaken
                                    \/ \E q \in Deactivators \ {p} : a \in Owed(q)
      BY <1>1, <1>7 DEF Counted
    <2> QED BY <1>4, <1>8, <2>1, <2>2
  <1>10. /\ registered_agents' \in Int /\ signing' \in BOOLEAN
         /\ uncounted' \subseteq AgentId /\ GaugeCounts'
    <2>1. /\ Cardinality(Counted \ {id}) = Cardinality(Counted) - 1
          /\ Cardinality(Counted) \in Nat /\ IsFiniteSet(Counted \ {id})
      BY <1>9, CountedIs, FS_RemoveElement
    <2>2. Cardinality(Counted') \in Nat
      BY <1>9, <2>1, FS_CardinalityType
    <2>3. registered_agents \in Int /\ registered_agents' \in Int
      BY <1>1 DEF AgentsInv
    <2>4. registered_agents' - registered_agents = Cardinality(Counted') - Cardinality(Counted)
      BY <1>1, <1>9, <2>1, <2>3
    <2> QED BY <1>1, <1>7, <2>2, <2>3, <2>4, GaugeKept
  <1> QED BY <1>7, <1>9, <1>10 DEF AgentsInv

-----------------------------------------------------------------------------
(* Which sessions there are.                                               *)

LEMMA SessionIs ==
    ASSUME Store!TypeOK, NEW s \in SessionId, sessions[s] # NoSession
    PROVE  sessions[s] \in Store!TaskSessions /\ sessions[s].agent_id \in AgentId
  <1>1. sessions[s] \in Store!TaskSessions
    BY DEF Store!TypeOK
  <1> QED BY <1>1 DEF Store!TaskSessions

LEMMA CapSets ==
    ASSUME NEW a
    PROVE  /\ Store!ActiveOf(a) \subseteq SessionId /\ PastCap(a) \subseteq Creators
           /\ IsFiniteSet(Store!ActiveOf(a)) /\ IsFiniteSet(PastCap(a))
           /\ count_active_for_agent(a) = Cardinality(Store!ActiveOf(a))
           /\ count_active_for_agent(a) \in Nat /\ Cardinality(PastCap(a)) \in Nat
           /\ Cardinality(PastCap(a)) <= Cardinality(Creators)
           /\ Cardinality(Creators) \in Nat \ {0} /\ MaxSessions \in Nat
  <1>1. Store!ActiveOf(a) \subseteq SessionId /\ PastCap(a) \subseteq Creators
    BY DEF Store!ActiveOf, Store!Live, PastCap
  <1>2. IsFiniteSet(Store!ActiveOf(a)) /\ IsFiniteSet(PastCap(a))
    BY <1>1, LifecycleAssumption, FS_Subset
  <1>3. Cardinality(PastCap(a)) <= Cardinality(Creators)
    BY <1>1, LifecycleAssumption, FS_Subset
  <1>4. Cardinality(Creators) \in Nat \ {0}
    BY LifecycleAssumption, FS_EmptySet, FS_CardinalityType
  <1>5. Cardinality(Store!ActiveOf(a)) \in Nat /\ Cardinality(PastCap(a)) \in Nat
    BY <1>2, FS_CardinalityType
  <1> QED BY <1>1, <1>2, <1>3, <1>4, <1>5, LifecycleAssumption DEF count_active_for_agent

(* No agent gets more sessions, or more requests past the cap.             *)
LEMMA CapKept ==
    ASSUME CapOvershootBounded,
           \A a \in AgentId : Store!ActiveOf(a)' \subseteq Store!ActiveOf(a)
                              /\ PastCap(a)' \subseteq PastCap(a)
    PROVE  CapOvershootBounded'
  <1> SUFFICES ASSUME NEW a \in AgentId
               PROVE  count_active_for_agent(a)' + Cardinality(PastCap(a)')
                         <= MaxSessions + Cardinality(Creators) - 1
    BY DEF CapOvershootBounded
  <1>1. /\ Cardinality(Store!ActiveOf(a)') <= Cardinality(Store!ActiveOf(a))
        /\ Cardinality(Store!ActiveOf(a)') \in Nat
    BY CapSets, FS_Subset, FS_CardinalityType
  <1>2. /\ Cardinality(PastCap(a)') <= Cardinality(PastCap(a))
        /\ Cardinality(PastCap(a)') \in Nat
    BY CapSets, FS_Subset, FS_CardinalityType
  <1>3. count_active_for_agent(a)' = Cardinality(Store!ActiveOf(a)')
    BY DEF count_active_for_agent
  <1>4. count_active_for_agent(a) + Cardinality(PastCap(a)) <= MaxSessions + Cardinality(Creators) - 1
    BY DEF CapOvershootBounded
  <1> QED BY <1>1, <1>2, <1>3, <1>4, CapSets

(* Sessions end or stay as they are.                                       *)
LEMMA SessionsEnd ==
    ASSUME SessionsInv, UNCHANGED <<created, granted, creating, ghosts>>, now' \in Nat,
           sessions' \in [SessionId -> Store!TaskSessions \cup {NoSession}],
           \A s \in SessionId :
              \/ sessions'[s] = sessions[s] \/ sessions'[s] = NoSession
              \/ sessions'[s].status # "Active"
    PROVE  /\ SessionsInv'
           /\ \A s \in Store!Live' : sessions'[s].status = "Active"
                                     => s \in Store!Live /\ sessions'[s] = sessions[s]
  <1>1. Store!TypeOK'
    BY DEF SessionsInv, Store!TypeOK
  <1>2. \A s \in Store!Live' : sessions'[s].status = "Active"
                               => s \in Store!Live /\ sessions'[s] = sessions[s]
    BY DEF Store!Live
  <1>3. \A a \in AgentId : Store!ActiveOf(a)' \subseteq Store!ActiveOf(a)
    BY <1>2 DEF Store!ActiveOf
  <1>4. \A a \in AgentId : PastCap(a)' \subseteq PastCap(a)
    BY DEF PastCap
  <1>5. CapOvershootBounded'
    BY <1>3, <1>4, CapKept DEF SessionsInv
  <1> QED BY <1>1, <1>2, <1>5 DEF SessionsInv

LEMMA SessionsStill ==
    ASSUME SessionsInv, UNCHANGED <<sessions, created, granted, creating, ghosts>>, now' \in Nat
    PROVE  /\ SessionsInv'
           /\ \A s \in Store!Live' : sessions'[s].status = "Active"
                                     => s \in Store!Live /\ sessions'[s] = sessions[s]
  <1>1. sessions' \in [SessionId -> Store!TaskSessions \cup {NoSession}]
    BY DEF SessionsInv, Store!TypeOK
  <1> QED BY <1>1, SessionsEnd

(* A session of an agent whose sessions are closed is not Active after.    *)
LEMMA CloseAllSessions ==
    ASSUME SessionsInv, NEW a \in AgentId, Store!close_sessions_for_agent(a),
           UNCHANGED <<creating, ghosts>>
    PROVE  /\ SessionsInv'
           /\ \A s \in Store!Live' : sessions'[s].status = "Active"
                 => s \in Store!Live /\ sessions'[s] = sessions[s] /\ sessions[s].agent_id # a
  <1>1. /\ UNCHANGED <<now, created, granted>>
        /\ sessions' = [s \in SessionId |-> IF s \in Store!ActiveOf(a)
                                            THEN [sessions[s] EXCEPT !.status = "Closed"]
                                            ELSE sessions[s]]
    BY DEF Store!close_sessions_for_agent
  <1>2. ASSUME NEW s \in SessionId
        PROVE  /\ sessions'[s] \in Store!TaskSessions \cup {NoSession}
               /\ \/ sessions'[s] = sessions[s] /\ s \notin Store!ActiveOf(a)
                  \/ sessions'[s].status # "Active"
    <2>1. CASE s \in Store!ActiveOf(a)
      <3>1. sessions[s] \in Store!TaskSessions
        BY <2>1, SessionIs DEF Store!ActiveOf, Store!Live, SessionsInv
      <3>2. sessions'[s] = [sessions[s] EXCEPT !.status = "Closed"]
        BY <1>1, <2>1
      <3> QED BY <3>1, <3>2 DEF Store!TaskSessions, Store!SessionStatus
    <2>2. CASE s \notin Store!ActiveOf(a)
      BY <1>1, <2>2 DEF SessionsInv, Store!TypeOK
    <2> QED BY <2>1, <2>2
  <1>3. sessions' \in [SessionId -> Store!TaskSessions \cup {NoSession}] /\ now' \in Nat
    BY <1>1, <1>2 DEF SessionsInv, Store!TypeOK
  <1>4. /\ SessionsInv'
        /\ \A s \in Store!Live' : sessions'[s].status = "Active"
                                  => s \in Store!Live /\ sessions'[s] = sessions[s]
    BY <1>1, <1>2, <1>3, SessionsEnd
  <1> QED BY <1>2, <1>4 DEF Store!ActiveOf, Store!Live

(* close, by whoever, and the cleanup task.                                *)
LEMMA CloseSessions ==
    ASSUME SessionsInv, NEW s \in SessionId, Store!close(s), UNCHANGED <<creating, ghosts>>
    PROVE  /\ SessionsInv'
           /\ \A x \in Store!Live' : sessions'[x].status = "Active"
                                     => x \in Store!Live /\ sessions'[x] = sessions[x]
  <1>1. PICK old \in Store!TaskSessions : old = sessions[s]
    BY SessionIs DEF Store!close, SessionsInv
  <1> DEFINE new == [old EXCEPT !.status = "Closed"]
  <1>2. new \in Store!TaskSessions /\ new.status # "Active"
    BY DEF Store!TaskSessions, Store!SessionStatus
  <1>3. sessions' = [sessions EXCEPT ![s] = new] /\ UNCHANGED <<now, created, granted>>
    BY <1>1 DEF Store!close
  <1> HIDE DEF new
  <1>4. /\ sessions' \in [SessionId -> Store!TaskSessions \cup {NoSession}] /\ now' \in Nat
        /\ sessions'[s] = new /\ \A x \in SessionId \ {s} : sessions'[x] = sessions[x]
    BY <1>2, <1>3 DEF SessionsInv, Store!TypeOK
  <1> QED BY <1>2, <1>3, <1>4, SessionsEnd

LEMMA CleanupSessions ==
    ASSUME SessionsInv, Store!cleanup_expired, UNCHANGED <<creating, ghosts>>
    PROVE  /\ SessionsInv'
           /\ \A x \in Store!Live' : sessions'[x].status = "Active"
                                     => x \in Store!Live /\ sessions'[x] = sessions[x]
  <1>1. /\ UNCHANGED <<now, created, granted>>
        /\ sessions' = [s \in SessionId |-> IF Store!Stale(s) THEN NoSession ELSE sessions[s]]
    BY DEF Store!cleanup_expired
  <1>2. /\ sessions' \in [SessionId -> Store!TaskSessions \cup {NoSession}] /\ now' \in Nat
        /\ \A s \in SessionId : sessions'[s] = sessions[s] \/ sessions'[s] = NoSession
    BY <1>1 DEF SessionsInv, Store!TypeOK
  <1> QED BY <1>1, <1>2, SessionsEnd

(* Where create_session stands.                                            *)
Creating == {NotCreating} \cup [step: {"agent_ok", "under_cap"}, req: Requests]

LEMMA CreatingIs ==
    ASSUME SessionsInv, NEW p \in Creators
    PROVE  /\ creating \in [Creators -> Creating] /\ creating[p] \in Creating
           /\ creating[p].step # "idle" =>
                 /\ creating[p] \in [step: {"agent_ok", "under_cap"}, req: Requests]
                 /\ creating[p].req \in Requests
                 /\ creating[p].req \in Store!CreateSessionRequest
                 /\ creating[p].req.agent_id \in AgentId
  <1>1. creating \in [Creators -> Creating] /\ creating[p] \in Creating
    BY DEF SessionsInv, Creating
  <1>2. ASSUME creating[p].step # "idle"
        PROVE  /\ creating[p] \in [step: {"agent_ok", "under_cap"}, req: Requests]
               /\ creating[p].req \in Requests
    BY <1>1, <1>2 DEF Creating, NotCreating
  <1>3. ASSUME NEW req \in Requests
        PROVE  req \in Store!CreateSessionRequest /\ req.agent_id \in AgentId
    BY LifecycleAssumption DEF Store!CreateSessionRequest
  <1> QED BY <1>1, <1>2, <1>3

(* The requests past the cap change, the sessions do not.                  *)
LEMMA CreatingStep ==
    ASSUME SessionsInv, NEW p \in Creators, NEW c \in Creating,
           creating' = [creating EXCEPT ![p] = c], UNCHANGED <<storeVars, ghosts>>,
           c.step = "under_cap" => count_active_for_agent(c.req.agent_id) < MaxSessions
    PROVE  /\ SessionsInv'
           /\ \A x \in Store!Live' : sessions'[x].status = "Active"
                                     => x \in Store!Live /\ sessions'[x] = sessions[x]
  <1>1. UNCHANGED <<now, sessions, created, granted, ghosts>>
    BY DEF storeVars
  <1>2. /\ creating' \in [Creators -> Creating] /\ creating'[p] = c
        /\ \A q \in Creators \ {p} : creating'[q] = creating[q]
    BY CreatingIs
  <1>3. Store!TypeOK'
    BY <1>1 DEF SessionsInv, Store!TypeOK
  <1>4. ASSUME NEW a \in AgentId
        PROVE  count_active_for_agent(a)' + Cardinality(PastCap(a)')
                  <= MaxSessions + Cardinality(Creators) - 1
    <2>1. count_active_for_agent(a)' = count_active_for_agent(a)
      BY <1>1 DEF count_active_for_agent, Store!ActiveOf, Store!Live
    <2>2. PastCap(a)' \subseteq Creators
      BY DEF PastCap
    <2>3. CASE c.step = "under_cap" /\ c.req.agent_id = a
      <3>1. count_active_for_agent(a) < MaxSessions
        BY <2>3
      <3>2. Cardinality(PastCap(a)') <= Cardinality(Creators) /\ Cardinality(PastCap(a)') \in Nat
        BY <2>2, LifecycleAssumption, FS_Subset, FS_CardinalityType
      <3> QED BY <2>1, <3>1, <3>2, CapSets
    <2>4. CASE ~(c.step = "under_cap" /\ c.req.agent_id = a)
      <3>1. PastCap(a)' \subseteq PastCap(a)
        BY <1>2, <2>4 DEF PastCap
      <3>2. Cardinality(PastCap(a)') <= Cardinality(PastCap(a)) /\ Cardinality(PastCap(a)') \in Nat
        BY <3>1, CapSets, FS_Subset, FS_CardinalityType
      <3>3. count_active_for_agent(a) + Cardinality(PastCap(a))
               <= MaxSessions + Cardinality(Creators) - 1
        BY DEF SessionsInv, CapOvershootBounded
      <3> QED BY <2>1, <3>2, <3>3, CapSets
    <2> QED BY <2>3, <2>4
  <1>5. CapOvershootBounded'
    BY <1>4 DEF CapOvershootBounded
  <1>6. \A x \in Store!Live' : sessions'[x].status = "Active"
                               => x \in Store!Live /\ sessions'[x] = sessions[x]
    BY <1>1 DEF Store!Live
  <1> QED BY <1>1, <1>2, <1>3, <1>5, <1>6 DEF SessionsInv, Creating

LEMMA GetAgentSessions ==
    ASSUME SessionsInv, NEW p \in Creators, NEW req \in Requests, create_session_get_agent(p, req)
    PROVE  /\ SessionsInv'
           /\ \A x \in Store!Live' : sessions'[x].status = "Active"
                                     => x \in Store!Live /\ sessions'[x] = sessions[x]
  <1> DEFINE c == [step |-> "agent_ok", req |-> req]
  <1>1. c \in Creating /\ c.step # "under_cap"
    BY DEF Creating
  <1>2. creating' = [creating EXCEPT ![p] = c] /\ UNCHANGED <<storeVars, ghosts>>
    BY DEF create_session_get_agent, history
  <1> HIDE DEF c
  <1> QED BY <1>1, <1>2, CreatingStep

LEMMA CountSessions ==
    ASSUME SessionsInv, NEW p \in Creators, create_session_count(p)
    PROVE  /\ SessionsInv'
           /\ \A x \in Store!Live' : sessions'[x].status = "Active"
                                     => x \in Store!Live /\ sessions'[x] = sessions[x]
  <1>1. PICK old \in Creating : old = creating[p]
    BY CreatingIs
  <1>2. /\ old.step = "agent_ok" /\ UNCHANGED <<storeVars, ghosts>>
        /\ old \in [step: {"agent_ok", "under_cap"}, req: Requests]
        /\ old.req.agent_id \in AgentId
    BY <1>1, CreatingIs DEF create_session_count, history
  <1>3. CASE count_active_for_agent(old.req.agent_id) >= MaxSessions
    <2>1. NotCreating \in Creating /\ NotCreating.step # "under_cap"
      BY DEF Creating, NotCreating
    <2>2. creating' = [creating EXCEPT ![p] = NotCreating]
      BY <1>1, <1>3 DEF create_session_count
    <2> QED BY <1>2, <2>1, <2>2, CreatingStep
  <1>4. CASE ~(count_active_for_agent(old.req.agent_id) >= MaxSessions)
    <2> DEFINE c == [old EXCEPT !.step = "under_cap"]
    <2>1. c \in Creating /\ c.req = old.req
      BY <1>2 DEF Creating
    <2>2. creating' = [creating EXCEPT ![p] = c]
      BY <1>1, <1>4 DEF create_session_count
    <2> HIDE DEF c
    <2>3. count_active_for_agent(c.req.agent_id) < MaxSessions
      BY <1>4, <2>1, CapSets
    <2> QED BY <1>2, <2>1, <2>2, <2>3, CreatingStep
  <1> QED BY <1>3, <1>4

LEMMA DroppedSessions ==
    ASSUME SessionsInv, NEW p \in Creators, create_session_dropped(p)
    PROVE  /\ SessionsInv'
           /\ \A x \in Store!Live' : sessions'[x].status = "Active"
                                     => x \in Store!Live /\ sessions'[x] = sessions[x]
  <1>1. NotCreating \in Creating /\ NotCreating.step # "under_cap"
    BY DEF Creating, NotCreating
  <1>2. creating' = [creating EXCEPT ![p] = NotCreating] /\ UNCHANGED <<storeVars, ghosts>>
    BY DEF create_session_dropped, history
  <1> QED BY <1>1, <1>2, CreatingStep

(* One session more, one request past the cap less.                        *)
LEMMA InsertSessions ==
    ASSUME SessionsInv, NEW p \in Creators, NEW s \in SessionId, create_session_insert(p, s)
    PROVE  /\ SessionsInv'
           /\ sessions'[s].agent_id = creating[p].req.agent_id
           /\ creating[p].req.agent_id \in AgentId
           /\ \A x \in Store!Live' \ {s} : x \in Store!Live /\ sessions'[x] = sessions[x]
  <1>1. PICK req \in Requests : req = creating[p].req
    BY CreatingIs DEF create_session_insert
  <1>2. req \in Store!CreateSessionRequest /\ req.agent_id \in AgentId /\ req.time_limit \in Nat
        /\ creating[p].step = "under_cap"
    BY <1>1, LifecycleAssumption DEF Store!CreateSessionRequest, create_session_insert
  <1>3. PICK limit \in Nat : limit = IF req.time_limit < 1 THEN 1 ELSE req.time_limit
    BY <1>2
  <1>4. PICK ses : ses = Store!NewSession(req, limit, now)
    OBVIOUS
  <1>5. ses \in Store!TaskSessions /\ ses.agent_id = req.agent_id /\ ses.status = "Active"
    <2>1. now \in Nat
      BY DEF SessionsInv, Store!TypeOK
    <2> QED BY <1>2, <1>4, <2>1 DEF Store!NewSession, Store!TaskSessions, Store!SessionStatus,
                                    Store!CreateSessionRequest, Store!NoLimit
  <1>6. /\ created' = [created EXCEPT ![s] = req] /\ sessions' = [sessions EXCEPT ![s] = ses]
        /\ UNCHANGED <<now, granted>> /\ creating' = [creating EXCEPT ![p] = NotCreating]
        /\ ghosts' \subseteq ghosts \cup {s}
    BY <1>1, <1>3, <1>4 DEF create_session_insert, Store!create, Store!Insert
  <1>7. /\ sessions' \in [SessionId -> Store!TaskSessions \cup {NoSession}]
        /\ sessions'[s] = ses /\ \A x \in SessionId \ {s} : sessions'[x] = sessions[x]
    BY <1>5, <1>6 DEF SessionsInv, Store!TypeOK
  <1>8. Store!TypeOK'
    <2>1. created' \in [SessionId -> Store!CreateSessionRequest \cup {NoRequest}]
      BY <1>2, <1>6 DEF SessionsInv, Store!TypeOK
    <2> QED BY <1>6, <1>7, <2>1 DEF SessionsInv, Store!TypeOK
  <1>9. /\ creating' \in [Creators -> Creating] /\ creating'[p] = NotCreating
        /\ \A q \in Creators \ {p} : creating'[q] = creating[q]
    <2>1. NotCreating \in Creating
      BY DEF Creating
    <2> QED BY <1>6, <2>1, CreatingIs
  <1>10. NotCreating.step # "under_cap"
    BY DEF NotCreating
  <1>11. ASSUME NEW a \in AgentId
         PROVE  count_active_for_agent(a)' + Cardinality(PastCap(a)')
                   <= MaxSessions + Cardinality(Creators) - 1
    <2>1. count_active_for_agent(a)' = Cardinality(Store!ActiveOf(a)')
      BY DEF count_active_for_agent
    <2>2. count_active_for_agent(a) + Cardinality(PastCap(a))
             <= MaxSessions + Cardinality(Creators) - 1
      BY DEF SessionsInv, CapOvershootBounded
    <2>3. CASE a = req.agent_id
      <3>1. Store!ActiveOf(a)' \subseteq Store!ActiveOf(a) \cup {s}
        BY <1>7 DEF Store!ActiveOf, Store!Live
      <3>2. IsFiniteSet(Store!ActiveOf(a) \cup {s})
            /\ Cardinality(Store!ActiveOf(a) \cup {s}) <= Cardinality(Store!ActiveOf(a)) + 1
            /\ Cardinality(Store!ActiveOf(a) \cup {s}) \in Nat
        <4>1. PICK S : S = Store!ActiveOf(a)
          OBVIOUS
        <4>2. IsFiniteSet(S) /\ Cardinality(S) \in Nat
          BY <4>1, CapSets, FS_CardinalityType
        <4>3. /\ IsFiniteSet(S \cup {s})
              /\ Cardinality(S \cup {s}) = Cardinality(S) \/ Cardinality(S \cup {s}) = Cardinality(S) + 1
          BY <4>2, FS_AddElement
        <4> QED BY <4>1, <4>2, <4>3
      <3>3. Cardinality(Store!ActiveOf(a)') <= Cardinality(Store!ActiveOf(a)) + 1
            /\ Cardinality(Store!ActiveOf(a)') \in Nat
        <4>1. Cardinality(Store!ActiveOf(a)') <= Cardinality(Store!ActiveOf(a) \cup {s})
              /\ Cardinality(Store!ActiveOf(a)') \in Nat
          BY <3>1, <3>2, FS_Subset, FS_CardinalityType
        <4> QED BY <3>2, <4>1, CapSets
      <3>4. PastCap(a)' = PastCap(a) \ {p} /\ p \in PastCap(a)
        BY <1>1, <1>2, <1>9, <1>10, <2>3 DEF PastCap
      <3>5. Cardinality(PastCap(a)') = Cardinality(PastCap(a)) - 1
        BY <3>4, CapSets, FS_RemoveElement, ZenonT(30)
      <3> QED BY <2>1, <2>2, <3>3, <3>5, CapSets
    <2>4. CASE a # req.agent_id
      <3>1. Store!ActiveOf(a)' \subseteq Store!ActiveOf(a)
        BY <1>5, <1>7, <2>4 DEF Store!ActiveOf, Store!Live
      <3>2. PastCap(a)' \subseteq PastCap(a)
        BY <1>9, <1>10 DEF PastCap
      <3>3. Cardinality(Store!ActiveOf(a)') <= Cardinality(Store!ActiveOf(a))
            /\ Cardinality(Store!ActiveOf(a)') \in Nat
        BY <3>1, CapSets, FS_Subset, FS_CardinalityType
      <3>4. Cardinality(PastCap(a)') <= Cardinality(PastCap(a)) /\ Cardinality(PastCap(a)') \in Nat
        BY <3>2, CapSets, FS_Subset, FS_CardinalityType
      <3> QED BY <2>1, <2>2, <3>3, <3>4, CapSets
    <2> QED BY <2>3, <2>4
  <1>12. CapOvershootBounded'
    BY <1>11 DEF CapOvershootBounded
  <1>13. SessionsInv'
    BY <1>6, <1>8, <1>9, <1>12 DEF SessionsInv, Creating
  <1>14. \A x \in Store!Live' \ {s} : x \in Store!Live /\ sessions'[x] = sessions[x]
    BY <1>7 DEF Store!Live
  <1> QED BY <1>1, <1>2, <1>5, <1>7, <1>13, <1>14

-----------------------------------------------------------------------------
(* A session that is Active after the step was so before, and its agent is *)
(* still counted.                                                          *)
LEMMA CountedSessions ==
    ASSUME LifecycleInv, ghosts' = ghosts, Counted \subseteq Counted',
           \A x \in Store!Live' : sessions'[x].status = "Active"
                                  => x \in Store!Live /\ sessions'[x] = sessions[x]
    PROVE  SessionsCounted'
  BY DEF LifecycleInv, SessionsCounted

(* The registry moves and the sessions stay, ...                           *)
LEMMA AgentsOnly ==
    ASSUME LifecycleInv, AgentsInv', Counted \subseteq Counted',
           UNCHANGED <<storeVars, creating, ghosts>>
    PROVE  LifecycleInv'
  <1>1. UNCHANGED <<sessions, created, granted, creating, ghosts>> /\ now' \in Nat
    BY Halves DEF storeVars, SessionsInv, Store!TypeOK
  <1>2. /\ SessionsInv'
        /\ \A s \in Store!Live' : sessions'[s].status = "Active"
                                  => s \in Store!Live /\ sessions'[s] = sessions[s]
    BY <1>1, Halves, SessionsStill
  <1>3. SessionsCounted'
    BY <1>1, <1>2, CountedSessions
  <1>4. LifecycleInv' <=> AgentsInv' /\ SessionsInv' /\ SessionsCounted'
    BY Halves, PTL
  <1> QED BY <1>2, <1>3, <1>4

(* ... or the other way round.                                             *)
LEMMA SessionsOnly ==
    ASSUME LifecycleInv, SessionsInv', ghosts' = ghosts,
           \A x \in Store!Live' : sessions'[x].status = "Active"
                                  => x \in Store!Live /\ sessions'[x] = sessions[x],
           UNCHANGED <<registryVars, closing, registered_agents, forsaken, signing, uncounted>>
    PROVE  LifecycleInv'
  <1>1. /\ UNCHANGED <<agents, cascading, closing, registered_agents, forsaken, signing, uncounted>>
        /\ Registry!RegistryTypeOK'
    BY Halves DEF registryVars, AgentsInv, Registry!RegistryTypeOK
  <1>2. AgentsInv' /\ Counted' = Counted
    BY <1>1, Halves, AgentsStill
  <1>3. SessionsCounted'
    BY <1>2, CountedSessions
  <1>4. LifecycleInv' <=> AgentsInv' /\ SessionsInv' /\ SessionsCounted'
    BY Halves, PTL
  <1> QED BY <1>2, <1>3, <1>4

(* A new session belongs to an agent that is active, or is a ghost.        *)
LEMMA InsertInv ==
    ASSUME LifecycleInv, NEW p \in Creators, NEW s \in SessionId, create_session_insert(p, s)
    PROVE  LifecycleInv'
  <1>1. UNCHANGED <<registryVars, closing, registered_agents, forsaken, signing, uncounted>>
    BY DEF create_session_insert
  <1>2. /\ UNCHANGED <<agents, cascading, closing, registered_agents, forsaken, signing, uncounted>>
        /\ Registry!RegistryTypeOK'
    BY <1>1, Halves DEF registryVars, AgentsInv, Registry!RegistryTypeOK
  <1>3. AgentsInv' /\ Counted' = Counted
    BY <1>2, Halves, AgentsStill
  <1>4. /\ SessionsInv'
        /\ sessions'[s].agent_id = creating[p].req.agent_id /\ creating[p].req.agent_id \in AgentId
        /\ \A x \in Store!Live' \ {s} : x \in Store!Live /\ sessions'[x] = sessions[x]
    BY Halves, InsertSessions
  <1>5. s \in ghosts' \/ sessions'[s].agent_id \in Counted'
    <2>1. Registry!Active(creating[p].req.agent_id) => creating[p].req.agent_id \in Counted
      BY <1>4 DEF Counted
    <2> QED BY <1>3, <1>4, <2>1 DEF create_session_insert
  <1>6. ghosts \subseteq ghosts'
    BY DEF create_session_insert
  <1>7. SessionsCounted'
    BY <1>3, <1>4, <1>5, <1>6 DEF LifecycleInv, SessionsCounted
  <1>8. LifecycleInv' <=> AgentsInv' /\ SessionsInv' /\ SessionsCounted'
    BY Halves, PTL
  <1> QED BY <1>3, <1>4, <1>7, <1>8

(* An agent leaves the count when its sessions have been closed.           *)
LEMMA CloseInv ==
    ASSUME LifecycleInv, NEW p \in Deactivators, NEW id \in AgentId, deactivate_close(p, id)
    PROVE  LifecycleInv'
  <1>1. AgentsInv' /\ Counted' = Counted \ {id}
    BY Halves, DeactivateCloseAgents
  <1>2. Store!close_sessions_for_agent(id) /\ UNCHANGED <<creating, ghosts>>
    BY DEF deactivate_close, history
  <1>3. /\ SessionsInv'
        /\ \A s \in Store!Live' : sessions'[s].status = "Active"
              => s \in Store!Live /\ sessions'[s] = sessions[s] /\ sessions[s].agent_id # id
    BY <1>2, Halves, CloseAllSessions
  <1>4. SessionsCounted'
    BY <1>1, <1>2, <1>3 DEF LifecycleInv, SessionsCounted
  <1>5. LifecycleInv' <=> AgentsInv' /\ SessionsInv' /\ SessionsCounted'
    BY Halves, PTL
  <1> QED BY <1>1, <1>3, <1>4, <1>5

LEMMA InitLifecycleInv == Init => LifecycleInv
  <1> SUFFICES ASSUME Init PROVE LifecycleInv
    OBVIOUS
  <1>1. /\ agents = [a \in AgentId |-> Unregistered] /\ delegations = <<>>
        /\ delegating = [p \in Delegators |-> Registry!Idle]
        /\ cascading = [p \in Deactivators |-> Registry!NoCascade]
        /\ closing = [p \in Deactivators |-> {}] /\ forsaken = {} /\ registered_agents = 0
        /\ unwalked = {} /\ missed = {} /\ uncounted = {} /\ signing \in BOOLEAN
    BY LifecycleAssumption DEF Init, Registry!RegistryInit
  <1>2. /\ now = 0 /\ sessions = [s \in SessionId |-> NoSession]
        /\ created = [s \in SessionId |-> NoRequest] /\ granted = [s \in SessionId |-> 0]
        /\ creating = [p \in Creators |-> NotCreating] /\ ghosts = {}
    BY DEF Init, Store!Init
  <1>3. Registry!NoCascade \in Registry!Cascading /\ Registry!NoCascade.deactivated = {}
        /\ ~Registry!NoCascade.running
    BY DEF Registry!NoCascade, Registry!Cascading
  <1>4. Registry!Idle \in Registry!Delegating
    BY DEF Registry!Idle, Registry!Delegating
  <1>5. Registry!RegistryTypeOK
    BY <1>1, <1>3, <1>4 DEF Registry!RegistryTypeOK
  <1>6. \A p \in Deactivators : Owed(p) = {}
    BY <1>1, <1>3 DEF Owed
  <1>7. \A a \in AgentId : ~Registry!Active(a)
    BY <1>1 DEF Registry!Active, Registry!Exists
  <1>8. Counted = {}
    BY <1>1, <1>6, <1>7 DEF Counted
  <1>9. OwedOnce
    BY <1>1, <1>3, <1>6 DEF OwedOnce
  <1>10. GaugeCounts
    BY <1>1, <1>8, FS_EmptySet DEF GaugeCounts
  <1>11. AgentsInv
    BY <1>1, <1>5, <1>9, <1>10 DEF AgentsInv
  <1>12. Store!TypeOK
    BY <1>2 DEF Store!TypeOK
  <1>13. Store!Live = {}
    BY <1>2 DEF Store!Live
  <1>14. CapOvershootBounded
    <2> SUFFICES ASSUME NEW a \in AgentId
                 PROVE  count_active_for_agent(a) + Cardinality(PastCap(a))
                           <= MaxSessions + Cardinality(Creators) - 1
      BY DEF CapOvershootBounded
    <2>1. Store!ActiveOf(a) = {} /\ PastCap(a) = {}
      BY <1>2, <1>13 DEF Store!ActiveOf, PastCap, NotCreating
    <2>2. count_active_for_agent(a) = 0 /\ Cardinality(PastCap(a)) = 0
      BY <2>1, FS_EmptySet DEF count_active_for_agent
    <2> QED BY <2>2, CapSets
  <1>15. SessionsInv
    BY <1>2, <1>12, <1>14 DEF SessionsInv
  <1>16. SessionsCounted
    BY <1>13 DEF SessionsCounted
  <1> QED BY <1>11, <1>15, <1>16, Halves

LEMMA NextLifecycleInv == LifecycleInv /\ [Next]_vars => LifecycleInv'
  <1> SUFFICES ASSUME LifecycleInv, [Next]_vars PROVE LifecycleInv'
    OBVIOUS
  <1>0. AgentsInv /\ SessionsInv
    BY Halves
  <1>1. CASE Tick
    <2>1. /\ now' \in Nat /\ ghosts' = ghosts
          /\ UNCHANGED <<sessions, created, granted, creating, ghosts>>
          /\ UNCHANGED <<registryVars, closing, registered_agents, forsaken, signing, uncounted>>
      BY <1>0, <1>1 DEF Tick, Store!Tick, handlerVars, history, SessionsInv, Store!TypeOK
    <2> QED BY <1>0, <2>1, SessionsStill, SessionsOnly
  <1>2. CASE cleanup
    <2>1. /\ Store!cleanup_expired /\ UNCHANGED <<creating, ghosts>> /\ ghosts' = ghosts
          /\ UNCHANGED <<registryVars, closing, registered_agents, forsaken, signing, uncounted>>
      BY <1>2 DEF cleanup, history
    <2> QED BY <1>0, <2>1, CleanupSessions, SessionsOnly
  <1>3. CASE register_agent
    <2>1. UNCHANGED <<storeVars, creating, ghosts>>
      BY <1>3 DEF register_agent, history
    <2> QED BY <1>0, <1>3, <2>1, RegisterAgents, AgentsOnly
  <1>4. CASE delegate_agent
    <2>1. Registry!DelegationNext /\ UNCHANGED <<storeVars, creating, ghosts>>
          /\ UNCHANGED <<closing, registered_agents, forsaken, signing, uncounted>>
      BY <1>4 DEF delegate_agent, handlerVars, history
    <2>2. Registry!RegistryTypeOK' /\ UNCHANGED <<agents, cascading>>
      BY <1>0, <2>1, DelegatesType DEF AgentsInv
    <2>3. AgentsInv' /\ Counted' = Counted
      BY <1>0, <2>1, <2>2, AgentsStill
    <2> QED BY <2>1, <2>3, AgentsOnly
  <1>5. ASSUME NEW p \in Creators, NEW req \in Requests, create_session_get_agent(p, req)
        PROVE  LifecycleInv'
    <2>1. ghosts' = ghosts /\ UNCHANGED <<registryVars, closing, registered_agents, forsaken, signing, uncounted>>
      BY <1>5 DEF create_session_get_agent, history
    <2> QED BY <1>0, <1>5, <2>1, GetAgentSessions, SessionsOnly
  <1>6. ASSUME NEW p \in Creators, create_session_count(p) PROVE LifecycleInv'
    <2>1. ghosts' = ghosts /\ UNCHANGED <<registryVars, closing, registered_agents, forsaken, signing, uncounted>>
      BY <1>6 DEF create_session_count, history
    <2> QED BY <1>0, <1>6, <2>1, CountSessions, SessionsOnly
  <1>7. ASSUME NEW p \in Creators, NEW s \in SessionId, create_session_insert(p, s)
        PROVE  LifecycleInv'
    BY <1>7, InsertInv
  <1>13. ASSUME NEW p \in Creators, create_session_dropped(p) PROVE LifecycleInv'
    <2>1. /\ ghosts' = ghosts
          /\ UNCHANGED <<registryVars, closing, registered_agents, forsaken, signing, uncounted>>
      BY <1>13 DEF create_session_dropped, history
    <2> QED BY <1>0, <1>13, <2>1, DroppedSessions, SessionsOnly
  <1>8. ASSUME NEW s \in SessionId, close_session(s) PROVE LifecycleInv'
    <2>1. /\ Store!close(s) /\ UNCHANGED <<creating, ghosts>> /\ ghosts' = ghosts
          /\ UNCHANGED <<registryVars, closing, registered_agents, forsaken, signing, uncounted>>
      BY <1>8 DEF close_session, history
    <2> QED BY <1>0, <2>1, CloseSessions, SessionsOnly
  <1>9. ASSUME NEW p \in Deactivators, NEW id \in AgentId, deactivate_start(p, id)
        PROVE  LifecycleInv'
    <2>1. UNCHANGED <<storeVars, creating, ghosts>>
      BY <1>9 DEF deactivate_start, handlerVars, history
    <2>2. AgentsInv' /\ Counted' = Counted
      BY <1>0, <1>9, DeactivateStartAgents
    <2> QED BY <2>1, <2>2, AgentsOnly
  <1>10. ASSUME NEW p \in Deactivators, NEW id \in AgentId, deactivate_close(p, id)
         PROVE  LifecycleInv'
    BY <1>10, CloseInv
  <1>11. ASSUME NEW p \in Deactivators,
                deactivate_step(p) \/ deactivate_cascaded(p) \/ deactivate_dropped(p)
         PROVE  LifecycleInv'
    <2>1. UNCHANGED <<storeVars, creating, ghosts>>
      BY <1>11 DEF deactivate_step, deactivate_cascaded, deactivate_dropped, handlerVars, history
    <2>2. AgentsInv' /\ Counted' = Counted
      BY <1>0, <1>11, DeactivateStepAgents, DeactivateCascadedAgents, DeactivateDroppedAgents
    <2> QED BY <2>1, <2>2, AgentsOnly
  <1>12. CASE UNCHANGED vars
    <2>1. /\ UNCHANGED <<sessions, created, granted, creating, ghosts>> /\ now' \in Nat
          /\ ghosts' = ghosts
          /\ UNCHANGED <<registryVars, closing, registered_agents, forsaken, signing, uncounted>>
      BY <1>0, <1>12 DEF vars, storeVars, handlerVars, history, SessionsInv, Store!TypeOK
    <2> QED BY <1>0, <2>1, SessionsStill, SessionsOnly
  <1> QED
    BY <1>1, <1>2, <1>3, <1>4, <1>5, <1>6, <1>7, <1>8, <1>9, <1>10, <1>11, <1>12, <1>13
       DEF Next

-----------------------------------------------------------------------------
(* The admin API's inductive invariant: an agent whose sessions a          *)
(* deactivation has still to close is inactive, owed by that deactivation  *)
(* alone and not forsaken; the gauge counts exactly the active, owed and   *)
(* forsaken agents, less those registered without a token; and every       *)
(* Active session but a ghost is of one of them.                           *)
THEOREM LifecycleInvariant == Spec => []LifecycleInv
  BY InitLifecycleInv, NextLifecycleInv, PTL DEF Spec

(* deactivate_agent, with any number of deactivations, delegations and     *)
(* sessions being created at once: once no deactivation is under way, no   *)
(* session of an inactive agent is Active, but for a ghost and for those   *)
(* of an agent whose own deactivation was dropped.                         *)
THEOREM DeactivationSafety == Spec => []DeactivationClosesSessions
  <1>1. LifecycleInv => DeactivationClosesSessions
    <2> SUFFICES ASSUME LifecycleInv, Quiet, NEW s \in Store!Live, sessions[s].status = "Active",
                        ~Registry!Active(sessions[s].agent_id)
                 PROVE  s \in ghosts \/ sessions[s].agent_id \in forsaken
      BY DEF DeactivationClosesSessions
    <2>1. \A p \in Deactivators : Owed(p) = {}
      BY DEF LifecycleInv, OwedOnce, Quiet, Owed, Registry!NoCascade
    <2>2. s \in ghosts \/ sessions[s].agent_id \in Counted
      BY DEF LifecycleInv, SessionsCounted
    <2> QED BY <2>1, <2>2 DEF Counted
  <1> QED BY <1>1, LifecycleInvariant, PTL

(* The gauge registered_agents: cascades that overlap never count an agent *)
(* twice, whatever agents, links and cascades there are, and it is short   *)
(* by exactly the agents registered without a token.                       *)
THEOREM GaugeSafety == Spec => []RegisteredAgentsGauge
  <1>1. LifecycleInv => RegisteredAgentsGauge
    <2> SUFFICES ASSUME LifecycleInv, Quiet
                 PROVE  registered_agents =
                           Cardinality({a \in AgentId : Registry!Active(a)} \cup forsaken)
                              - Cardinality(uncounted)
      BY DEF RegisteredAgentsGauge
    <2>1. \A p \in Deactivators : Owed(p) = {}
      BY DEF LifecycleInv, OwedOnce, Quiet, Owed, Registry!NoCascade
    <2>2. Counted = {a \in AgentId : Registry!Active(a)} \cup forsaken
      BY <2>1 DEF Counted
    <2> QED BY <2>2 DEF LifecycleInv, GaugeCounts
  <1> QED BY <1>1, LifecycleInvariant, PTL

(* create_session, which counts and inserts in two calls: the cap is       *)
(* passed by fewer sessions than there are requests at work, however long  *)
(* the system runs.                                                        *)
THEOREM CapSafety == Spec => []CapOvershootBounded
  <1>1. LifecycleInv => CapOvershootBounded
    BY DEF LifecycleInv
  <1> QED BY <1>1, LifecycleInvariant, PTL
=============================================================================
