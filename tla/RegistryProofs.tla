--------------------------- MODULE RegistryProofs ---------------------------
(***************************************************************************)
(* For any agents, capabilities and number of delegations and cascades     *)
(* under way together: the in-memory registry keeps its types, a cascade   *)
(* that is not dropped leaves no delegate behind, each of its steps brings *)
(* it nearer to its end, and chains end.                                   *)
(***************************************************************************)
EXTENDS InMemoryRegistry, FiniteSetTheorems, WellFoundedInduction, TLAPS

-----------------------------------------------------------------------------
(* Induction over the naturals, as a fact about sets.                      *)

(* Every non-empty set of naturals has a least element.                    *)
LEMMA Least ==
    ASSUME NEW T \in SUBSET Nat, T # {}
    PROVE  \E m \in T : \A k \in T : m <= k
  <1> DEFINE R == OpToRel(<, Nat)
  <1>1. IsWellFoundedOn(R, Nat)
    BY NatLessThanWellFounded
  <1> HIDE DEF R
  <1>2. PICK x \in T : \A y \in T : ~(<<y, x>> \in R)
    BY <1>1, WFMin
  <1>3. \A a, b \in Nat : <<a, b>> \in R <=> a < b
    BY DEF R, OpToRel
  <1>4. \A y \in T : ~(y < x)
    BY <1>2, <1>3
  <1>5. x \in Nat /\ \A y \in T : y \in Nat
    OBVIOUS
  <1>6. \A y \in T : x <= y
    BY <1>4, <1>5
  <1> QED BY <1>6

(* A set that has 0 and with n also n + 1 has every natural.               *)
LEMMA InductiveSet ==
    ASSUME NEW T, 0 \in T, \A n \in Nat : n \in T => n + 1 \in T
    PROVE  \A n \in Nat : n \in T
  <1> DEFINE U == {n \in Nat : n \notin T}
  <1>1. SUFFICES ASSUME U # {} PROVE FALSE
    OBVIOUS
  <1>2. U \in SUBSET Nat
    OBVIOUS
  <1>3. PICK m \in U : \A k \in U : m <= k
    <2> HIDE DEF U
    <2> QED BY <1>1, <1>2, Least
  <1>4. m \in Nat /\ m # 0 /\ m \notin T
    OBVIOUS
  <1>5. m - 1 \in Nat /\ (m - 1) + 1 = m
    BY <1>4
  <1>6. m - 1 \notin T
    BY <1>4, <1>5
  <1>7. m - 1 \in U
    BY <1>5, <1>6
  <1>8. m <= m - 1
    BY <1>3, <1>7
  <1> QED BY <1>4, <1>8

(* There is a function that starts at x and goes on by g.                  *)
LEMMA Recursion ==
    ASSUME NEW S, NEW x \in S, NEW g \in [S -> S]
    PROVE  \E f \in [Nat -> S] : f = [n \in Nat |-> IF n = 0 THEN x ELSE g[f[n - 1]]]
  <1> DEFINE Good(n, f) == f[0] = x /\ \A k \in 1..n : f[k] = g[f[k - 1]]
             T == {n \in Nat : \E f \in [Nat -> S] : Good(n, f)}
             U == {n \in Nat : \A f1, f2 \in [Nat -> S] :
                                  Good(n, f1) /\ Good(n, f2) => f1[n] = f2[n]}
  <1>1. 0 \in T
    <2>1. [i \in Nat |-> x] \in [Nat -> S] /\ Good(0, [i \in Nat |-> x])
      OBVIOUS
    <2> QED BY <2>1
  <1>2. ASSUME NEW n \in Nat, n \in T PROVE n + 1 \in T
    <2>1. PICK f \in [Nat -> S] : Good(n, f)
      BY <1>2
    <2> DEFINE h == [f EXCEPT ![n + 1] = g[f[n]]]
    <2>2. h \in [Nat -> S]
      OBVIOUS
    <2>3. h[0] = x
      BY <2>1
    <2>4. ASSUME NEW k \in 1..(n + 1) PROVE h[k] = g[h[k - 1]]
      <3>1. CASE k = n + 1
        <4>1. h[n + 1] = g[f[n]] /\ h[n] = f[n]
          OBVIOUS
        <4> QED BY <3>1, <4>1
      <3>2. CASE k # n + 1
        <4>1. k \in 1..n /\ k - 1 \in Nat /\ k - 1 # n + 1 /\ k \in Nat
          BY <3>2
        <4>2. h[k] = f[k] /\ h[k - 1] = f[k - 1]
          BY <3>2, <4>1
        <4> QED BY <2>1, <4>1, <4>2
      <3> QED BY <3>1, <3>2
    <2>5. Good(n + 1, h)
      BY <2>3, <2>4
    <2> HIDE DEF h
    <2> QED BY <2>2, <2>5
  <1>3. \A n \in Nat : n \in T
    <2> HIDE DEF T
    <2> QED BY <1>1, <1>2, InductiveSet
  <1>4. 0 \in U
    OBVIOUS
  <1>5. ASSUME NEW n \in Nat, n \in U PROVE n + 1 \in U
    <2>1. ASSUME NEW f1 \in [Nat -> S], NEW f2 \in [Nat -> S], Good(n + 1, f1), Good(n + 1, f2)
          PROVE  f1[n + 1] = f2[n + 1]
      <3>1. Good(n, f1) /\ Good(n, f2)
        BY <2>1
      <3>2. f1[n] = f2[n]
        BY <1>5, <3>1
      <3>3. n + 1 \in 1..(n + 1) /\ (n + 1) - 1 = n
        OBVIOUS
      <3>4. f1[n + 1] = g[f1[(n + 1) - 1]] /\ f2[n + 1] = g[f2[(n + 1) - 1]]
        BY <2>1, <3>3
      <3> QED BY <3>2, <3>3, <3>4
    <2> QED BY <2>1
  <1>6. \A n \in Nat : n \in U
    <2> HIDE DEF U
    <2> QED BY <1>4, <1>5, InductiveSet
  <1> DEFINE F(n) == CHOOSE f \in [Nat -> S] : Good(n, f)
             r == [n \in Nat |-> F(n)[n]]
  <1>7. \A n \in Nat : F(n) \in [Nat -> S] /\ Good(n, F(n))
    BY <1>3
  <1>8. r \in [Nat -> S] /\ r[0] = x
    BY <1>7
  <1>9. ASSUME NEW n \in Nat, n # 0 PROVE r[n] = g[r[n - 1]]
    <2>1. n - 1 \in Nat /\ n \in 1..n
      BY <1>9
    <2>2. Good(n, F(n)) /\ F(n) \in [Nat -> S] /\ Good(n - 1, F(n - 1)) /\ F(n - 1) \in [Nat -> S]
      BY <1>7, <2>1
    <2>3. Good(n - 1, F(n))
      BY <2>1, <2>2
    <2> HIDE DEF F
    <2>4. F(n)[n - 1] = F(n - 1)[n - 1]
      <3> HIDE DEF Good
      <3> QED BY <1>6, <2>1, <2>2, <2>3
    <2>5. F(n)[n] = g[F(n)[n - 1]]
      BY <2>1, <2>2
    <2> QED BY <2>1, <2>4, <2>5
  <1>10. r = [n \in Nat |-> IF n = 0 THEN x ELSE g[r[n - 1]]]
    <2> HIDE DEF r
    <2> QED BY <1>8, <1>9
  <1> HIDE DEF r
  <1> QED BY <1>8, <1>10

-----------------------------------------------------------------------------
(* The walk towards the root.                                              *)

LEMMA LeastChosen ==
    ASSUME NEW T \in SUBSET Nat, NEW m \in T, \A k \in T : m <= k
    PROVE  (CHOOSE i \in T : \A j \in T : i <= j) = m
  <1> DEFINE c == CHOOSE i \in T : \A j \in T : i <= j
  <1>1. c \in T /\ \A j \in T : c <= j
    OBVIOUS
  <1> HIDE DEF c
  <1>2. c \in Nat /\ m \in Nat /\ c <= m /\ m <= c
    BY <1>1
  <1>3. c = m
    BY <1>2
  <1> QED BY <1>3 DEF c

(* find returns the link with the least index.                             *)
LEMMA FirstLink ==
    ASSUME RegistryTypeOK, NEW a, IncomingOf(a) # {}
    PROVE  \E m \in IncomingOf(a) : (\A k \in IncomingOf(a) : m <= k) /\ FirstLinkTo(a) = delegations[m]
  <1>1. IncomingOf(a) \in SUBSET Nat
    BY DEF RegistryTypeOK, IncomingOf
  <1>2. PICK m \in IncomingOf(a) : \A k \in IncomingOf(a) : m <= k
    BY <1>1, Least
  <1>3. (CHOOSE i \in IncomingOf(a) : \A j \in IncomingOf(a) : i <= j) = m
    BY <1>1, <1>2, LeastChosen
  <1> QED BY <1>2, <1>3 DEF FirstLinkTo

LEMMA FirstLinkType ==
    ASSUME RegistryTypeOK, NEW a, IncomingOf(a) # {}
    PROVE  FirstLinkTo(a).from \in AgentId
  <1>1. PICK m \in IncomingOf(a) : FirstLinkTo(a) = delegations[m]
    BY FirstLink
  <1>2. FirstLinkTo(a) \in DelegationLinks
    BY <1>1 DEF IncomingOf, RegistryTypeOK
  <1> QED BY <1>2 DEF DelegationLinks

(* One step of the walk. *)
Up == [x \in AgentId \cup {Unregistered} |->
         IF x = Unregistered \/ IncomingOf(x) = {} THEN Unregistered ELSE FirstLinkTo(x).from]

(* Ancestor really is the walk: its recursion has a solution.              *)
LEMMA AncestorWalks ==
    ASSUME RegistryTypeOK, NEW a \in AgentId
    PROVE  /\ Ancestor(a) \in [Nat -> AgentId \cup {Unregistered}]
           /\ Ancestor(a)[0] = a
           /\ \A n \in Nat : Ancestor(a)[n + 1] = Up[Ancestor(a)[n]]
  <1> DEFINE S == AgentId \cup {Unregistered}
             Walk(f) == [n \in Nat |->
                           IF n = 0 THEN a
                           ELSE IF f[n-1] = Unregistered \/ IncomingOf(f[n-1]) = {} THEN Unregistered
                           ELSE FirstLinkTo(f[n-1]).from]
  <1>1. Up \in [S -> S]
    BY FirstLinkType DEF Up
  <1>2. PICK f \in [Nat -> S] : f = [n \in Nat |-> IF n = 0 THEN a ELSE Up[f[n - 1]]]
    <2>1. a \in S
      OBVIOUS
    <2> HIDE DEF S
    <2> QED BY <1>1, <2>1, Recursion
  <1>3. f = Walk(f)
    <2>1. PICK w : w = Walk(f)
      OBVIOUS
    <2>2. ASSUME NEW n \in Nat PROVE f[n] = w[n]
      <3>1. CASE n = 0
        BY <1>2, <2>1, <3>1
      <3>2. CASE n # 0
        <4>1. n - 1 \in Nat /\ f[n - 1] \in S
          BY <3>2
        <4>2. f[n] = Up[f[n - 1]]
          BY <1>2, <3>2
        <4> QED BY <2>1, <3>2, <4>1, <4>2 DEF Up
      <3> QED BY <3>1, <3>2
    <2>3. f = [n \in Nat |-> f[n]] /\ w = [n \in Nat |-> w[n]]
      BY <2>1
    <2> HIDE DEF Walk
    <2>4. f = w
      BY <2>2, <2>3
    <2> QED BY <2>1, <2>4
  <1>4. Ancestor(a) = CHOOSE g : g = Walk(g)
    BY DEF Ancestor
  <1>5. Ancestor(a) = Walk(Ancestor(a))
    <2> HIDE DEF Walk
    <2> QED BY <1>3, <1>4, Zenon
  <1> DEFINE A == Ancestor(a)
  <1>6. A[0] = a /\ \A n \in Nat : A[n + 1] =
           IF A[n] = Unregistered \/ IncomingOf(A[n]) = {} THEN Unregistered ELSE FirstLinkTo(A[n]).from
    <2> HIDE DEF A
    <2>1. A = Walk(A)
      BY <1>5 DEF A
    <2>2. \A n \in Nat : n + 1 # 0 /\ n + 1 \in Nat /\ (n + 1) - 1 = n
      OBVIOUS
    <2>3. PICK w : w = A
      OBVIOUS
    <2>4. w = Walk(w)
      BY <2>1, <2>3
    <2>5. w[0] = a
      BY <2>4
    <2>6. ASSUME NEW n \in Nat
          PROVE  w[n + 1] = IF w[n] = Unregistered \/ IncomingOf(w[n]) = {} THEN Unregistered
                            ELSE FirstLinkTo(w[n]).from
      <3>1. PICK k \in Nat : k = n + 1 /\ k # 0 /\ k - 1 = n
        BY <2>2
      <3>2. w[k] = IF w[k - 1] = Unregistered \/ IncomingOf(w[k - 1]) = {} THEN Unregistered
                   ELSE FirstLinkTo(w[k - 1]).from
        BY <2>4, <3>1
      <3> QED BY <3>1, <3>2
    <2> QED BY <2>3, <2>5, <2>6
  <1> HIDE DEF A
  <1> DEFINE T == {n \in Nat : A[n] \in S}
  <1>7. \A n \in Nat : n \in T
    <2>1. 0 \in T
      BY <1>6
    <2>2. \A n \in Nat : n \in T => n + 1 \in T
      BY <1>6, FirstLinkType
    <2> HIDE DEF T
    <2> QED BY <2>1, <2>2, InductiveSet
  <1>8. A \in [Nat -> S]
    <2>1. A = [n \in Nat |-> A[n]]
      <3>1. A = Walk(A)
        BY <1>5 DEF A
      <3> QED BY <3>1
    <2> QED BY <1>7, <2>1
  <1> QED BY <1>6, <1>7, <1>8 DEF A, Up

(* Every set of agents has one whose walk leaves it: no first links form a *)
(* cycle.                                                                  *)
Rooted ==
    \A S \in SUBSET AgentId :
        S # {} => \E a \in S : IncomingOf(a) = {} \/ FirstLinkTo(a).from \notin S

(* Past the root there is nothing any more.                                *)
LEMMA PastTheRoot ==
    ASSUME RegistryTypeOK, NEW a \in AgentId, NEW n \in Nat, Ancestor(a)[n] = Unregistered
    PROVE  \A m \in Nat : m >= n => Ancestor(a)[m] = Unregistered
  <1> DEFINE A == Ancestor(a)
             T == {k \in Nat : A[n + k] = Unregistered}
  <1>1. /\ A \in [Nat -> AgentId \cup {Unregistered}]
        /\ \A k \in Nat : A[k + 1] = Up[A[k]]
    BY AncestorWalks
  <1>2. A[n] = Unregistered
    OBVIOUS
  <1> HIDE DEF A
  <1>3. 0 \in T
    BY <1>2
  <1>4. ASSUME NEW k \in Nat, k \in T PROVE k + 1 \in T
    <2>1. A[n + k] = Unregistered /\ n + k \in Nat /\ n + (k + 1) = (n + k) + 1
      BY <1>4
    <2>2. A[(n + k) + 1] = Up[Unregistered]
      BY <1>1, <2>1
    <2>3. Up[Unregistered] = Unregistered
      BY DEF Up
    <2> QED BY <2>1, <2>2, <2>3
  <1>5. \A k \in Nat : k \in T
    <2> HIDE DEF T
    <2> QED BY <1>3, <1>4, InductiveSet
  <1>6. ASSUME NEW m \in Nat, m >= n PROVE A[m] = Unregistered
    <2>1. m - n \in Nat /\ n + (m - n) = m
      BY <1>6
    <2>2. A[n + (m - n)] = Unregistered
      BY <1>5, <2>1
    <2> QED BY <2>1, <2>2
  <1> QED BY <1>6 DEF A

(* Without cycles every walk is past its root after as many steps as there *)
(* are agents: a longer one would meet an agent twice.                     *)
LEMMA WalkEnds ==
    ASSUME RegistryTypeOK, Rooted, NEW a \in AgentId
    PROVE  /\ Cardinality(AgentId) \in Nat
           /\ Ancestor(a)[Cardinality(AgentId)] = Unregistered
  <1> DEFINE A == Ancestor(a)
             N == Cardinality(AgentId)
  <1>1. N \in Nat /\ IsFiniteSet(AgentId)
    BY RegistryAssumption, FS_CardinalityType
  <1>2. SUFFICES ASSUME A[N] # Unregistered PROVE FALSE
    BY <1>1
  <1>3. /\ A \in [Nat -> AgentId \cup {Unregistered}]
        /\ \A k \in Nat : A[k + 1] = Up[A[k]]
    BY AncestorWalks
  <1>4. \A k \in 0..N : A[k] \in AgentId
    <2>1. ASSUME NEW k \in 0..N PROVE A[k] \in AgentId
      <3>1. k \in Nat /\ N >= k
        BY <1>1
      <3>2. A[k] # Unregistered
        BY <1>1, <1>2, <3>1, PastTheRoot
      <3> QED BY <1>3, <3>1, <3>2
    <2> QED BY <2>1
  <1> HIDE DEF A, N
  <1>5. PICK i, j \in 0..N : i < j /\ A[i] = A[j]
    <2> DEFINE f == [k \in 0..N |-> A[k]]
    <2>1. IsFiniteSet(0..N) /\ Cardinality(0..N) = N + 1
      BY <1>1, FS_Interval
    <2>2. f \in [0..N -> AgentId]
      BY <1>4
    <2>3. \E x, y \in 0..N : x # y /\ f[x] = f[y]
      <3> HIDE DEF f
      <3>1. Cardinality(0..N) > Cardinality(AgentId)
        BY <1>1, <2>1 DEF N
      <3> QED BY <1>1, <2>1, <2>2, <3>1, FS_PigeonHole
    <2>4. PICK x, y \in 0..N : x # y /\ A[x] = A[y]
      BY <2>3
    <2>5. x < y \/ y < x
      BY <1>1, <2>4
    <2> QED BY <2>4, <2>5
  <1> DEFINE S == {A[k] : k \in i..(j - 1)}
  <1>6. i \in Nat /\ j \in Nat /\ \A k \in i..(j - 1) : k \in 0..N /\ k + 1 \in 0..N /\ k \in Nat
    BY <1>1, <1>5
  <1>7. S \in SUBSET AgentId /\ A[i] \in S
    BY <1>4, <1>5, <1>6
  <1>8. ASSUME NEW b \in S PROVE IncomingOf(b) # {} /\ FirstLinkTo(b).from \in S
    <2>1. PICK k \in i..(j - 1) : b = A[k]
      OBVIOUS
    <2>2. A[k + 1] = Up[b] /\ A[k + 1] \in AgentId /\ b \in AgentId
      BY <1>3, <1>4, <1>6, <2>1
    <2>3. IncomingOf(b) # {} /\ A[k + 1] = FirstLinkTo(b).from
      BY <2>2, RegistryAssumption DEF Up
    <2>4. A[k + 1] \in S
      <3>1. CASE k + 1 = j
        BY <1>5, <1>7, <3>1
      <3>2. CASE k + 1 # j
        <4>1. k + 1 \in i..(j - 1)
          BY <1>6, <3>2
        <4> QED BY <4>1
      <3> QED BY <3>1, <3>2
    <2> QED BY <2>3, <2>4
  <1> HIDE DEF S
  <1> QED BY <1>7, <1>8 DEF Rooted

-----------------------------------------------------------------------------
(* The inductive invariant.  CascadeProgress alone is not inductive: an    *)
(* agent registered under a link's feet would break it, and so would a     *)
(* request that starts over what an earlier cascade of its own left.       *)

(* Agents are never removed, so a link's agents are registered. *)
LinkedExist == \A l \in Links : Exists(l.from) /\ Exists(l.to)

(* ... and so are those of a link about to be appended. *)
DelegatingExist ==
    \A p \in Delegators :
        delegating[p].step # "idle" => Exists(delegating[p].from) /\ Exists(delegating[p].to)

(* A cascade that is not running has nothing left over. *)
IdleIsEmpty ==
    \A p \in Deactivators :
        ~cascading[p].running => cascading[p].to_process = {} /\ cascading[p].children = {}

(* What a cascade reports as deactivated is, and stays so. *)
ReportedInactive ==
    \A p \in Deactivators : \A a \in cascading[p].deactivated : Exists(a) /\ ~Active(a)

RegistryInv ==
    /\ RegistryTypeOK
    /\ LinkedExist
    /\ DelegatingExist
    /\ IdleIsEmpty
    /\ ReportedInactive
    /\ CascadeProgress

-----------------------------------------------------------------------------
LEMMA RegistryInitInv == RegistryInit => RegistryInv
  <1> SUFFICES ASSUME RegistryInit PROVE RegistryInv
    OBVIOUS
  <1>1. Links = {}
    BY DEF RegistryInit, Links
  <1>2. RegistryTypeOK
    BY DEF RegistryInit, RegistryTypeOK, Idle, NoCascade, Delegating, Cascading
  <1>3. DelegatingExist /\ IdleIsEmpty /\ ReportedInactive
    BY DEF RegistryInit, Idle, NoCascade, DelegatingExist, IdleIsEmpty, ReportedInactive
  <1> QED
    BY <1>1, <1>2, <1>3 DEF RegistryInv, LinkedExist, CascadeProgress

(* What the type invariant says of the links as a set. *)
LEMMA LinksType ==
    ASSUME RegistryTypeOK, NEW l \in Links
    PROVE  l \in DelegationLinks /\ l.from \in AgentId /\ l.to \in AgentId
  <1>1. l \in DelegationLinks
    BY DEF RegistryTypeOK, Links
  <1> QED BY <1>1 DEF DelegationLinks

LEMMA LinksAppended ==
    ASSUME RegistryTypeOK, NEW l \in DelegationLinks, delegations' = Append(delegations, l)
    PROVE  Links' = Links \cup {l}
  <1>1. /\ DOMAIN delegations = 1..Len(delegations)
        /\ Len(delegations) \in Nat
        /\ DOMAIN delegations' = 1..(Len(delegations) + 1)
        /\ \A i \in 1..Len(delegations) : delegations'[i] = delegations[i]
        /\ delegations'[Len(delegations) + 1] = l
    BY DEF RegistryTypeOK
  <1>2. Links \cup {l} \subseteq Links'
    BY <1>1 DEF Links
  <1>3. Links' \subseteq Links \cup {l}
    BY <1>1 DEF Links
  <1> QED BY <1>2, <1>3

(* An agent is deactivated: it stays registered, the others are untouched. *)
LEMMA Deactivated ==
    ASSUME RegistryTypeOK, NEW id \in AgentId, Exists(id),
           agents' = [agents EXCEPT ![id].active = FALSE]
    PROVE  /\ agents' \in [AgentId -> Agents \cup {Unregistered}]
           /\ \A a \in AgentId : Exists(a)' <=> Exists(a)
           /\ \A a \in AgentId : Active(a)' <=> Active(a) /\ a # id
  <1>1. agents[id] \in Agents
    BY DEF RegistryTypeOK, Exists
  <1>2. agents'[id] = [agents[id] EXCEPT !.active = FALSE]
    BY DEF RegistryTypeOK
  <1>3. agents'[id] \in Agents /\ agents'[id].active = FALSE
    BY <1>1, <1>2, ZenonT(30) DEF Agents
  <1>4. agents'[id] # Unregistered
    BY <1>3, RegistryAssumption
  <1>5. \A a \in AgentId \ {id} : agents'[a] = agents[a]
    BY DEF RegistryTypeOK
  <1>6. agents' \in [AgentId -> Agents \cup {Unregistered}]
    BY <1>3 DEF RegistryTypeOK
  <1> QED BY <1>3, <1>4, <1>5, <1>6 DEF Exists, Active

-----------------------------------------------------------------------------
LEMMA RegisterInv ==
    ASSUME RegistryInv, NEW a \in AgentId, NEW owner \in Owner, NEW caps \in Capabilities,
           NEW expires \in Expiries, register_agent(a, owner, caps, expires)
    PROVE  RegistryInv'
  <1> DEFINE new == [owner |-> owner, capabilities |-> caps, expires_at |-> expires,
                     active |-> TRUE]
  <1>1. new \in Agents /\ new # Unregistered
    <2>1. caps \in SUBSET Scope /\ expires \in Nat \cup {Never}
      BY RegistryAssumption
    <2>2. new \in Agents
      BY <2>1 DEF Agents
    <2> QED BY <2>2, RegistryAssumption
  <1>2. /\ agents' = [agents EXCEPT ![a] = new]
        /\ UNCHANGED <<delegations, delegating, cascading, unwalked, missed>>
        /\ ~Exists(a)
    BY DEF register_agent, Exists, dropped
  <1>3. agents' \in [AgentId -> Agents \cup {Unregistered}]
    BY <1>1, <1>2 DEF RegistryInv, RegistryTypeOK
  <1>4. \A b \in AgentId : Exists(b) => Exists(b)' /\ (Active(b)' <=> Active(b))
    BY <1>1, <1>2 DEF RegistryInv, RegistryTypeOK, Exists, Active
  <1>5. RegistryTypeOK'
    BY <1>2, <1>3 DEF RegistryInv, RegistryTypeOK
  <1>6. Links' = Links
    BY <1>2 DEF Links
  <1>7. \A l \in Links : l.from \in AgentId /\ l.to \in AgentId
    BY LinksType DEF RegistryInv
  <1>8. LinkedExist'
    BY <1>4, <1>6, <1>7 DEF RegistryInv, LinkedExist
  <1>9. DelegatingExist'
    <2>1. \A p \in Delegators : delegating[p].step # "idle" =>
              delegating[p].from \in AgentId /\ delegating[p].to \in AgentId
      BY DEF RegistryInv, RegistryTypeOK, Delegating
    <2> QED BY <1>2, <1>4, <2>1 DEF RegistryInv, DelegatingExist
  <1>10. IdleIsEmpty'
    BY <1>2 DEF RegistryInv, IdleIsEmpty
  <1>11. ReportedInactive'
    <2>1. \A p \in Deactivators : cascading[p].deactivated \subseteq AgentId
      BY DEF RegistryInv, RegistryTypeOK, Cascading
    <2> QED BY <1>2, <1>4, <2>1 DEF RegistryInv, ReportedInactive
  <1>12. CascadeProgress'
    BY <1>2, <1>4, <1>6, <1>7 DEF RegistryInv, LinkedExist, CascadeProgress, Pending, LeftBehind
  <1> QED
    BY <1>5, <1>8, <1>9, <1>10, <1>11, <1>12 DEF RegistryInv

(* The two steps of create_delegation that only move the request on. *)
LEMMA DelegatingInv ==
    ASSUME RegistryInv, NEW p \in Delegators, NEW d \in Delegating,
           d.step # "idle" => Exists(d.from) /\ Exists(d.to),
           delegating' = [delegating EXCEPT ![p] = d],
           UNCHANGED <<agents, delegations, cascading, dropped>>
    PROVE  RegistryInv'
  <1>1. RegistryTypeOK'
    BY DEF RegistryInv, RegistryTypeOK, dropped
  <1>2. Links' = Links /\ (\A a : Exists(a)' <=> Exists(a)) /\ (\A a : Active(a)' <=> Active(a))
    BY DEF Links, Exists, Active
  <1>3. LinkedExist' /\ IdleIsEmpty' /\ ReportedInactive' /\ CascadeProgress'
    BY <1>2 DEF RegistryInv, LinkedExist, IdleIsEmpty, ReportedInactive, CascadeProgress, Pending,
                LeftBehind, dropped
  <1>4. DelegatingExist'
    BY <1>2 DEF RegistryInv, RegistryTypeOK, DelegatingExist
  <1> QED
    BY <1>1, <1>3, <1>4 DEF RegistryInv

LEMMA PushInv ==
    ASSUME RegistryInv, NEW p \in Delegators, delegation_push(p)
    PROVE  RegistryInv'
  <1> DEFINE d == delegating[p]
             alone == \A q \in Delegators \ {p} : delegating[q].step # "acyclic"
             l == [from |-> d.from, to |-> d.to, scope_narrowing |-> d.scope_narrowing,
                   live |-> Active(d.from), alone |-> alone]
  <1>1. /\ d.step = "acyclic"
        /\ delegations' = Append(delegations, l)
        /\ delegating' = [delegating EXCEPT ![p] = Idle]
        /\ UNCHANGED <<agents, cascading, unwalked, missed>>
    BY DEF delegation_push, dropped
  <1>2. d.from \in AgentId /\ d.to \in AgentId /\ d.scope_narrowing \in SUBSET Scope
    BY <1>1 DEF RegistryInv, RegistryTypeOK, Delegating
  <1>3. Active(d.from) \in BOOLEAN /\ alone \in BOOLEAN
    <2>1. Exists(d.from) => agents[d.from] \in Agents
      BY <1>2 DEF RegistryInv, RegistryTypeOK, Exists
    <2> QED BY <2>1 DEF Active, Agents, Exists
  <1>4. l \in DelegationLinks
    BY <1>2, <1>3 DEF DelegationLinks
  <1>5. Links' = Links \cup {l}
    BY <1>1, <1>4, LinksAppended DEF RegistryInv
  <1>6. (\A a : Exists(a)' <=> Exists(a)) /\ (\A a : Active(a)' <=> Active(a))
    BY <1>1 DEF Exists, Active
  <1>7. RegistryTypeOK'
    <2>1. delegations' \in Seq(DelegationLinks)
      BY <1>1, <1>4 DEF RegistryInv, RegistryTypeOK
    <2>2. Idle \in Delegating
      BY DEF Idle, Delegating
    <2> QED BY <1>1, <2>1, <2>2 DEF RegistryInv, RegistryTypeOK
  <1>8. LinkedExist'
    BY <1>1, <1>5, <1>6 DEF RegistryInv, LinkedExist, DelegatingExist
  <1>9. DelegatingExist'
    BY <1>1, <1>6 DEF RegistryInv, RegistryTypeOK, DelegatingExist, Idle
  <1>10. IdleIsEmpty' /\ ReportedInactive'
    BY <1>1, <1>6 DEF RegistryInv, IdleIsEmpty, ReportedInactive
  <1>11. CascadeProgress'
    <2>1. l.live => Active(l.from)
      OBVIOUS
    <2> QED BY <1>1, <1>5, <1>6, <2>1 DEF RegistryInv, CascadeProgress, Pending, LeftBehind
  <1> QED
    BY <1>7, <1>8, <1>9, <1>10, <1>11 DEF RegistryInv

-----------------------------------------------------------------------------
(* A step of cascade p that may deactivate one agent and leaves the        *)
(* requests and links alone: what it must do for the invariant to hold.    *)
LEMMA CascadeStepInv ==
    ASSUME RegistryInv, NEW p \in Deactivators, NEW c \in Cascading,
           cascading' = [cascading EXCEPT ![p] = c],
           UNCHANGED <<delegations, delegating>>,
           unwalked' \subseteq AgentId, missed' \subseteq AgentId,
           agents' \in [AgentId -> Agents \cup {Unregistered}],
           \A a \in AgentId : Exists(a)' <=> Exists(a),
           \A a \in AgentId : Active(a)' => Active(a),
           ~c.running => c.to_process = {} /\ c.children = {},
           \A a \in c.deactivated : Exists(a) /\ ~Active(a)',
           \A l \in Links : l.live /\ ~Active(l.from)' =>
               \/ ~Active(l.to)'
               \/ l.from \in c.to_process \/ l.to \in c.children
               \/ \E q \in Deactivators \ {p} :
                     l.from \in cascading[q].to_process \/ l.to \in cascading[q].children
               \/ LeftBehind(l.from, l.to)'
    PROVE  RegistryInv'
  <1>1. cascading'[p] = c /\ \A q \in Deactivators \ {p} : cascading'[q] = cascading[q]
    BY DEF RegistryInv, RegistryTypeOK
  <1>2. Links' = Links
    BY DEF Links
  <1>3. RegistryTypeOK'
    BY DEF RegistryInv, RegistryTypeOK
  <1>4. LinkedExist'
    BY <1>2, LinksType DEF RegistryInv, LinkedExist
  <1>5. DelegatingExist'
    <2>1. \A q \in Delegators : delegating[q].step # "idle" =>
              delegating[q].from \in AgentId /\ delegating[q].to \in AgentId
      BY DEF RegistryInv, RegistryTypeOK, Delegating
    <2> QED BY <2>1 DEF RegistryInv, DelegatingExist
  <1>6. IdleIsEmpty'
    BY <1>1 DEF RegistryInv, IdleIsEmpty
  <1>7. ReportedInactive'
    <2>1. \A q \in Deactivators : cascading[q].deactivated \subseteq AgentId
      BY DEF RegistryInv, RegistryTypeOK, Cascading
    <2>2. c.deactivated \subseteq AgentId
      BY DEF Cascading
    <2> QED BY <1>1, <2>1, <2>2 DEF RegistryInv, ReportedInactive
  <1>8. CascadeProgress'
    <2>1. \A q \in Deactivators \ {p} :
              /\ cascading'[q].to_process = cascading[q].to_process
              /\ cascading'[q].children = cascading[q].children
      BY <1>1
    <2> QED BY <1>1, <1>2, <2>1 DEF CascadeProgress, Pending
  <1> QED
    BY <1>3, <1>4, <1>5, <1>6, <1>7, <1>8 DEF RegistryInv

(* How CascadeProgress reads with the cascade p taken apart. *)
LEMMA ProgressWithout ==
    ASSUME RegistryInv, NEW p \in Deactivators, NEW l \in Links, l.live, ~Active(l.from)
    PROVE  \/ ~Active(l.to)
           \/ l.from \in cascading[p].to_process \/ l.to \in cascading[p].children
           \/ \E q \in Deactivators \ {p} :
                 l.from \in cascading[q].to_process \/ l.to \in cascading[q].children
           \/ LeftBehind(l.from, l.to)
  BY DEF RegistryInv, CascadeProgress, Pending

(* While no cascade is dropped, nothing more is left behind.               *)
LEMMA LeftKept ==
    ASSUME RegistryInv, UNCHANGED dropped
    PROVE  /\ unwalked' \subseteq AgentId /\ missed' \subseteq AgentId
           /\ \A a, c : LeftBehind(a, c)' <=> LeftBehind(a, c)
  BY DEF RegistryInv, RegistryTypeOK, dropped, LeftBehind

LEMMA StartInv ==
    ASSUME RegistryInv, NEW p \in Deactivators, NEW id \in AgentId, cascade_start(p, id)
    PROVE  RegistryInv'
  <1> DEFINE c == [running |-> TRUE, to_process |-> {id}, children |-> {}, deactivated |-> {id}]
  <1>1. /\ ~cascading[p].running
        /\ Exists(id)
        /\ agents' = [agents EXCEPT ![id].active = FALSE]
        /\ cascading' = [cascading EXCEPT ![p] = c]
        /\ UNCHANGED <<delegations, delegating, dropped>>
    BY DEF cascade_start, Active
  <1>2. /\ agents' \in [AgentId -> Agents \cup {Unregistered}]
        /\ \A a \in AgentId : Exists(a)' <=> Exists(a)
        /\ \A a \in AgentId : Active(a)' <=> Active(a) /\ a # id
    BY <1>1, Deactivated DEF RegistryInv
  <1>3. c \in Cascading
    BY DEF Cascading
  <1>4. cascading[p].to_process = {} /\ cascading[p].children = {}
    BY <1>1 DEF RegistryInv, IdleIsEmpty
  <1>0. /\ unwalked' \subseteq AgentId /\ missed' \subseteq AgentId
        /\ \A a, b : LeftBehind(a, b)' <=> LeftBehind(a, b)
    BY <1>1, LeftKept
  <1>5. ASSUME NEW l \in Links, l.live, ~Active(l.from)'
        PROVE  \/ ~Active(l.to)'
               \/ l.from \in c.to_process \/ l.to \in c.children
               \/ \E q \in Deactivators \ {p} :
                     l.from \in cascading[q].to_process \/ l.to \in cascading[q].children
               \/ LeftBehind(l.from, l.to)'
    <2>1. l.from \in AgentId /\ l.to \in AgentId
      BY LinksType DEF RegistryInv
    <2>2. CASE l.from = id
      BY <2>2
    <2>3. CASE ~Active(l.from)
      <3>1. \/ ~Active(l.to)
            \/ \E q \in Deactivators \ {p} :
                  l.from \in cascading[q].to_process \/ l.to \in cascading[q].children
            \/ LeftBehind(l.from, l.to)
        BY <1>4, <1>5, <2>3, ProgressWithout
      <3> QED BY <1>0, <1>2, <2>1, <3>1
    <2> QED BY <1>2, <1>5, <2>1, <2>2, <2>3
  <1>6. \A a \in c.deactivated : Exists(a) /\ ~Active(a)'
    BY <1>1, <1>2
  <1>7. \A a \in AgentId : Active(a)' => Active(a)
    BY <1>2
  <1>8. c.running
    OBVIOUS
  <1> HIDE DEF c
  <1> QED
    BY <1>0, <1>1, <1>2, <1>3, <1>5, <1>6, <1>7, <1>8, CascadeStepInv

LEMMA PopInv ==
    ASSUME RegistryInv, NEW p \in Deactivators, NEW current \in AgentId, cascade_pop(p, current)
    PROVE  RegistryInv'
  <1> DEFINE below == {k.to : k \in {k \in Links : k.from = current}}
             c == [cascading[p] EXCEPT !.to_process = @ \ {current}, !.children = below]
  <1>1. cascading[p] \in Cascading /\ cascading[p].running /\ cascading[p].children = {}
    BY DEF RegistryInv, RegistryTypeOK, cascade_pop
  <1>2. cascading' = [cascading EXCEPT ![p] = c] /\ UNCHANGED <<agents, delegations, delegating>>
    BY DEF RegistryInv, RegistryTypeOK, cascade_pop, Links
  <1>0. /\ unwalked' \subseteq AgentId /\ missed' \subseteq AgentId
        /\ \A a, b : LeftBehind(a, b)' <=> LeftBehind(a, b)
    BY LeftKept DEF cascade_pop
  <1>3. below \subseteq AgentId
    BY LinksType DEF RegistryInv
  <1>4. /\ c \in Cascading
        /\ c.running
        /\ c.to_process = cascading[p].to_process \ {current}
        /\ c.children = below
        /\ c.deactivated = cascading[p].deactivated
    BY <1>1, <1>3 DEF Cascading
  <1>5. (\A a : Exists(a)' <=> Exists(a)) /\ (\A a : Active(a)' <=> Active(a))
    BY <1>2 DEF Exists, Active
  <1>6. ASSUME NEW l \in Links, l.live, ~Active(l.from)'
        PROVE  \/ ~Active(l.to)'
               \/ l.from \in c.to_process \/ l.to \in c.children
               \/ \E q \in Deactivators \ {p} :
                     l.from \in cascading[q].to_process \/ l.to \in cascading[q].children
               \/ LeftBehind(l.from, l.to)'
    <2>1. l.from = current => l.to \in below
      OBVIOUS
    <2> QED BY <1>0, <1>1, <1>4, <1>5, <1>6, <2>1, ProgressWithout
  <1>7. \A a \in c.deactivated : Exists(a) /\ ~Active(a)'
    BY <1>4, <1>5 DEF RegistryInv, ReportedInactive
  <1>8. agents' \in [AgentId -> Agents \cup {Unregistered}]
    BY <1>2 DEF RegistryInv, RegistryTypeOK
  <1> HIDE DEF c
  <1> QED
    BY <1>0, <1>2, <1>4, <1>5, <1>6, <1>7, <1>8, CascadeStepInv

LEMMA ChildInv ==
    ASSUME RegistryInv, NEW p \in Deactivators, NEW child \in AgentId, cascade_child(p, child)
    PROVE  RegistryInv'
  <1>1. cascading[p] \in Cascading /\ child \in cascading[p].children
    BY DEF RegistryInv, RegistryTypeOK, cascade_child
  <1>2. cascading[p].running
    BY <1>1 DEF RegistryInv, IdleIsEmpty, Cascading
  <1>0. /\ unwalked' \subseteq AgentId /\ missed' \subseteq AgentId
        /\ \A a, b : LeftBehind(a, b)' <=> LeftBehind(a, b)
    BY LeftKept DEF cascade_child
  <1>3. CASE Active(child)
    <2> DEFINE c == [cascading[p] EXCEPT !.children = @ \ {child},
                                         !.to_process = @ \cup {child},
                                         !.deactivated = @ \cup {child}]
    <2>1. /\ agents' = [agents EXCEPT ![child].active = FALSE]
          /\ cascading' = [cascading EXCEPT ![p] = c]
          /\ UNCHANGED <<delegations, delegating>>
      BY <1>3 DEF RegistryInv, RegistryTypeOK, cascade_child
    <2>2. /\ agents' \in [AgentId -> Agents \cup {Unregistered}]
          /\ \A a \in AgentId : Exists(a)' <=> Exists(a)
          /\ \A a \in AgentId : Active(a)' <=> Active(a) /\ a # child
      BY <1>3, <2>1, Deactivated DEF RegistryInv, Active
    <2>3. /\ c \in Cascading
          /\ c.running
          /\ c.children = cascading[p].children \ {child}
          /\ c.to_process = cascading[p].to_process \cup {child}
          /\ c.deactivated = cascading[p].deactivated \cup {child}
      BY <1>1, <1>2 DEF Cascading
    <2>4. ASSUME NEW l \in Links, l.live, ~Active(l.from)'
          PROVE  \/ ~Active(l.to)'
                 \/ l.from \in c.to_process \/ l.to \in c.children
                 \/ \E q \in Deactivators \ {p} :
                       l.from \in cascading[q].to_process \/ l.to \in cascading[q].children
                 \/ LeftBehind(l.from, l.to)'
      <3>1. l.from \in AgentId /\ l.to \in AgentId
        BY LinksType DEF RegistryInv
      <3>2. CASE l.from = child
        BY <2>3, <3>2
      <3>3. CASE l.to = child
        BY <2>2, <3>1, <3>3
      <3>4. CASE ~Active(l.from) /\ l.to # child
        BY <1>0, <2>2, <2>3, <2>4, <3>1, <3>4, ProgressWithout
      <3> QED BY <2>2, <2>4, <3>1, <3>2, <3>3, <3>4
    <2>5. \A a \in c.deactivated : Exists(a) /\ ~Active(a)'
      <3>1. cascading[p].deactivated \subseteq AgentId
        BY <1>1 DEF Cascading
      <3>2. \A a \in cascading[p].deactivated : Exists(a) /\ ~Active(a)
        BY DEF RegistryInv, ReportedInactive
      <3>3. Exists(child) /\ ~Active(child)'
        BY <1>3, <2>2 DEF Active
      <3> QED BY <2>2, <2>3, <3>1, <3>2, <3>3
    <2>6. \A a \in AgentId : Active(a)' => Active(a)
      BY <2>2
    <2> HIDE DEF c
    <2> QED BY <1>0, <2>1, <2>2, <2>3, <2>4, <2>5, <2>6, CascadeStepInv
  <1>4. CASE ~Active(child)
    <2> DEFINE c == [cascading[p] EXCEPT !.children = @ \ {child}]
    <2>1. cascading' = [cascading EXCEPT ![p] = c] /\ UNCHANGED <<agents, delegations, delegating>>
      BY <1>4 DEF RegistryInv, RegistryTypeOK, cascade_child
    <2>2. (\A a : Exists(a)' <=> Exists(a)) /\ (\A a : Active(a)' <=> Active(a))
      BY <2>1 DEF Exists, Active
    <2>3. /\ c \in Cascading
          /\ c.running
          /\ c.children = cascading[p].children \ {child}
          /\ c.to_process = cascading[p].to_process
          /\ c.deactivated = cascading[p].deactivated
      BY <1>1, <1>2 DEF Cascading
    <2>4. ASSUME NEW l \in Links, l.live, ~Active(l.from)'
          PROVE  \/ ~Active(l.to)'
                 \/ l.from \in c.to_process \/ l.to \in c.children
                 \/ \E q \in Deactivators \ {p} :
                       l.from \in cascading[q].to_process \/ l.to \in cascading[q].children
                 \/ LeftBehind(l.from, l.to)'
      BY <1>0, <1>4, <2>2, <2>3, <2>4, ProgressWithout
    <2>5. \A a \in c.deactivated : Exists(a) /\ ~Active(a)'
      BY <2>2, <2>3 DEF RegistryInv, ReportedInactive
    <2>6. agents' \in [AgentId -> Agents \cup {Unregistered}]
      BY <2>1 DEF RegistryInv, RegistryTypeOK
    <2> HIDE DEF c
    <2> QED BY <1>0, <2>1, <2>2, <2>3, <2>4, <2>5, <2>6, CascadeStepInv
  <1> QED BY <1>3, <1>4

LEMMA ReturnInv ==
    ASSUME RegistryInv, NEW p \in Deactivators, cascade_return(p)
    PROVE  RegistryInv'
  <1>1. /\ cascading' = [cascading EXCEPT ![p] = NoCascade]
        /\ UNCHANGED <<agents, delegations, delegating>>
        /\ cascading[p].to_process = {} /\ cascading[p].children = {}
    BY DEF cascade_return, CascadeDone
  <1>0. /\ unwalked' \subseteq AgentId /\ missed' \subseteq AgentId
        /\ \A a, b : LeftBehind(a, b)' <=> LeftBehind(a, b)
    BY LeftKept DEF cascade_return
  <1>2. /\ NoCascade \in Cascading
        /\ NoCascade.to_process = {} /\ NoCascade.children = {} /\ NoCascade.deactivated = {}
    BY DEF NoCascade, Cascading
  <1>3. (\A a : Exists(a)' <=> Exists(a)) /\ (\A a : Active(a)' <=> Active(a))
    BY <1>1 DEF Exists, Active
  <1>4. ASSUME NEW l \in Links, l.live, ~Active(l.from)'
        PROVE  \/ ~Active(l.to)'
               \/ \E q \in Deactivators \ {p} :
                     l.from \in cascading[q].to_process \/ l.to \in cascading[q].children
               \/ LeftBehind(l.from, l.to)'
    BY <1>0, <1>1, <1>3, <1>4, ProgressWithout
  <1>5. agents' \in [AgentId -> Agents \cup {Unregistered}]
    BY <1>1 DEF RegistryInv, RegistryTypeOK
  <1> QED
    BY <1>0, <1>1, <1>2, <1>3, <1>4, <1>5, CascadeStepInv

(* What the dropped cascade had left is what is left behind.               *)
LEMMA DroppedInv ==
    ASSUME RegistryInv, NEW p \in Deactivators, cascade_dropped(p)
    PROVE  RegistryInv'
  <1>1. /\ cascading' = [cascading EXCEPT ![p] = NoCascade]
        /\ unwalked' = unwalked \cup cascading[p].to_process
        /\ missed' = missed \cup cascading[p].children
        /\ UNCHANGED <<agents, delegations, delegating>>
    BY DEF cascade_dropped
  <1>2. /\ NoCascade \in Cascading
        /\ NoCascade.to_process = {} /\ NoCascade.children = {} /\ NoCascade.deactivated = {}
    BY DEF NoCascade, Cascading
  <1>3. (\A a : Exists(a)' <=> Exists(a)) /\ (\A a : Active(a)' <=> Active(a))
    BY <1>1 DEF Exists, Active
  <1>4. unwalked' \subseteq AgentId /\ missed' \subseteq AgentId
    BY <1>1 DEF RegistryInv, RegistryTypeOK, Cascading
  <1>5. \A a, b : LeftBehind(a, b)' <=>
           \/ LeftBehind(a, b) \/ a \in cascading[p].to_process \/ b \in cascading[p].children
    BY <1>1 DEF LeftBehind
  <1>6. ASSUME NEW l \in Links, l.live, ~Active(l.from)'
        PROVE  \/ ~Active(l.to)'
               \/ \E q \in Deactivators \ {p} :
                     l.from \in cascading[q].to_process \/ l.to \in cascading[q].children
               \/ LeftBehind(l.from, l.to)'
    BY <1>3, <1>5, <1>6, ProgressWithout
  <1>7. agents' \in [AgentId -> Agents \cup {Unregistered}]
    BY <1>1 DEF RegistryInv, RegistryTypeOK
  <1> QED
    BY <1>1, <1>2, <1>3, <1>4, <1>6, <1>7, CascadeStepInv

LEMMA RegistryStepInv == RegistryInv /\ [RegistryNext]_registryVars => RegistryInv'
  <1> SUFFICES ASSUME RegistryInv, [RegistryNext]_registryVars PROVE RegistryInv'
    OBVIOUS
  <1>1. ASSUME NEW a \in AgentId, NEW owner \in Owner, NEW caps \in Capabilities,
               NEW expires \in Expiries, register_agent(a, owner, caps, expires)
        PROVE  RegistryInv'
    BY <1>1, RegisterInv
  <1>2. ASSUME NEW p \in Delegators, NEW from \in AgentId, NEW to \in AgentId,
               NEW scopes \in SUBSET Scope, delegation_check(p, from, to, scopes)
        PROVE  RegistryInv'
    <2> DEFINE d == [step |-> "checked", from |-> from, to |-> to, scope_narrowing |-> scopes]
    <2>1. d \in Delegating
      BY DEF Delegating
    <2>2. /\ Exists(from) /\ Exists(to)
          /\ delegating' = [delegating EXCEPT ![p] = d]
          /\ UNCHANGED <<agents, delegations, cascading, dropped>>
      BY <1>2 DEF delegation_check, Active
    <2>3. d.step # "idle" => Exists(d.from) /\ Exists(d.to)
      BY <2>2
    <2> HIDE DEF d
    <2> QED BY <2>1, <2>2, <2>3, DelegatingInv
  <1>3. ASSUME NEW p \in Delegators, delegation_cycle_check(p)
        PROVE  RegistryInv'
    <2> DEFINE old == delegating[p]
               d == IF WouldCycle(old.from, old.to) THEN Idle ELSE [old EXCEPT !.step = "acyclic"]
    <2>1. /\ old.step = "checked"
          /\ delegating' = [delegating EXCEPT ![p] = d]
          /\ UNCHANGED <<agents, delegations, cascading, dropped>>
      BY <1>3 DEF delegation_cycle_check
    <2>2. /\ old \in [step: {"checked", "acyclic"}, from: AgentId, to: AgentId,
                      scope_narrowing: SUBSET Scope]
          /\ Exists(old.from) /\ Exists(old.to)
      BY <2>1 DEF RegistryInv, RegistryTypeOK, Delegating, DelegatingExist
    <2>3. d \in Delegating /\ (d.step # "idle" => Exists(d.from) /\ Exists(d.to))
      BY <2>2 DEF Delegating, Idle
    <2> HIDE DEF d
    <2> QED BY <2>1, <2>3, DelegatingInv
  <1>4. ASSUME NEW p \in Delegators, delegation_push(p)
        PROVE  RegistryInv'
    BY <1>4, PushInv
  <1>5. ASSUME NEW p \in Deactivators, NEW id \in AgentId, cascade_start(p, id)
        PROVE  RegistryInv'
    BY <1>5, StartInv
  <1>6. ASSUME NEW p \in Deactivators, NEW a \in AgentId, cascade_pop(p, a)
        PROVE  RegistryInv'
    BY <1>6, PopInv
  <1>7. ASSUME NEW p \in Deactivators, NEW a \in AgentId, cascade_child(p, a)
        PROVE  RegistryInv'
    BY <1>7, ChildInv
  <1>8. ASSUME NEW p \in Deactivators, cascade_return(p)
        PROVE  RegistryInv'
    BY <1>8, ReturnInv
  <1>10. ASSUME NEW p \in Deactivators, cascade_dropped(p)
         PROVE  RegistryInv'
    BY <1>10, DroppedInv
  <1>11. ASSUME NEW p \in Delegators, delegation_dropped(p)
         PROVE  RegistryInv'
    <2>1. /\ delegating' = [delegating EXCEPT ![p] = Idle]
          /\ UNCHANGED <<agents, delegations, cascading, dropped>>
      BY <1>11 DEF delegation_dropped
    <2>2. Idle \in Delegating /\ Idle.step = "idle"
      BY DEF Delegating, Idle
    <2> QED BY <2>1, <2>2, DelegatingInv
  <1>9. CASE UNCHANGED registryVars
    <2>1. UNCHANGED <<agents, delegations, delegating, cascading, unwalked, missed>>
      BY <1>9 DEF registryVars, dropped
    <2>2. Links' = Links /\ (\A a : Exists(a)' <=> Exists(a)) /\ (\A a : Active(a)' <=> Active(a))
      BY <2>1 DEF Links, Exists, Active
    <2> QED BY <2>1, <2>2 DEF RegistryInv, RegistryTypeOK, LinkedExist, DelegatingExist,
                             IdleIsEmpty, ReportedInactive, CascadeProgress, Pending, LeftBehind
  <1> QED
    BY <1>1, <1>2, <1>3, <1>4, <1>5, <1>6, <1>7, <1>8, <1>9, <1>10, <1>11
       DEF RegistryNext, DelegationNext, CascadeNext

LEMMA RegistryInvariant == RegistrySpec => []RegistryInv
  BY RegistryInitInv, RegistryStepInv, PTL DEF RegistrySpec

-----------------------------------------------------------------------------
(* registry.rs: the registry keeps its types, whatever requests run        *)
(* together.                                                               *)
THEOREM RegistryTypes == RegistrySpec => []RegistryTypeOK
  <1>1. RegistryInv => RegistryTypeOK
    BY DEF RegistryInv
  <1> QED BY <1>1, RegistryInvariant, PTL

(* registry.rs, cascade_deactivate: any number of cascades over and        *)
(* through each other, with delegations and registrations in between and   *)
(* clients that hang up: a delegate whose parent delegated while active is *)
(* inactive once its parent is, or some cascade is still on its way to it, *)
(* or one was dropped on its way to it.                                    *)
THEOREM CascadeSafety == RegistrySpec => []CascadeProgress
  <1>1. RegistryInv => CascadeProgress
    BY DEF RegistryInv
  <1> QED BY <1>1, RegistryInvariant, PTL

(* ... so that once no cascade is under way, none is left active but by a  *)
(* cascade that was dropped.                                               *)
THEOREM CascadeCompleteness == RegistrySpec => []CascadeComplete
  <1>1. RegistryInv => CascadeComplete
    <2> SUFFICES ASSUME RegistryInv, Quiet, NEW l \in Links, l.live, ~Active(l.from)
                 PROVE  ~Active(l.to) \/ LeftBehind(l.from, l.to)
      BY DEF CascadeComplete
    <2>1. \A p \in Deactivators : cascading[p].to_process = {} /\ cascading[p].children = {}
      BY DEF RegistryInv, IdleIsEmpty, Quiet
    <2> QED BY <2>1 DEF RegistryInv, CascadeProgress, Pending
  <1> QED BY <1>1, RegistryInvariant, PTL

(* What CascadeAdvances says of one request and one step. *)
Advances(p) ==
    LET before == cascading[p]  after == cascading'[p] IN
    before # after /\ before.running /\ after.running =>
       \/ Shrinks(after.deactivated, before.deactivated)
       \/ /\ after.deactivated = before.deactivated
          /\ \/ Shrinks(before.to_process, after.to_process)
             \/ /\ after.to_process = before.to_process
                /\ Shrinks(before.children, after.children)

LEMMA StepAdvances ==
    ASSUME RegistryInv, RegistryNext, NEW p \in Deactivators
    PROVE  Advances(p)
  <1>1. ASSUME cascading' = cascading PROVE Advances(p)
    BY <1>1 DEF Advances
  <1>2. cascading[p] \in Cascading
    BY DEF RegistryInv, RegistryTypeOK
  <1>3. ASSUME NEW id \in AgentId, cascade_start(p, id) PROVE Advances(p)
    BY <1>3 DEF cascade_start, Advances
  <1>4. ASSUME NEW a \in AgentId, cascade_pop(p, a) PROVE Advances(p)
    <2>1. /\ a \in cascading[p].to_process
          /\ cascading'[p].to_process = cascading[p].to_process \ {a}
          /\ cascading'[p].deactivated = cascading[p].deactivated
      BY <1>2, <1>4 DEF cascade_pop, RegistryInv, RegistryTypeOK, Cascading
    <2> QED BY <2>1 DEF Advances, Shrinks
  <1>5. ASSUME NEW a \in AgentId, cascade_child(p, a) PROVE Advances(p)
    <2>1. CASE Active(a)
      <3>1. a \notin cascading[p].deactivated
        BY <2>1 DEF RegistryInv, ReportedInactive
      <3>2. cascading'[p].deactivated = cascading[p].deactivated \cup {a}
        BY <1>2, <1>5, <2>1 DEF cascade_child, RegistryInv, RegistryTypeOK, Cascading
      <3> QED BY <3>1, <3>2 DEF Advances, Shrinks
    <2>2. CASE ~Active(a)
      <3>1. /\ a \in cascading[p].children
            /\ cascading'[p].children = cascading[p].children \ {a}
            /\ cascading'[p].to_process = cascading[p].to_process
            /\ cascading'[p].deactivated = cascading[p].deactivated
        BY <1>2, <1>5, <2>2 DEF cascade_child, RegistryInv, RegistryTypeOK, Cascading
      <3> QED BY <3>1 DEF Advances, Shrinks
    <2> QED BY <2>1, <2>2
  <1>6. ASSUME cascade_return(p) \/ cascade_dropped(p) PROVE Advances(p)
    <2>1. ~cascading'[p].running
      BY <1>6 DEF cascade_return, cascade_dropped, NoCascade, RegistryInv, RegistryTypeOK
    <2> QED BY <2>1 DEF Advances
  <1>7. ASSUME NEW q \in Deactivators, q # p,
               (\E id \in AgentId : cascade_start(q, id)) \/ CascadeNext(q)
        PROVE  Advances(p)
    <2>1. cascading'[p] = cascading[p]
      BY <1>7 DEF CascadeNext, cascade_start, cascade_pop, cascade_child, cascade_return,
                  cascade_dropped, RegistryInv, RegistryTypeOK
    <2> QED BY <2>1 DEF Advances
  <1>8. ASSUME DelegationNext PROVE Advances(p)
    BY <1>1, <1>8 DEF DelegationNext, delegation_check, delegation_cycle_check, delegation_push,
                      delegation_dropped
  <1>9. ASSUME NEW a \in AgentId, NEW owner \in Owner, NEW caps \in Capabilities,
                NEW expires \in Expiries, register_agent(a, owner, caps, expires)
         PROVE  Advances(p)
    BY <1>1, <1>9 DEF register_agent
  <1> QED
    BY <1>3, <1>4, <1>5, <1>6, <1>7, <1>8, <1>9
       DEF RegistryNext, CascadeNext

(* registry.rs, cascade_deactivate, the loop: every step of a cascade      *)
(* deactivates an agent it had not reported or shortens what it has left,  *)
(* though links form cycles and other requests add to them.                *)
THEOREM CascadeEnds == RegistrySpec => CascadeAdvances
  <1>1. RegistryInv /\ [RegistryNext]_registryVars
          => [\A p \in Deactivators : Advances(p)]_registryVars
    BY StepAdvances
  <1> QED BY <1>1, RegistryInvariant, PTL DEF RegistrySpec, CascadeAdvances, Advances

-----------------------------------------------------------------------------
(* Chains.  While every link was pushed alone, no first links form a       *)
(* cycle, and a request past its cycle check has an agent to delegate to   *)
(* that is nowhere above the one it delegates from.                        *)
AllAlone == \A l \in Links : l.alone

(* A set of agents that holds from, not to, and no walk leaves.            *)
Above(from, to) ==
    \E V \in SUBSET AgentId :
        /\ from \in V /\ to \notin V
        /\ \A v \in V : IncomingOf(v) # {} => FirstLinkTo(v).from \in V

ChainInv ==
    /\ \A p \in Delegators : delegating[p].step # "idle" => delegating[p].from # delegating[p].to
    /\ AllAlone =>
          /\ Rooted
          /\ \A p \in Delegators :
                delegating[p].step = "acyclic" => Above(delegating[p].from, delegating[p].to)

(* The cycle check: what the walk from "from" visits.                      *)
LEMMA NotUpstream ==
    ASSUME RegistryTypeOK, Rooted, NEW from \in AgentId, NEW to \in AgentId, from # to,
           ~WouldCycle(from, to)
    PROVE  Above(from, to)
  <1> DEFINE A == Ancestor(from)
             V == {v \in AgentId : \E n \in Nat : A[n] = v}
             N == Cardinality(AgentId)
  <1>1. /\ A \in [Nat -> AgentId \cup {Unregistered}] /\ A[0] = from
        /\ \A n \in Nat : A[n + 1] = Up[A[n]]
    BY AncestorWalks
  <1>2. N \in Nat /\ A[N] = Unregistered
    BY WalkEnds
  <1>3. \A n \in Nat : n >= N => A[n] = Unregistered
    BY <1>2, PastTheRoot
  <1>4. \A n \in 1..N : A[n] # to
    BY DEF WouldCycle
  <1> HIDE DEF A, N
  <1>5. to \notin V
    <2> SUFFICES ASSUME NEW n \in Nat, A[n] = to PROVE FALSE
      OBVIOUS
    <2>1. n # 0 /\ ~(n >= N)
      BY <1>1, <1>3, RegistryAssumption
    <2>2. n \in 1..N
      BY <1>2, <2>1
    <2> QED BY <1>4, <2>2
  <1>6. from \in V
    BY <1>1
  <1>7. ASSUME NEW v \in V, IncomingOf(v) # {} PROVE FirstLinkTo(v).from \in V
    <2>1. PICK n \in Nat : A[n] = v
      OBVIOUS
    <2>2. A[n + 1] = FirstLinkTo(v).from
      BY <1>1, <1>7, <2>1, RegistryAssumption DEF Up
    <2>3. FirstLinkTo(v).from \in AgentId /\ n + 1 \in Nat
      BY <1>7, FirstLinkType
    <2> QED BY <2>2, <2>3
  <1>8. V \in SUBSET AgentId
    OBVIOUS
  <1> HIDE DEF V
  <1> QED BY <1>5, <1>6, <1>7, <1>8 DEF Above

(* A link appended is the first one of its agent only if there was none.   *)
LEMMA FirstLinkKept ==
    ASSUME RegistryTypeOK, NEW l \in DelegationLinks, delegations' = Append(delegations, l),
           NEW a
    PROVE  /\ IncomingOf(a) # {} => IncomingOf(a)' # {} /\ FirstLinkTo(a)' = FirstLinkTo(a)
           /\ IncomingOf(a) = {} /\ l.to # a => IncomingOf(a)' = {}
           /\ IncomingOf(a) = {} /\ l.to = a => FirstLinkTo(a)' = l
  <1> DEFINE n == Len(delegations)
  <1>1. /\ DOMAIN delegations = 1..n /\ n \in Nat /\ DOMAIN delegations' = 1..(n + 1)
        /\ \A i \in 1..n : delegations'[i] = delegations[i]
        /\ delegations'[n + 1] = l
    BY DEF RegistryTypeOK
  <1> HIDE DEF n
  <1>2. IncomingOf(a)' = IF l.to = a THEN IncomingOf(a) \cup {n + 1} ELSE IncomingOf(a)
    BY <1>1 DEF IncomingOf
  <1>3. ASSUME NEW m \in IncomingOf(a)', \A k \in IncomingOf(a)' : m <= k
        PROVE  FirstLinkTo(a)' = delegations'[m]
    <2>1. IncomingOf(a)' \in SUBSET Nat
      BY <1>1 DEF IncomingOf
    <2> DEFINE T == IncomingOf(a)'
    <2>2. (CHOOSE i \in T : \A j \in T : i <= j) = m
      <3>1. T \in SUBSET Nat /\ m \in T /\ \A k \in T : m <= k
        BY <1>3, <2>1
      <3> HIDE DEF T
      <3> QED BY <3>1, LeastChosen
    <2> QED BY <2>2 DEF FirstLinkTo
  <1>4. ASSUME IncomingOf(a) # {} PROVE IncomingOf(a)' # {} /\ FirstLinkTo(a)' = FirstLinkTo(a)
    <2>1. PICK m \in IncomingOf(a) : (\A k \in IncomingOf(a) : m <= k)
                                      /\ FirstLinkTo(a) = delegations[m]
      BY <1>4, FirstLink
    <2>2. m \in 1..n
      BY <1>1 DEF IncomingOf
    <2>3. m \in Nat /\ m <= n + 1
      BY <1>1, <2>2
    <2>4. IncomingOf(a)' \subseteq IncomingOf(a) \cup {n + 1} /\ m \in IncomingOf(a)'
      BY <1>2
    <2>5. \A k \in IncomingOf(a)' : m <= k
      BY <2>1, <2>3, <2>4
    <2> QED BY <1>1, <1>3, <2>1, <2>2, <2>4, <2>5
  <1>5. ASSUME IncomingOf(a) = {}, l.to = a PROVE FirstLinkTo(a)' = l
    <2>1. n + 1 \in IncomingOf(a)' /\ \A k \in IncomingOf(a)' : n + 1 <= k
      BY <1>1, <1>2, <1>5
    <2> QED BY <1>1, <1>3, <2>1
  <1> QED BY <1>2, <1>4, <1>5

LEMMA PushRooted ==
    ASSUME RegistryTypeOK, Rooted, NEW l \in DelegationLinks, Above(l.from, l.to),
           delegations' = Append(delegations, l)
    PROVE  Rooted'
  <1> SUFFICES ASSUME NEW S \in SUBSET AgentId, S # {},
                      \A a \in S : IncomingOf(a)' # {} /\ FirstLinkTo(a)'.from \in S
               PROVE  FALSE
    BY DEF Rooted
  <1>1. PICK V \in SUBSET AgentId :
           /\ l.from \in V /\ l.to \notin V
           /\ \A v \in V : IncomingOf(v) # {} => FirstLinkTo(v).from \in V
    BY DEF Above
  <1>2. \A a \in S : a # l.to \/ IncomingOf(a) # {} =>
           IncomingOf(a) # {} /\ FirstLinkTo(a).from \in S
    BY FirstLinkKept
  <1>3. l.to \in S /\ l.from \in S
    <2>1. PICK a \in S : IncomingOf(a) = {} \/ FirstLinkTo(a).from \notin S
      BY DEF Rooted
    <2>2. a = l.to /\ IncomingOf(a) = {}
      BY <1>2, <2>1
    <2>3. FirstLinkTo(a)' = l
      BY <2>2, FirstLinkKept
    <2> QED BY <2>2, <2>3
  <1>4. S \cap V \in SUBSET AgentId /\ S \cap V # {}
    BY <1>1, <1>3
  <1>5. \A a \in S \cap V : IncomingOf(a) # {} /\ FirstLinkTo(a).from \in S \cap V
    BY <1>1, <1>2
  <1> QED BY <1>4, <1>5 DEF Rooted

LEMMA ChainStep == RegistryInv /\ ChainInv /\ [RegistryNext]_registryVars => ChainInv'
  <1> SUFFICES ASSUME RegistryInv, ChainInv, [RegistryNext]_registryVars PROVE ChainInv'
    OBVIOUS
  <1>0. RegistryTypeOK
    BY DEF RegistryInv
  <1>1. ASSUME UNCHANGED delegations
        PROVE  /\ AllAlone' <=> AllAlone
               /\ Rooted' <=> Rooted
               /\ \A from, to : Above(from, to)' <=> Above(from, to)
    BY <1>1 DEF AllAlone, Links, Rooted, Above, IncomingOf, FirstLinkTo
  <1>2. ASSUME UNCHANGED <<delegations, delegating>> PROVE ChainInv'
    BY <1>1, <1>2 DEF ChainInv
  <1>3. ASSUME NEW p \in Delegators, NEW from \in AgentId, NEW to \in AgentId,
               NEW scopes \in SUBSET Scope, delegation_check(p, from, to, scopes)
        PROVE  ChainInv'
    <2>1. /\ from # to /\ UNCHANGED delegations
          /\ delegating'[p].step = "checked" /\ delegating'[p].from = from /\ delegating'[p].to = to
          /\ \A q \in Delegators \ {p} : delegating'[q] = delegating[q]
      BY <1>0, <1>3 DEF delegation_check, RegistryTypeOK
    <2> QED BY <1>1, <2>1 DEF ChainInv
  <1>4. ASSUME NEW p \in Delegators, delegation_cycle_check(p) PROVE ChainInv'
    <2> DEFINE d == delegating[p]
    <2>1. /\ d.step = "checked" /\ UNCHANGED delegations
          /\ delegating' = [delegating EXCEPT ![p] =
                 IF WouldCycle(d.from, d.to) THEN Idle ELSE [d EXCEPT !.step = "acyclic"]]
          /\ d \in [step: {"checked", "acyclic"}, from: AgentId, to: AgentId,
                      scope_narrowing: SUBSET Scope]
      BY <1>0, <1>4 DEF delegation_cycle_check, RegistryTypeOK, Delegating
    <2>2. \A q \in Delegators \ {p} : delegating'[q] = delegating[q]
      BY <1>0, <2>1 DEF RegistryTypeOK
    <2>3. d.from # d.to /\ d.from \in AgentId /\ d.to \in AgentId
      BY <2>1 DEF ChainInv
    <2>4. CASE WouldCycle(d.from, d.to)
      <3>1. delegating'[p].step = "idle"
        BY <1>0, <2>1, <2>4 DEF RegistryTypeOK, Idle
      <3> QED BY <1>1, <2>1, <2>2, <3>1 DEF ChainInv
    <2>5. CASE ~WouldCycle(d.from, d.to)
      <3>1. delegating'[p].from = d.from /\ delegating'[p].to = d.to
        BY <1>0, <2>1, <2>5 DEF RegistryTypeOK
      <3>2. Rooted => Above(d.from, d.to)
        BY <1>0, <2>3, <2>5, NotUpstream
      <3> HIDE DEF d
      <3> QED BY <1>1, <2>1, <2>2, <2>3, <3>1, <3>2 DEF ChainInv
    <2> QED BY <2>4, <2>5
  <1>5. ASSUME NEW p \in Delegators, delegation_push(p) PROVE ChainInv'
    <2> DEFINE d == delegating[p]
               l == [from |-> d.from, to |-> d.to, scope_narrowing |-> d.scope_narrowing,
                     live |-> Active(d.from),
                     alone |-> \A q \in Delegators \ {p} : delegating[q].step # "acyclic"]
    <2>1. /\ d.step = "acyclic" /\ delegations' = Append(delegations, l)
          /\ delegating' = [delegating EXCEPT ![p] = Idle]
      BY <1>5 DEF delegation_push
    <2>2. /\ d \in [step: {"checked", "acyclic"}, from: AgentId, to: AgentId,
                      scope_narrowing: SUBSET Scope]
      BY <1>0, <2>1 DEF RegistryTypeOK, Delegating
    <2>3. Active(d.from) \in BOOLEAN
      BY <1>0, <2>2 DEF RegistryTypeOK, Active, Exists, Agents
    <2>4. l \in DelegationLinks
      BY <2>2, <2>3 DEF DelegationLinks
    <2>5. /\ l.from = d.from /\ l.to = d.to
          /\ l.alone <=> \A q \in Delegators \ {p} : delegating[q].step # "acyclic"
      OBVIOUS
    <2>6. /\ delegating'[p].step = "idle"
          /\ \A q \in Delegators \ {p} : delegating'[q] = delegating[q]
      BY <1>0, <2>1 DEF RegistryTypeOK, Idle
    <2> HIDE DEF l
    <2>7. Links' = Links \cup {l}
      BY <1>0, <2>1, <2>4, LinksAppended
    <2>8. ASSUME AllAlone' PROVE AllAlone /\ l.alone
      BY <2>7, <2>8 DEF AllAlone
    <2>9. ASSUME AllAlone' PROVE Rooted'
      <3>1. Rooted /\ Above(l.from, l.to)
        BY <2>1, <2>5, <2>8, <2>9 DEF ChainInv
      <3> QED BY <1>0, <2>1, <2>4, <3>1, PushRooted
    <2>10. ASSUME AllAlone', NEW q \in Delegators PROVE delegating'[q].step # "acyclic"
      BY <2>5, <2>6, <2>8, <2>10
    <2> QED BY <2>6, <2>9, <2>10 DEF ChainInv
  <1>9. ASSUME NEW p \in Delegators, delegation_dropped(p) PROVE ChainInv'
    <2>1. /\ delegating'[p].step = "idle" /\ UNCHANGED delegations
          /\ \A q \in Delegators \ {p} : delegating'[q] = delegating[q]
      BY <1>0, <1>9 DEF delegation_dropped, RegistryTypeOK, Idle
    <2> QED BY <1>1, <2>1 DEF ChainInv
  <1>6. CASE \E a \in AgentId, owner \in Owner, caps \in Capabilities, expires \in Expiries :
               register_agent(a, owner, caps, expires)
    BY <1>2, <1>6 DEF register_agent
  <1>7. CASE \E p \in Deactivators : (\E id \in AgentId : cascade_start(p, id)) \/ CascadeNext(p)
    BY <1>2, <1>7 DEF CascadeNext, cascade_start, cascade_pop, cascade_child, cascade_return,
                      cascade_dropped
  <1>8. CASE UNCHANGED registryVars
    BY <1>2, <1>8 DEF registryVars
  <1> QED BY <1>3, <1>4, <1>5, <1>6, <1>7, <1>8, <1>9 DEF RegistryNext, DelegationNext

(* registry.rs, create_delegation: as long as no two delegations were past *)
(* their cycle checks together, every chain that get_chain_for_agent walks *)
(* ends, within as many links as there are agents.                         *)
THEOREM ChainSafety == RegistrySpec => []ChainsEnd
  <1>1. RegistryInit => ChainInv
    <2> SUFFICES ASSUME RegistryInit PROVE ChainInv
      OBVIOUS
    <2>1. \A a : IncomingOf(a) = {}
      BY DEF RegistryInit, IncomingOf
    <2>2. \A p \in Delegators : delegating[p].step = "idle"
      BY DEF RegistryInit, Idle
    <2> QED BY <2>1, <2>2 DEF ChainInv, Rooted
  <1>2. RegistryInv /\ ChainInv => ChainsEnd
    BY WalkEnds DEF RegistryInv, ChainInv, AllAlone, ChainsEnd
  <1> QED BY <1>1, <1>2, ChainStep, RegistryInvariant, PTL DEF RegistrySpec
=============================================================================
