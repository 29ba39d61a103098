---------------------------- MODULE AccessProofs ----------------------------
(***************************************************************************)
(* Who is let in, for any number of clients, agents and tokens.            *)
(*                                                                         *)
(* OAuth: with any number of validations and refreshes under way together, *)
(* a token that is accepted is genuine, a refresh on a miss brings the key *)
(* it fetched, and refreshes on a miss are bounded.  The registry over a   *)
(* database: only a failed call strands a row, and delegation chains end.  *)
(* The admin API: its limiter is exact and its blocklist holds.            *)
(***************************************************************************)
EXTENDS OAuthValidator, StorageBackedRegistry, AdminAccess,
        FiniteSetTheorems, WellFoundedInduction, TLAPS

-----------------------------------------------------------------------------
(* Types.                                                                  *)

LEMMA IssuerAt ==
    ASSUME NEW k \in 1..Len(IssuerSeq)
    PROVE  IssuerSeq[k] \in Issuer
  BY OAuthAssumption

LEMMA LoopType == Len(IssuerSeq) \in Nat \ {0} /\ DOMAIN IssuerSeq = 1..Len(IssuerSeq)
  BY OAuthAssumption

LEMMA IdpType ==
    ASSUME TypeOK, NEW i \in Issuer
    PROVE  /\ idp[i] \in Seq(SUBSET Kid) /\ Len(idp[i]) \in Nat \ {0}
           /\ \A g \in 1..Len(idp[i]) : idp[i][g] \in SUBSET Kid
           /\ cache[i] \in [keys: SUBSET Kid, gen: Nat] /\ cache[i].gen \in Nat
  BY DEF TypeOK

LEMMA TokenIs ==
    ASSUME NEW t \in Tokens
    PROVE  t.iss \in Issuer /\ t.signer \in Issuer
  BY OAuthAssumption DEF TokenType

LEMMA Refresher ==
    ASSUME TypeOK
    PROVE  /\ refresher.k \in 1..Len(IssuerSeq) /\ refresher.gen \in Nat
           /\ IssuerSeq[refresher.k] \in Issuer
  BY LoopType, IssuerAt DEF TypeOK

LEMMA ReqType ==
    ASSUME TypeOK, NEW p \in Requests
    PROVE  /\ req[p] \in Progress
           /\ req[p].at \in {"idle", "stamp", "fetch", "store", "done"}
           /\ req[p].at # "idle" => req[p].token \in Tokens
           /\ req[p].at \in {"fetch", "store"} =>
                 /\ req[p] \in [at: {"fetch", "store"}, token: Tokens,
                                k: 1..(Len(IssuerSeq) + 1), own: Nat, gen: Nat]
                 /\ req[p].k \in 1..(Len(IssuerSeq) + 1)
                 /\ req[p].own \in Nat /\ req[p].gen \in Nat
  BY DEF TypeOK, Progress, Idle

-----------------------------------------------------------------------------
(* What validation with the keys there are can say.                        *)

(* What AcceptedIsGenuine asks of a token. *)
Genuine(t) ==
    /\ t.asymmetric /\ ~t.expired /\ t.signer = t.iss
    /\ \E g \in DOMAIN idp[t.iss] : t.kid \in idp[t.iss][g]
    /\ t.aud # {} /\ Audiences[t.iss] # {} => t.aud \cap Audiences[t.iss] # {}

LEMMA AcceptsGenuine ==
    ASSUME TypeOK, CacheIsPublished, NEW t \in Tokens, validate_token(t) = "accepted"
    PROVE  Genuine(t)
  <1>1. /\ t.sound /\ t.asymmetric
        /\ \E i \in Issuer : t.kid \in cache[i].keys /\ Decodes(i, t)
    BY DEF validate_token
  <1>2. PICK i \in Issuer : t.kid \in cache[i].keys /\ Decodes(i, t)
    BY <1>1
  <1>3. /\ t.signer = i /\ t.iss = i /\ ~t.expired
        /\ t.aud # {} /\ Audiences[i] # {} => t.aud \cap Audiences[i] # {}
    BY <1>2 DEF Decodes
  <1>4. cache[i].gen \in 1..Len(idp[i]) /\ t.kid \in idp[i][cache[i].gen]
    <2>1. cache[i].gen \in Nat /\ cache[i].gen <= Len(idp[i]) /\ cache[i].gen # 0
      BY <1>2, IdpType DEF CacheIsPublished
    <2> QED BY <1>2, <2>1, IdpType DEF CacheIsPublished
  <1>5. DOMAIN idp[i] = 1..Len(idp[i])
    BY IdpType
  <1> QED BY <1>1, <1>3, <1>4, <1>5 DEF Genuine

LEMMA ValidateType ==
    ASSUME NEW t
    PROVE  validate_token(t) \in {"accepted", "rejected", "no_key"}
  BY DEF validate_token

LEMMA KeyThere ==
    ASSUME NEW t \in Tokens, t.kid \in cache[t.iss].keys
    PROVE  validate_token(t) # "no_key"
  BY TokenIs DEF validate_token

-----------------------------------------------------------------------------
(* One request takes a step; caches and issuers stand still.  If it comes  *)
(* to store keys, they are the newest.                                     *)
LEMMA RequestStep ==
    ASSUME OAuthInv, NEW p \in Requests, NEW f \in Progress, req' = [req EXCEPT ![p] = f],
           UNCHANGED <<idp, cache, last_refresh, refresher>>,
           cooling' \in BOOLEAN, rounds' \in Nat, RoundsCounted',
           f.at = "store" => f.k <= Len(IssuerSeq) /\ f.gen = Len(idp[IssuerSeq[f.k]]),
           f.at \in {"fetch", "store"} /\ f.own > 0 =>
              /\ f.own <= Len(idp[f.token.iss])
              /\ NoneOlder(f.token.iss, f.own)
              /\ \/ f.at = "store" /\ IssuerSeq[f.k] = f.token.iss
                 \/ KeyArrived(f) => cache[f.token.iss].gen >= f.own,
           f.at = "done" =>
              /\ f.result = "accepted" => Genuine(f.token)
              /\ f.helps => f.result # "no_key"
    PROVE  OAuthInv'
  <1>1. /\ req \in [Requests -> Progress] /\ req' \in [Requests -> Progress]
        /\ req'[p] = f /\ \A q \in Requests \ {p} : req'[q] = req[q]
    BY DEF OAuthInv, TypeOK
  <1>2. TypeOK'
    BY <1>1 DEF OAuthInv, TypeOK
  <1>3. f.at = "store" =>
           /\ f.k \in 1..Len(IssuerSeq) /\ IssuerSeq[f.k] \in Issuer
           /\ f.gen \in 1..Len(idp[IssuerSeq[f.k]])
    <2> SUFFICES ASSUME f.at = "store"
                 PROVE  /\ f.k \in 1..Len(IssuerSeq) /\ IssuerSeq[f.k] \in Issuer
                        /\ f.gen \in 1..Len(idp[IssuerSeq[f.k]])
      OBVIOUS
    <2>1. f.k \in 1..(Len(IssuerSeq) + 1)
      BY DEF Progress, Idle
    <2>2. f.k \in 1..Len(IssuerSeq)
      BY <2>1, LoopType
    <2> QED BY <2>2, IssuerAt, IdpType DEF OAuthInv
  <1>4. CacheIsPublished'
    BY DEF OAuthInv, CacheIsPublished
  <1>5. FetchedWasPublished'
    BY <1>1, <1>3 DEF OAuthInv, FetchedWasPublished
  <1>6. ASSUME NEW i \in Issuer, NEW own \in Nat, own <= Len(idp[i]), NoneOlder(i, own)
        PROVE  NoneOlder(i, own)'
    BY <1>1, <1>6 DEF NoneOlder
  <1>7. ASSUME NEW q \in Requests PROVE RefreshArrives(q)'
    <2>1. CASE q = p
      <3> SUFFICES ASSUME f.at \in {"fetch", "store"}, f.own > 0
                   PROVE  /\ f.own <= Len(idp[f.token.iss])
                          /\ NoneOlder(f.token.iss, f.own)'
                          /\ \/ f.at = "store" /\ IssuerSeq[f.k] = f.token.iss
                             \/ KeyArrived(f) => cache[f.token.iss].gen >= f.own
        BY <1>1, <2>1 DEF RefreshArrives, KeyArrived, NoneOlder
      <3>1. f.token \in Tokens /\ f.own \in Nat
        BY DEF Progress, Idle
      <3>2. f.token.iss \in Issuer
        BY <3>1, TokenIs
      <3> QED BY <1>6, <3>1, <3>2
    <2>2. CASE q # p
      <3>1. PICK r \in Progress : r = req[q]
        BY <1>1
      <3>2. req'[q] = r /\ req[q] = r /\ RefreshArrives(q)
        BY <1>1, <2>2, <3>1 DEF OAuthInv
      <3> SUFFICES ASSUME r.at \in {"fetch", "store"}, r.own > 0
                   PROVE  /\ r.own <= Len(idp[r.token.iss])
                          /\ NoneOlder(r.token.iss, r.own)'
                          /\ \/ r.at = "store" /\ IssuerSeq[r.k] = r.token.iss
                             \/ KeyArrived(r) => cache[r.token.iss].gen >= r.own
        BY <3>2 DEF RefreshArrives, KeyArrived, NoneOlder
      <3>3. r.own \in Nat /\ r.token.iss \in Issuer
        BY <3>2, ReqType, TokenIs DEF OAuthInv
      <3>4. /\ r.own <= Len(idp[r.token.iss])
            /\ NoneOlder(r.token.iss, r.own)
            /\ \/ r.at = "store" /\ IssuerSeq[r.k] = r.token.iss
               \/ KeyArrived(r) => cache[r.token.iss].gen >= r.own
        BY <3>2 DEF RefreshArrives
      <3> QED BY <1>6, <3>3, <3>4
    <2> QED BY <2>1, <2>2
  <1>8. AcceptedIsGenuine'
    BY <1>1 DEF OAuthInv, AcceptedIsGenuine, Genuine
  <1>9. MissRefreshHelps'
    BY <1>1 DEF OAuthInv, MissRefreshHelps
  <1> QED BY <1>2, <1>4, <1>5, <1>7, <1>8, <1>9 DEF OAuthInv

(* Nobody begins to stamp.                                                 *)
LEMMA RoundsKept ==
    ASSUME OAuthInv, Stamping' \subseteq Stamping, UNCHANGED <<cooling, rounds>>
    PROVE  RoundsCounted'
  <1>1. IsFiniteSet(Requests) /\ Stamping \subseteq Requests
    BY OAuthAssumption DEF Stamping
  <1>2. IsFiniteSet(Stamping)
    BY <1>1, FS_Subset
  <1>3. /\ Cardinality(Stamping') <= Cardinality(Stamping)
        /\ Cardinality(Stamping') \in Nat /\ Cardinality(Stamping) \in Nat
        /\ Cardinality(Requests) \in Nat
    BY <1>1, <1>2, FS_Subset, FS_CardinalityType
  <1>4. rounds \in Nat
    BY DEF OAuthInv, TypeOK
  <1> QED BY <1>3, <1>4 DEF OAuthInv, RoundsCounted

(* A request that goes to another stage than stamp.                        *)
LEMMA PlainStep ==
    ASSUME OAuthInv, NEW p \in Requests, NEW f \in Progress, Goto(p, f), f.at # "stamp",
           UNCHANGED <<idp, cache, last_refresh, cooling, refresher, rounds>>,
           f.at = "store" => f.k <= Len(IssuerSeq) /\ f.gen = Len(idp[IssuerSeq[f.k]]),
           f.at \in {"fetch", "store"} /\ f.own > 0 =>
              /\ f.own <= Len(idp[f.token.iss])
              /\ NoneOlder(f.token.iss, f.own)
              /\ \/ f.at = "store" /\ IssuerSeq[f.k] = f.token.iss
                 \/ KeyArrived(f) => cache[f.token.iss].gen >= f.own,
           f.at = "done" =>
              /\ f.result = "accepted" => Genuine(f.token)
              /\ f.helps => f.result # "no_key"
    PROVE  OAuthInv'
  <1>1. req' = [req EXCEPT ![p] = f] /\ req \in [Requests -> Progress]
    BY DEF Goto, OAuthInv, TypeOK
  <1>2. Stamping' \subseteq Stamping
    BY <1>1 DEF Stamping
  <1>3. RoundsCounted' /\ cooling' \in BOOLEAN /\ rounds' \in Nat
    BY <1>2, RoundsKept DEF OAuthInv, TypeOK
  <1> QED BY <1>1, <1>3, RequestStep

(* The token is validated with the keys there are, and that is the answer. *)
LEMMA AnswerStep ==
    ASSUME OAuthInv, NEW p \in Requests, NEW t \in Tokens, NEW helps \in BOOLEAN,
           Goto(p, Done(t, validate_token(t), helps)),
           helps => validate_token(t) # "no_key",
           UNCHANGED <<idp, cache, last_refresh, cooling, refresher, rounds>>
    PROVE  OAuthInv'
  <1> DEFINE result == validate_token(t)
             f == Done(t, result, helps)
  <1>1. result \in {"accepted", "rejected", "no_key"}
    BY ValidateType
  <1>2. result = "accepted" => Genuine(t)
    BY AcceptsGenuine DEF OAuthInv
  <1> HIDE DEF result
  <1>3. /\ f \in Progress /\ f.at = "done" /\ f.token = t /\ f.result = result /\ f.helps = helps
    BY <1>1 DEF Done, Progress
  <1>4. Goto(p, f) /\ (helps => result # "no_key")
    BY DEF result
  <1> HIDE DEF f
  <1> QED BY <1>2, <1>3, <1>4, PlainStep

LEMMA ProcessInv ==
    ASSUME OAuthInv, NEW p \in Requests, NEW t \in Tokens, process(p, t)
    PROVE  OAuthInv'
  BY AnswerStep DEF process, caches

(* The key is missing and no cooldown is running, so rounds is 0: however  *)
(* many requests are about to stamp, they are at most all of them.         *)
LEMMA FirstInv ==
    ASSUME OAuthInv, NEW p \in Requests, NEW t \in Tokens, validate_first(p, t)
    PROVE  OAuthInv'
  <1>1. UNCHANGED <<idp, cache, last_refresh, cooling, refresher, rounds>>
    BY DEF validate_first, caches
  <1>2. CASE Goto(p, Done(t, validate_token(t), FALSE))
    BY <1>1, <1>2, AnswerStep
  <1>3. CASE ~cooling /\ Goto(p, [at |-> "stamp", token |-> t])
    <2> DEFINE f == [at |-> "stamp", token |-> t]
    <2>1. f \in Progress /\ f.at = "stamp"
      BY DEF Progress
    <2>2. req' = [req EXCEPT ![p] = f]
      BY <1>3 DEF Goto
    <2>3. RoundsCounted'
      <3>1. rounds = 0 /\ IsFiniteSet(Requests) /\ Stamping' \subseteq Requests
        BY <1>3, OAuthAssumption DEF OAuthInv, RoundsCounted, Stamping
      <3>2. /\ Cardinality(Stamping') <= Cardinality(Requests) /\ Cardinality(Stamping') \in Nat
        BY <3>1, FS_Subset, FS_CardinalityType
      <3> QED BY <1>1, <3>1, <3>2 DEF RoundsCounted
    <2>4. cooling' \in BOOLEAN /\ rounds' \in Nat
      BY <1>1 DEF OAuthInv, TypeOK
    <2> HIDE DEF f
    <2> QED BY <1>1, <2>1, <2>2, <2>3, <2>4, RequestStep
  <1> QED BY <1>2, <1>3 DEF validate_first

(* One request fewer is about to stamp, and one more has.                  *)
LEMMA StampInv ==
    ASSUME OAuthInv, NEW p \in Requests, stamp(p)
    PROVE  OAuthInv'
  <1>0. PICK t : t = req[p].token
    OBVIOUS
  <1> DEFINE f == Refreshing(t)
  <1>1. /\ req[p].at = "stamp" /\ cooling' = TRUE /\ rounds' = rounds + 1
        /\ req' = [req EXCEPT ![p] = f]
        /\ UNCHANGED <<idp, cache, last_refresh, refresher>>
    BY <1>0 DEF stamp, caches, Goto
  <1>2. t \in Tokens
    BY <1>0, <1>1, ReqType DEF OAuthInv
  <1>3. f \in Progress /\ f.at = "fetch" /\ ~(f.own > 0)
    BY <1>2, LoopType DEF Refreshing, Progress
  <1> HIDE DEF f
  <1>4. /\ rounds \in Nat /\ req \in [Requests -> Progress]
        /\ rounds + Cardinality(Stamping) <= Cardinality(Requests)
    BY DEF OAuthInv, TypeOK, RoundsCounted
  <1>5. Stamping' = Stamping \ {p} /\ p \in Stamping /\ Stamping \subseteq Requests
    BY <1>1, <1>3, <1>4 DEF Stamping
  <1>6. IsFiniteSet(Stamping) /\ Cardinality(Requests) \in Nat
    BY <1>5, OAuthAssumption, FS_Subset, FS_CardinalityType
  <1>7. Cardinality(Stamping') = Cardinality(Stamping) - 1 /\ Cardinality(Stamping) \in Nat
    BY <1>5, <1>6, FS_RemoveElement, FS_CardinalityType
  <1>8. RoundsCounted'
    BY <1>1, <1>4, <1>6, <1>7 DEF RoundsCounted
  <1>9. rounds' \in Nat /\ cooling' \in BOOLEAN
    BY <1>1, <1>4
  <1> QED BY <1>1, <1>3, <1>8, <1>9, RequestStep

(* Keys are fetched.  With no stale ones in flight, nobody will store      *)
(* older ones after them.                                                  *)
LEMMA FetchInv ==
    ASSUME OAuthInv, NEW p \in Requests, fetch(p)
    PROVE  OAuthInv'
  <1>1. PICK r \in Progress : r = req[p]
    BY DEF OAuthInv, TypeOK
  <1>2. /\ r.at = "fetch" /\ r.k <= Len(IssuerSeq)
        /\ r \in [at: {"fetch", "store"}, token: Tokens, k: 1..(Len(IssuerSeq) + 1), own: Nat, gen: Nat]
        /\ UNCHANGED <<idp, cache, last_refresh, cooling, refresher, rounds>>
    BY <1>1, ReqType DEF fetch, caches, OAuthInv
  <1>3. r.k \in 1..Len(IssuerSeq) /\ r.token \in Tokens /\ r.own \in Nat
    BY <1>2, LoopType
  <1>4. PICK i \in Issuer : i = IssuerSeq[r.k]
    BY <1>3, IssuerAt
  <1>5. PICK n \in Nat \ {0} : n = Len(idp[i])
    BY IdpType DEF OAuthInv
  <1>6. PICK own \in Nat :
           own = IF i = r.token.iss /\ ~StaleInFlight(i) THEN n ELSE r.own
    BY <1>3
  <1> DEFINE f == [[[r EXCEPT !.gen = n] EXCEPT !.own = own] EXCEPT !.at = "store"]
  <1>7. Goto(p, f)
    <2>1. Fetched(r, i) = [[r EXCEPT !.gen = n] EXCEPT !.own = own]
      BY <1>2, <1>5, <1>6 DEF Fetched
    <2> QED BY <1>1, <1>4, <2>1 DEF fetch
  <1>8. /\ f \in Progress /\ f.at = "store" /\ f.k = r.k /\ f.gen = n /\ f.own = own
        /\ f.token = r.token
    BY <1>2 DEF Progress
  <1> HIDE DEF f
  <1>9. ASSUME own > 0
        PROVE  /\ own <= Len(idp[r.token.iss])
               /\ NoneOlder(r.token.iss, own)
               /\ i = r.token.iss \/ (KeyArrived(f) => cache[r.token.iss].gen >= own)
    <2>1. CASE i = r.token.iss /\ ~StaleInFlight(i)
      <3>1. own = Len(idp[i]) /\ own = n
        BY <1>5, <1>6, <2>1
      <3>2. NoneOlder(i, own)
        <4>1. IssuerSeq[refresher.k] = i /\ refresher.gen > 0 => refresher.gen >= own
          BY <2>1, <3>1, Refresher DEF StaleInFlight, OAuthInv
        <4>2. ASSUME NEW q \in Requests, req[q].at = "store", IssuerSeq[req[q].k] = i
              PROVE  req[q].gen >= own
          BY <2>1, <3>1, <4>2, ReqType DEF StaleInFlight, OAuthInv
        <4> QED BY <4>1, <4>2 DEF NoneOlder
      <3> QED BY <2>1, <3>1, <3>2
    <2>2. CASE ~(i = r.token.iss /\ ~StaleInFlight(i))
      <3>1. own = r.own
        BY <1>6, <2>2
      <3>2. /\ r.own <= Len(idp[r.token.iss])
            /\ NoneOlder(r.token.iss, r.own)
            /\ KeyArrived(r) => cache[r.token.iss].gen >= r.own
        BY <1>1, <1>2, <1>9, <3>1 DEF OAuthInv, RefreshArrives
      <3>3. KeyArrived(f) => KeyArrived(r)
        BY <1>8, <3>1 DEF KeyArrived
      <3> QED BY <3>1, <3>2, <3>3
    <2> QED BY <2>1, <2>2
  <1> QED BY <1>2, <1>4, <1>5, <1>7, <1>8, <1>9, PlainStep

LEMMA FetchFailsInv ==
    ASSUME OAuthInv, NEW p \in Requests, fetch_fails(p)
    PROVE  OAuthInv'
  <1>1. PICK r \in Progress : r = req[p]
    BY DEF OAuthInv, TypeOK
  <1>2. /\ r.at = "fetch" /\ r.k <= Len(IssuerSeq)
        /\ r \in [at: {"fetch", "store"}, token: Tokens, k: 1..(Len(IssuerSeq) + 1), own: Nat, gen: Nat]
        /\ UNCHANGED <<idp, cache, last_refresh, cooling, refresher, rounds>>
    BY <1>1, ReqType DEF fetch_fails, caches, OAuthInv
  <1> DEFINE f == [r EXCEPT !.k = r.k + 1]
  <1>3. Goto(p, f)
    BY <1>1 DEF fetch_fails
  <1>4. f \in Progress /\ f.at = "fetch" /\ f.own = r.own /\ f.token = r.token
    BY <1>2, LoopType DEF Progress
  <1> HIDE DEF f
  <1>5. f.own > 0 =>
           /\ f.own <= Len(idp[f.token.iss])
           /\ NoneOlder(f.token.iss, f.own)
           /\ KeyArrived(f) => cache[f.token.iss].gen >= f.own
    BY <1>1, <1>2, <1>4 DEF OAuthInv, RefreshArrives, KeyArrived
  <1> QED BY <1>2, <1>3, <1>4, <1>5, PlainStep

(* The key was there, and is in the cache: the token is not refused for    *)
(* want of it.                                                             *)
LEMMA AgainInv ==
    ASSUME OAuthInv, NEW p \in Requests, validate_again(p)
    PROVE  OAuthInv'
  <1>1. PICK r \in Progress : r = req[p]
    BY DEF OAuthInv, TypeOK
  <1>2. /\ r.at = "fetch"
        /\ r \in [at: {"fetch", "store"}, token: Tokens, k: 1..(Len(IssuerSeq) + 1), own: Nat, gen: Nat]
        /\ UNCHANGED <<idp, cache, last_refresh, cooling, refresher, rounds>>
        /\ Goto(p, Done(r.token, validate_token(r.token), KeyArrived(r)))
    BY <1>1, ReqType DEF validate_again, caches, OAuthInv
  <1>3. r.token \in Tokens /\ r.token.iss \in Issuer /\ r.own \in Nat
    BY <1>2, TokenIs
  <1>4. KeyArrived(r) \in BOOLEAN
    BY DEF KeyArrived
  <1>5. ASSUME KeyArrived(r) PROVE validate_token(r.token) # "no_key"
    <2> DEFINE i == r.token.iss
    <2>1. r.own > 0 /\ cache[i].gen >= r.own
      BY <1>1, <1>2, <1>5 DEF OAuthInv, RefreshArrives, KeyArrived
    <2>2. cache[i].gen \in r.own..Len(idp[i]) /\ cache[i].gen # 0
      BY <1>3, <2>1, IdpType DEF OAuthInv, CacheIsPublished
    <2>3. r.token.kid \in idp[i][cache[i].gen]
      BY <1>5, <2>2 DEF KeyArrived
    <2>4. r.token.kid \in cache[i].keys
      BY <1>3, <2>2, <2>3 DEF OAuthInv, CacheIsPublished
    <2> QED BY <1>3, <2>4, KeyThere
  <1> QED BY <1>2, <1>3, <1>4, <1>5, AnswerStep

LEMMA GoneInv ==
    ASSUME OAuthInv, NEW p \in Requests, client_gone(p)
    PROVE  OAuthInv'
  <1>1. Idle \in Progress /\ Idle.at = "idle"
    BY DEF Idle, Progress
  <1>2. Goto(p, Idle) /\ UNCHANGED <<idp, cache, last_refresh, cooling, refresher, rounds>>
    BY DEF client_gone, caches
  <1> QED BY <1>1, <1>2, PlainStep

-----------------------------------------------------------------------------
(* Keys are stored.                                                        *)

(* The cache of issuer i comes to hold the set that was fetched, unless    *)
(* that one is empty; the other caches stay.                               *)
LEMMA Stores ==
    ASSUME TypeOK, CacheIsPublished, NEW i \in Issuer, NEW gen \in 1..Len(idp[i]), store(i, gen)
    PROVE  /\ cache' \in [Issuer -> [keys: SUBSET Kid, gen: Nat]]
           /\ last_refresh' \in [Issuer -> {"never", "fresh", "old"}]
           /\ \A j \in Issuer \ {i} : cache'[j] = cache[j]
           /\ cache'[i].gen <= Len(idp[i])
           /\ cache'[i].keys = IF cache'[i].gen = 0 THEN {} ELSE idp[i][cache'[i].gen]
           /\ idp[i][gen] # {} => cache'[i].gen = gen
  <1> DEFINE new == [keys |-> idp[i][gen], gen |-> gen]
  <1>1. /\ new \in [keys: SUBSET Kid, gen: Nat] /\ new.gen = gen /\ new.keys = idp[i][gen]
        /\ gen # 0 /\ gen <= Len(idp[i])
    BY IdpType
  <1>2. cache' = [cache EXCEPT ![i] = cache[i]] \/ cache' = [cache EXCEPT ![i] = new]
    BY DEF store, Stored
  <1>3. idp[i][gen] # {} => cache' = [cache EXCEPT ![i] = new]
    BY DEF store, Stored
  <1>4. last_refresh' \in [Issuer -> {"never", "fresh", "old"}]
    BY DEF store, TypeOK
  <1>5. cache \in [Issuer -> [keys: SUBSET Kid, gen: Nat]]
    BY DEF TypeOK
  <1> HIDE DEF new
  <1>6. CASE cache' = [cache EXCEPT ![i] = new]
    BY <1>1, <1>4, <1>5, <1>6
  <1>7. CASE cache' = [cache EXCEPT ![i] = cache[i]] /\ idp[i][gen] = {}
    BY <1>4, <1>5, <1>7 DEF CacheIsPublished
  <1> QED BY <1>2, <1>3, <1>6, <1>7

(* Whoever waits for a key that has arrived keeps it, or gets it: what is  *)
(* stored is not older.                                                    *)
LEMMA StoresArrive ==
    ASSUME TypeOK, CacheIsPublished, NEW i \in Issuer, NEW gen \in 1..Len(idp[i]), store(i, gen),
           NEW r, r.token \in Tokens, r.own \in Nat \ {0}, KeyArrived(r),
           r.token.iss = i => gen >= r.own,
           r.token.iss = i \/ cache[r.token.iss].gen >= r.own
    PROVE  cache'[r.token.iss].gen >= r.own
  <1>1. r.token.iss \in Issuer
    BY TokenIs
  <1>2. CASE r.token.iss = i
    <2>1. gen \in r.own..Len(idp[i])
      BY <1>2, IdpType
    <2>2. r.token.kid \in idp[i][gen]
      BY <1>2, <2>1 DEF KeyArrived
    <2>3. cache'[i].gen = gen
      BY <2>2, Stores
    <2> QED BY <1>2, <2>3
  <1>3. CASE r.token.iss # i
    BY <1>1, <1>3, Stores
  <1> QED BY <1>2, <1>3

LEMMA FetchStoresInv ==
    ASSUME OAuthInv, NEW p \in Requests, fetch_stores(p)
    PROVE  OAuthInv'
  <1>1. PICK r \in Progress : r = req[p]
    BY DEF OAuthInv, TypeOK
  <1>2. /\ r.at = "store"
        /\ r \in [at: {"fetch", "store"}, token: Tokens, k: 1..(Len(IssuerSeq) + 1), own: Nat, gen: Nat]
        /\ UNCHANGED <<idp, cooling, refresher, rounds>>
        /\ store(IssuerSeq[r.k], r.gen)
    BY <1>1, ReqType DEF fetch_stores, OAuthInv
  <1>3. /\ r.k <= Len(IssuerSeq) /\ r.k \in 1..Len(IssuerSeq) /\ r.token \in Tokens /\ r.own \in Nat
        /\ r.gen \in 1..Len(idp[IssuerSeq[r.k]])
    BY <1>1, <1>2, LoopType DEF OAuthInv, FetchedWasPublished
  <1>4. PICK i \in Issuer : i = IssuerSeq[r.k]
    BY <1>3, IssuerAt
  <1> DEFINE f == [[[r EXCEPT !.at = "fetch"] EXCEPT !.k = r.k + 1] EXCEPT !.gen = 0]
  <1>5. req' = [req EXCEPT ![p] = f]
    BY <1>1 DEF fetch_stores, Goto
  <1>6. f \in Progress /\ f.at = "fetch" /\ f.own = r.own /\ f.token = r.token
    <2>1. r.k + 1 \in 1..(Len(IssuerSeq) + 1)
      BY <1>3, LoopType
    <2>2. /\ f \in [at: {"fetch", "store"}, token: Tokens, k: 1..(Len(IssuerSeq) + 1),
                   own: Nat, gen: Nat]
          /\ f.at = "fetch" /\ f.own = r.own /\ f.token = r.token
      BY <1>2, <2>1
    <2> HIDE DEF f
    <2> QED BY <2>2 DEF Progress
  <1> HIDE DEF f
  <1>7. /\ req' \in [Requests -> Progress] /\ req'[p] = f
        /\ \A q \in Requests \ {p} : req'[q] = req[q]
    BY <1>5, <1>6 DEF OAuthInv, TypeOK
  <1>8. TypeOK /\ CacheIsPublished /\ store(i, r.gen) /\ r.gen \in 1..Len(idp[i])
    BY <1>2, <1>3, <1>4 DEF OAuthInv
  <1>9. TypeOK' /\ CacheIsPublished'
    <2>1. TypeOK'
      BY <1>2, <1>7, <1>8, Stores DEF TypeOK
    <2>2. CacheIsPublished'
      BY <1>2, <1>8, Stores DEF CacheIsPublished
    <2> QED BY <2>1, <2>2
  <1>10. FetchedWasPublished'
    BY <1>2, <1>6, <1>7 DEF OAuthInv, FetchedWasPublished
  <1>11. ASSUME NEW j, NEW own, NoneOlder(j, own) PROVE NoneOlder(j, own)'
    BY <1>2, <1>6, <1>7, <1>11 DEF NoneOlder
  <1>12. ASSUME NEW q \in Requests PROVE RefreshArrives(q)'
    <2>1. PICK s \in Progress : s = req[q]
      BY DEF OAuthInv, TypeOK
    <2>2. PICK g \in Progress : g = req'[q]
      BY <1>7
    <2>3. /\ g.own = s.own /\ g.token = s.token
          /\ q = p => g.at = "fetch" /\ s = r
          /\ q # p => g = s
      BY <1>1, <1>6, <1>7, <2>1, <2>2
    <2> SUFFICES ASSUME g.at \in {"fetch", "store"}, g.own > 0
                 PROVE  /\ g.own <= Len(idp[g.token.iss])
                        /\ NoneOlder(g.token.iss, g.own)'
                        /\ \/ g.at = "store" /\ IssuerSeq[g.k] = g.token.iss
                           \/ KeyArrived(g) => cache'[g.token.iss].gen >= g.own
      BY <1>2, <2>2 DEF RefreshArrives, KeyArrived, NoneOlder
    <2>4. /\ s.at \in {"fetch", "store"} /\ s.own > 0
          /\ s.token \in Tokens /\ s.own \in Nat \ {0}
      BY <1>2, <2>1, <2>3, ReqType DEF OAuthInv
    <2>5. /\ s.own <= Len(idp[s.token.iss])
          /\ NoneOlder(s.token.iss, s.own)
          /\ \/ s.at = "store" /\ IssuerSeq[s.k] = s.token.iss
             \/ KeyArrived(s) => cache[s.token.iss].gen >= s.own
      BY <2>1, <2>4 DEF OAuthInv, RefreshArrives
    <2>6. s.token.iss = i => r.gen >= s.own
      BY <1>1, <1>2, <1>4, <2>5 DEF NoneOlder
    <2>7. ASSUME KeyArrived(s), s.token.iss = i \/ cache[s.token.iss].gen >= s.own
          PROVE  cache'[s.token.iss].gen >= s.own
      BY <1>8, <2>4, <2>6, <2>7, StoresArrive
    <2>8. KeyArrived(g) => KeyArrived(s)
      BY <2>3 DEF KeyArrived
    <2>9. NoneOlder(s.token.iss, s.own)'
      BY <1>11, <2>5
    <2>10. \/ g.at = "store" /\ IssuerSeq[g.k] = g.token.iss
           \/ KeyArrived(g) => cache'[g.token.iss].gen >= g.own
      <3>1. CASE q = p
        BY <1>4, <2>3, <2>5, <2>7, <2>8, <3>1
      <3>2. CASE q # p
        BY <2>3, <2>5, <2>7, <2>8, <3>2
      <3> QED BY <3>1, <3>2
    <2> QED BY <2>3, <2>5, <2>9, <2>10
  <1>13. RoundsCounted'
    <2>1. Stamping' \subseteq Stamping
      BY <1>6, <1>7 DEF Stamping
    <2> QED BY <1>2, <2>1, RoundsKept
  <1>14. AcceptedIsGenuine' /\ MissRefreshHelps'
    BY <1>2, <1>6, <1>7, ZenonT(30) DEF OAuthInv, AcceptedIsGenuine, MissRefreshHelps
  <1> QED BY <1>9, <1>10, <1>12, <1>13, <1>14 DEF OAuthInv

-----------------------------------------------------------------------------
(* refresh_jwks goes on, and may have stored keys; no request moves.  What *)
(* it has in hand afterwards is nothing, or the newest.                    *)
LEMMA RefresherStep ==
    ASSUME OAuthInv, UNCHANGED <<idp, cooling, req, rounds>>,
           cache' \in [Issuer -> [keys: SUBSET Kid, gen: Nat]],
           last_refresh' \in [Issuer -> {"never", "fresh", "old"}],
           CacheIsPublished',
           NEW k \in 1..Len(IssuerSeq), NEW gen \in Nat, refresher' = [k |-> k, gen |-> gen],
           gen = 0 \/ gen = Len(idp[IssuerSeq[k]]),
           \A p \in Requests :
              req[p].at \in {"fetch", "store"} /\ req[p].own > 0 /\ KeyArrived(req[p])
              /\ cache[req[p].token.iss].gen >= req[p].own
              => cache'[req[p].token.iss].gen >= req[p].own
    PROVE  OAuthInv'
  <1>0. /\ refresher'.k = k /\ refresher'.gen = gen /\ IssuerSeq[k] \in Issuer
        /\ refresher' \in [k: DOMAIN IssuerSeq, gen: Nat] /\ gen <= Len(idp[IssuerSeq[k]])
    <2>1. IssuerSeq[k] \in Issuer /\ DOMAIN IssuerSeq = 1..Len(IssuerSeq)
      BY IssuerAt, LoopType
    <2>2. Len(idp[IssuerSeq[k]]) \in Nat
      BY <2>1, IdpType DEF OAuthInv
    <2> QED BY <2>1, <2>2
  <1>1. TypeOK'
    BY <1>0 DEF OAuthInv, TypeOK
  <1>2. FetchedWasPublished'
    BY <1>0 DEF OAuthInv, FetchedWasPublished
  <1>3. ASSUME NEW i \in Issuer, NEW own \in Nat, own <= Len(idp[i]), NoneOlder(i, own)
        PROVE  NoneOlder(i, own)'
    BY <1>0, <1>3 DEF NoneOlder
  <1>4. ASSUME NEW q \in Requests PROVE RefreshArrives(q)'
    <2>1. PICK r \in Progress : r = req[q]
      BY DEF OAuthInv, TypeOK
    <2> SUFFICES ASSUME r.at \in {"fetch", "store"}, r.own > 0
                 PROVE  /\ r.own <= Len(idp[r.token.iss])
                        /\ NoneOlder(r.token.iss, r.own)'
                        /\ \/ r.at = "store" /\ IssuerSeq[r.k] = r.token.iss
                           \/ KeyArrived(r) => cache'[r.token.iss].gen >= r.own
      BY <2>1 DEF RefreshArrives, KeyArrived, NoneOlder
    <2>2. r.own \in Nat /\ r.token.iss \in Issuer
      BY <2>1, ReqType, TokenIs DEF OAuthInv
    <2>3. /\ r.own <= Len(idp[r.token.iss])
          /\ NoneOlder(r.token.iss, r.own)
          /\ \/ r.at = "store" /\ IssuerSeq[r.k] = r.token.iss
             \/ KeyArrived(r) => cache[r.token.iss].gen >= r.own
      BY <2>1 DEF OAuthInv, RefreshArrives
    <2>4. KeyArrived(r) /\ cache[r.token.iss].gen >= r.own => cache'[r.token.iss].gen >= r.own
      BY <2>1
    <2> QED BY <1>3, <2>2, <2>3, <2>4
  <1>5. RoundsCounted'
    BY RoundsKept DEF Stamping
  <1>6. AcceptedIsGenuine' /\ MissRefreshHelps'
    BY DEF OAuthInv, AcceptedIsGenuine, MissRefreshHelps
  <1> QED BY <1>1, <1>2, <1>4, <1>5, <1>6 DEF OAuthInv

LEMMA NextIssuer ==
    ASSUME NEW k \in 1..Len(IssuerSeq)
    PROVE  (k % Len(IssuerSeq)) + 1 \in 1..Len(IssuerSeq)
  <1>1. Len(IssuerSeq) \in Nat \ {0} /\ k \in Nat
    BY LoopType
  <1> QED BY <1>1

(* A call of refresh_jwks that touches no cache.                           *)
LEMMA RefresherPasses ==
    ASSUME OAuthInv, UNCHANGED <<idp, caches, cooling, req, rounds>>,
           NEW k \in 1..Len(IssuerSeq), NEW gen \in Nat, refresher' = [k |-> k, gen |-> gen],
           gen = 0 \/ gen = Len(idp[IssuerSeq[k]])
    PROVE  OAuthInv'
  <1>1. /\ UNCHANGED <<idp, cooling, req, rounds, cache, last_refresh>>
        /\ cache' \in [Issuer -> [keys: SUBSET Kid, gen: Nat]]
        /\ last_refresh' \in [Issuer -> {"never", "fresh", "old"}]
        /\ CacheIsPublished'
    BY DEF caches, OAuthInv, TypeOK, CacheIsPublished
  <1> QED BY <1>1, RefresherStep

LEMMA RefresherInv ==
    ASSUME OAuthInv, RefresherNext
    PROVE  OAuthInv'
  <1>1. PICK k \in 1..Len(IssuerSeq), gen \in Nat :
           refresher.k = k /\ refresher.gen = gen /\ refresher = [k |-> k, gen |-> gen]
    BY Refresher DEF OAuthInv, TypeOK
  <1>2. PICK i \in Issuer : i = IssuerSeq[k]
    BY IssuerAt
  <1>3. PICK next \in 1..Len(IssuerSeq) : next = (k % Len(IssuerSeq)) + 1
    BY NextIssuer
  <1>4. CASE refresh_jwks_skips
    <2>1. refresher' = [k |-> next, gen |-> 0]
      BY <1>1, <1>3, <1>4 DEF refresh_jwks_skips
    <2>2. UNCHANGED <<idp, caches, cooling, req, rounds>>
      BY <1>4 DEF refresh_jwks_skips
    <2> QED BY <2>1, <2>2, RefresherPasses
  <1>5. CASE refresh_jwks_fetches
    <2>1. PICK n \in Nat : n = Len(idp[i])
      BY IdpType DEF OAuthInv
    <2>2. refresher' = [k |-> k, gen |-> n]
      BY <1>1, <1>2, <1>5, <2>1 DEF refresh_jwks_fetches
    <2>3. UNCHANGED <<idp, caches, cooling, req, rounds>>
      BY <1>5 DEF refresh_jwks_fetches
    <2> QED BY <1>2, <2>1, <2>2, <2>3, RefresherPasses
  <1>6. CASE refresh_jwks_fails
    <2>1. refresher' = [k |-> 1, gen |-> 0] /\ UNCHANGED <<idp, caches, cooling, req, rounds>>
      BY <1>6 DEF refresh_jwks_fails
    <2> QED BY <2>1, LoopType, RefresherPasses
  <1>7. CASE refresh_jwks_stores
    <2>1. /\ store(i, gen) /\ refresher' = [k |-> next, gen |-> 0]
          /\ UNCHANGED <<idp, cooling, req, rounds>> /\ gen > 0
      BY <1>1, <1>2, <1>3, <1>7 DEF refresh_jwks_stores
    <2>2. TypeOK /\ CacheIsPublished /\ gen \in 1..Len(idp[i])
      BY <1>1, <1>2, <2>1, IdpType DEF OAuthInv, FetchedWasPublished
    <2>3. /\ cache' \in [Issuer -> [keys: SUBSET Kid, gen: Nat]]
          /\ last_refresh' \in [Issuer -> {"never", "fresh", "old"}]
      BY <2>1, <2>2, Stores
    <2>4. CacheIsPublished'
      BY <2>1, <2>2, Stores, SMTT(30) DEF CacheIsPublished
    <2>5. ASSUME NEW p \in Requests, req[p].at \in {"fetch", "store"}, req[p].own > 0,
                 KeyArrived(req[p]), cache[req[p].token.iss].gen >= req[p].own
          PROVE  cache'[req[p].token.iss].gen >= req[p].own
      <3>1. PICK r \in Progress : r = req[p]
        BY DEF OAuthInv, TypeOK
      <3>2. r.token \in Tokens /\ r.own \in Nat \ {0}
        BY <2>5, <3>1, ReqType DEF OAuthInv
      <3>3. NoneOlder(r.token.iss, r.own)
        BY <2>5, <3>1 DEF OAuthInv, RefreshArrives
      <3>4. r.token.iss = i => gen >= r.own
        BY <1>1, <1>2, <2>1, <3>3 DEF NoneOlder
      <3> QED BY <2>1, <2>2, <2>5, <3>1, <3>2, <3>4, StoresArrive
    <2> QED BY <2>1, <2>3, <2>4, <2>5, RefresherStep
  <1> QED BY <1>4, <1>5, <1>6, <1>7 DEF RefresherNext

-----------------------------------------------------------------------------
(* The environment.                                                        *)

(* An issuer publishes other keys: what was published before stays where   *)
(* it is, and a key that has arrived had arrived before.                   *)
LEMMA RotateInv ==
    ASSUME OAuthInv, NEW i \in Issuer, NEW keys \in Published[i], rotate(i, keys)
    PROVE  OAuthInv'
  <1>1. /\ UNCHANGED <<cache, last_refresh, cooling, req, refresher, rounds>>
        /\ idp' = [idp EXCEPT ![i] = Append(idp[i], keys)]
    BY DEF rotate, caches
  <1>2. keys \in SUBSET Kid /\ idp \in [Issuer -> Seq(SUBSET Kid)]
    BY OAuthAssumption DEF OAuthInv, TypeOK
  <1>3. /\ idp' \in [Issuer -> Seq(SUBSET Kid)]
        /\ \A j \in Issuer :
              /\ Len(idp'[j]) \in Nat /\ Len(idp[j]) \in Nat /\ Len(idp[j]) > 0
              /\ Len(idp'[j]) >= Len(idp[j])
              /\ \A g \in 1..Len(idp[j]) : idp'[j][g] = idp[j][g]
    <2>1. /\ Append(idp[i], keys) \in Seq(SUBSET Kid) /\ Len(Append(idp[i], keys)) = Len(idp[i]) + 1
          /\ \A g \in 1..Len(idp[i]) : Append(idp[i], keys)[g] = idp[i][g]
          /\ Len(idp[i]) \in Nat
      BY <1>2
    <2>2. PICK new \in Seq(SUBSET Kid) : new = Append(idp[i], keys)
      BY <2>1
    <2>3. idp' = [idp EXCEPT ![i] = new]
      BY <1>1, <2>2
    <2>4. /\ Len(new) = Len(idp[i]) + 1 /\ \A g \in 1..Len(idp[i]) : new[g] = idp[i][g]
      BY <2>1, <2>2
    <2>5. \A j \in Issuer : Len(idp[j]) \in Nat /\ Len(idp[j]) > 0
      BY IdpType DEF OAuthInv
    <2>6. idp' \in [Issuer -> Seq(SUBSET Kid)] /\ idp'[i] = new
          /\ \A j \in Issuer \ {i} : idp'[j] = idp[j]
      BY <1>2, <2>3
    <2> QED BY <2>4, <2>5, <2>6, SMTT(30)
  <1>4. TypeOK'
    BY <1>1, <1>3 DEF OAuthInv, TypeOK
  <1>5. CacheIsPublished'
    <2> SUFFICES ASSUME NEW j \in Issuer
                 PROVE  /\ cache[j].gen <= Len(idp'[j])
                        /\ cache[j].keys = IF cache[j].gen = 0 THEN {} ELSE idp'[j][cache[j].gen]
      BY <1>1 DEF CacheIsPublished
    <2>1. /\ cache[j].gen \in Nat /\ cache[j].gen <= Len(idp[j])
          /\ cache[j].keys = IF cache[j].gen = 0 THEN {} ELSE idp[j][cache[j].gen]
      BY IdpType DEF OAuthInv, CacheIsPublished
    <2> QED BY <1>3, <2>1
  <1>6. FetchedWasPublished'
    <2>1. refresher.gen <= Len(idp'[IssuerSeq[refresher.k]])
      BY <1>3, Refresher DEF OAuthInv, FetchedWasPublished
    <2>2. ASSUME NEW p \in Requests, req[p].at = "store"
          PROVE  req[p].k <= Len(IssuerSeq) /\ req[p].gen \in 1..Len(idp'[IssuerSeq[req[p].k]])
      <3>1. /\ req[p].k <= Len(IssuerSeq) /\ req[p].gen \in 1..Len(idp[IssuerSeq[req[p].k]])
            /\ req[p].k \in 1..(Len(IssuerSeq) + 1)
        BY <2>2, ReqType DEF OAuthInv, FetchedWasPublished
      <3>2. IssuerSeq[req[p].k] \in Issuer
        BY <3>1, LoopType, IssuerAt
      <3> QED BY <1>3, <3>1, <3>2
    <2> QED BY <1>1, <2>1, <2>2 DEF FetchedWasPublished
  <1>7. ASSUME NEW q \in Requests PROVE RefreshArrives(q)'
    <2>1. PICK r \in Progress : r = req[q]
      BY DEF OAuthInv, TypeOK
    <2> SUFFICES ASSUME r.at \in {"fetch", "store"}, r.own > 0
                 PROVE  /\ r.own <= Len(idp'[r.token.iss])
                        /\ NoneOlder(r.token.iss, r.own)
                        /\ \/ r.at = "store" /\ IssuerSeq[r.k] = r.token.iss
                           \/ KeyArrived(r)' => cache[r.token.iss].gen >= r.own
      BY <1>1, <2>1 DEF RefreshArrives, KeyArrived, NoneOlder
    <2>2. r.own \in Nat /\ r.token.iss \in Issuer
      BY <2>1, ReqType, TokenIs DEF OAuthInv
    <2>3. /\ r.own <= Len(idp[r.token.iss])
          /\ NoneOlder(r.token.iss, r.own)
          /\ \/ r.at = "store" /\ IssuerSeq[r.k] = r.token.iss
             \/ KeyArrived(r) => cache[r.token.iss].gen >= r.own
      BY <2>1 DEF OAuthInv, RefreshArrives
    <2>4. KeyArrived(r)' => KeyArrived(r)
      <3> SUFFICES ASSUME KeyArrived(r)', NEW g \in r.own..Len(idp[r.token.iss])
                   PROVE  r.token.kid \in idp[r.token.iss][g]
        BY DEF KeyArrived
      <3>1. g \in r.own..Len(idp'[r.token.iss]) /\ g \in 1..Len(idp[r.token.iss])
        BY <1>3, <2>2
      <3>2. r.token.kid \in idp'[r.token.iss][g]
        BY <3>1 DEF KeyArrived
      <3> QED BY <1>3, <2>2, <3>1, <3>2
    <2> QED BY <1>3, <2>2, <2>3, <2>4
  <1>8. RoundsCounted'
    BY <1>1, RoundsKept DEF Stamping
  <1>9. AcceptedIsGenuine'
    <2> SUFFICES ASSUME NEW p \in Requests, req[p].at = "done", req[p].result = "accepted",
                        NEW t \in Tokens, t = req[p].token
                 PROVE  Genuine(t)'
      BY <1>1, ReqType DEF AcceptedIsGenuine, Genuine, OAuthInv
    <2>1. Genuine(t)
      BY DEF OAuthInv, AcceptedIsGenuine, Genuine
    <2>2. t.iss \in Issuer
      BY TokenIs
    <2>3. \E g \in DOMAIN idp[t.iss] : t.kid \in idp[t.iss][g]
      BY <2>1 DEF Genuine
    <2>4. PICK g \in 1..Len(idp[t.iss]) : t.kid \in idp[t.iss][g]
      BY <2>2, <2>3, IdpType DEF OAuthInv
    <2>5. g \in 1..Len(idp'[t.iss]) /\ t.kid \in idp'[t.iss][g]
      BY <1>3, <2>2, <2>4
    <2>6. DOMAIN idp'[t.iss] = 1..Len(idp'[t.iss])
      BY <1>3, <2>2
    <2> QED BY <2>1, <2>5, <2>6 DEF Genuine
  <1>10. MissRefreshHelps'
    BY <1>1 DEF OAuthInv, MissRefreshHelps
  <1> QED BY <1>4, <1>5, <1>6, <1>7, <1>8, <1>9, <1>10 DEF OAuthInv

(* Time passes.                                                            *)
LEMMA TtlInv ==
    ASSUME OAuthInv, NEW i \in Issuer, ttl_passes(i)
    PROVE  OAuthInv'
  <1>2. /\ UNCHANGED <<idp, cache, cooling, req, refresher, rounds>>
        /\ last_refresh' \in [Issuer -> {"never", "fresh", "old"}]
    BY DEF ttl_passes, OAuthInv, TypeOK
  <1>3. TypeOK' /\ CacheIsPublished' /\ FetchedWasPublished'
    BY <1>2 DEF OAuthInv, TypeOK, CacheIsPublished, FetchedWasPublished
  <1>4. \A p \in Requests : RefreshArrives(p)'
    BY <1>2 DEF OAuthInv, RefreshArrives, KeyArrived, NoneOlder
  <1>5. RoundsCounted'
    BY <1>2, RoundsKept DEF Stamping
  <1>6. AcceptedIsGenuine' /\ MissRefreshHelps'
    BY <1>2 DEF OAuthInv, AcceptedIsGenuine, MissRefreshHelps
  <1> QED BY <1>3, <1>4, <1>5, <1>6 DEF OAuthInv

LEMMA CooldownInv ==
    ASSUME OAuthInv, cooldown_passes
    PROVE  OAuthInv'
  <1>1. /\ UNCHANGED <<idp, cache, last_refresh, req, refresher>> /\ cooling' = FALSE /\ rounds' = 0
    BY DEF cooldown_passes, caches
  <1>2. TypeOK' /\ CacheIsPublished' /\ FetchedWasPublished'
    BY <1>1 DEF OAuthInv, TypeOK, CacheIsPublished, FetchedWasPublished
  <1>3. \A p \in Requests : RefreshArrives(p)'
    BY <1>1 DEF OAuthInv, RefreshArrives, KeyArrived, NoneOlder
  <1>4. RoundsCounted'
    <2>1. IsFiniteSet(Requests) /\ Stamping' \subseteq Requests
      BY OAuthAssumption DEF Stamping
    <2>2. Cardinality(Stamping') <= Cardinality(Requests) /\ Cardinality(Stamping') \in Nat
      BY <2>1, FS_Subset, FS_CardinalityType
    <2> QED BY <1>1, <2>2 DEF RoundsCounted
  <1>5. AcceptedIsGenuine' /\ MissRefreshHelps'
    BY <1>1 DEF OAuthInv, AcceptedIsGenuine, MissRefreshHelps
  <1> QED BY <1>2, <1>3, <1>4, <1>5 DEF OAuthInv

-----------------------------------------------------------------------------
LEMMA InitOAuthInv == Init => OAuthInv
  <1> SUFFICES ASSUME Init PROVE OAuthInv
    OBVIOUS
  <1>1. /\ idp = [i \in Issuer |-> <<First[i]>>] /\ cache = [i \in Issuer |-> [keys |-> {}, gen |-> 0]]
        /\ req = [p \in Requests |-> Idle] /\ refresher = [k |-> 1, gen |-> 0]
        /\ cooling = FALSE /\ rounds = 0
        /\ last_refresh = [i \in Issuer |-> "never"]
    BY DEF Init
  <1>2. \A i \in Issuer : idp[i] \in Seq(SUBSET Kid) /\ Len(idp[i]) = 1
    BY <1>1, OAuthAssumption
  <1>3. \A p \in Requests : req[p] = Idle /\ req[p].at = "idle"
    BY <1>1 DEF Idle
  <1>4. TypeOK
    <2>1. idp \in [Issuer -> Seq(SUBSET Kid)] /\ \A i \in Issuer : Len(idp[i]) > 0
      BY <1>1, <1>2
    <2>2. cache \in [Issuer -> [keys: SUBSET Kid, gen: Nat]]
      BY <1>1
    <2>3. req \in [Requests -> Progress]
      BY <1>1 DEF Progress
    <2>4. refresher \in [k: DOMAIN IssuerSeq, gen: Nat]
      BY <1>1, LoopType
    <2>5. last_refresh \in [Issuer -> {"never", "fresh", "old"}]
      BY <1>1
    <2> QED BY <1>1, <2>1, <2>2, <2>3, <2>4, <2>5 DEF TypeOK
  <1>5. CacheIsPublished
    BY <1>1, <1>2 DEF CacheIsPublished
  <1>6. FetchedWasPublished
    <2>1. IssuerSeq[1] \in Issuer
      BY LoopType, IssuerAt
    <2> QED BY <1>1, <1>2, <1>3, <2>1 DEF FetchedWasPublished
  <1>7. (\A p \in Requests : RefreshArrives(p)) /\ AcceptedIsGenuine /\ MissRefreshHelps
    BY <1>3 DEF RefreshArrives, AcceptedIsGenuine, MissRefreshHelps
  <1>8. RoundsCounted
    <2>1. IsFiniteSet(Requests) /\ Stamping \subseteq Requests
      BY OAuthAssumption DEF Stamping
    <2>2. Cardinality(Stamping) <= Cardinality(Requests) /\ Cardinality(Stamping) \in Nat
      BY <2>1, FS_Subset, FS_CardinalityType
    <2> QED BY <1>1, <2>2 DEF RoundsCounted
  <1> QED BY <1>4, <1>5, <1>6, <1>7, <1>8 DEF OAuthInv

LEMMA NextOAuthInv == OAuthInv /\ [Next]_vars => OAuthInv'
  <1> SUFFICES ASSUME OAuthInv, [Next]_vars PROVE OAuthInv'
    OBVIOUS
  <1>1. ASSUME NEW i \in Issuer, ttl_passes(i) PROVE OAuthInv'
    BY <1>1, TtlInv
  <1>2. ASSUME NEW i \in Issuer, NEW keys \in Published[i], rotate(i, keys) PROVE OAuthInv'
    BY <1>2, RotateInv
  <1>3. CASE cooldown_passes
    BY <1>3, CooldownInv
  <1>4. CASE RefresherNext
    BY <1>4, RefresherInv
  <1>5. ASSUME NEW p \in Requests, NEW t \in Tokens, process(p, t) \/ validate_first(p, t)
        PROVE  OAuthInv'
    BY <1>5, ProcessInv, FirstInv
  <1>6. ASSUME NEW p \in Requests,
               stamp(p) \/ fetch(p) \/ fetch_fails(p) \/ fetch_stores(p)
               \/ validate_again(p) \/ client_gone(p)
        PROVE  OAuthInv'
    BY <1>6, StampInv, FetchInv, FetchFailsInv, FetchStoresInv, AgainInv, GoneInv
  <1>7. CASE UNCHANGED vars
    <2>1. UNCHANGED <<idp, cache, last_refresh, cooling, req, refresher, rounds>>
      BY <1>7 DEF vars
    <2>2. TypeOK' /\ CacheIsPublished' /\ FetchedWasPublished'
      BY <2>1 DEF OAuthInv, TypeOK, CacheIsPublished, FetchedWasPublished
    <2>3. \A p \in Requests : RefreshArrives(p)'
      BY <2>1 DEF OAuthInv, RefreshArrives, KeyArrived, NoneOlder
    <2>4. RoundsCounted'
      BY <2>1, RoundsKept DEF Stamping
    <2>5. AcceptedIsGenuine' /\ MissRefreshHelps'
      BY <2>1 DEF OAuthInv, AcceptedIsGenuine, MissRefreshHelps
    <2> QED BY <2>2, <2>3, <2>4, <2>5 DEF OAuthInv
  <1> QED BY <1>1, <1>2, <1>3, <1>4, <1>5, <1>6, <1>7 DEF Next

-----------------------------------------------------------------------------
(* The validator's inductive invariant, of every execution: each cache     *)
(* holds one key set its issuer published, whoever is about to store one   *)
(* has a published one in hand, a request that fetched its issuer's keys   *)
(* with no stale ones in flight sees them or newer ones in the cache, and  *)
(* every refresh on a miss is counted against a request that stamped.      *)
THEOREM OAuthInvariant == Spec => []OAuthInv
  <1>1. Init => OAuthInv
    BY InitOAuthInv
  <1>2. OAuthInv /\ [Next]_vars => OAuthInv'
    BY NextOAuthInv
  <1> QED BY <1>1, <1>2, PTL DEF Spec

(* validate_token: whatever the refreshes that crossed have left in the    *)
(* caches, a token is accepted only if it is signed, under a key its own   *)
(* issuer published, and not for other audiences than those configured for *)
(* that issuer (a token without an aud claim is for none).                 *)
THEOREM AcceptanceSafety == Spec => []AcceptedIsGenuine
  <1>1. OAuthInv => AcceptedIsGenuine
    BY DEF OAuthInv
  <1> QED BY <1>1, OAuthInvariant, PTL

(* validate_token_with_refresh: a token whose key was there when the       *)
(* request fetched it, and has been since, is not refused for a missing    *)
(* key, with any number of refreshes under way.                            *)
THEOREM MissRefreshSafety == Spec => []MissRefreshHelps
  <1>1. OAuthInv => MissRefreshHelps
    BY DEF OAuthInv
  <1> QED BY <1>1, OAuthInvariant, PTL

(* The cooldown, read under one lock and started under another, lets at    *)
(* most as many refreshes start as there are requests.                     *)
THEOREM CooldownSafety == Spec => []MissRefreshesBounded
  <1>1. OAuthInv => MissRefreshesBounded
    <2> SUFFICES ASSUME OAuthInv PROVE MissRefreshesBounded
      OBVIOUS
    <2>1. rounds \in Nat /\ rounds + Cardinality(Stamping) <= Cardinality(Requests)
      BY DEF OAuthInv, TypeOK, RoundsCounted
    <2>2. IsFiniteSet(Requests) /\ Stamping \subseteq Requests
      BY OAuthAssumption DEF Stamping
    <2>3. Cardinality(Stamping) \in Nat /\ Cardinality(Requests) \in Nat
      BY <2>2, FS_Subset, FS_CardinalityType
    <2> QED BY <2>1, <2>3 DEF MissRefreshesBounded
  <1> QED BY <1>1, OAuthInvariant, PTL

-----------------------------------------------------------------------------
(* The registry over a database: what its rows say.                        *)

(* Every non-empty set of naturals has a least element.                    *)
LEMMA Least ==
    ASSUME NEW T \in SUBSET Nat, T # {}
    PROVE  \E m \in T : \A k \in T : m <= k
  <1> DEFINE R == OpToRel(<, Nat)
  <1>1. IsWellFoundedOn(R, Nat)
    BY NatLessThanWellFounded
  <1> HIDE DEF R
  <1>2. PICK x \in T : \A y \in T : ~(<<y, x>> \in R)
    BY <1>1, WFMin
  <1>3. \A a, b \in Nat : <<a, b>> \in R <=> a < b
    BY DEF R, OpToRel
  <1>4. \A y \in T : ~(y < x)
    BY <1>2, <1>3
  <1>5. x \in Nat /\ \A y \in T : y \in Nat
    OBVIOUS
  <1>6. \A y \in T : x <= y
    BY <1>4, <1>5
  <1> QED BY <1>6

LEMMA LeastChosen ==
    ASSUME NEW T \in SUBSET Nat, NEW m \in T, \A k \in T : m <= k
    PROVE  (CHOOSE i \in T : \A j \in T : i <= j) = m
  <1> DEFINE c == CHOOSE i \in T : \A j \in T : i <= j
  <1>1. c \in T /\ \A j \in T : c <= j
    OBVIOUS
  <1> HIDE DEF c
  <1>2. c \in Nat /\ m \in Nat /\ c <= m /\ m <= c
    BY <1>1
  <1>3. c = m
    BY <1>2
  <1> QED BY <1>3 DEF c

(* No row goes away or changes hands, and no inactive one is made active   *)
(* again.                                                                  *)
RowsKept ==
    /\ agents' \in [AgentId -> Rows \cup {Unregistered}]
    /\ \A a \in AgentId : Exists(a) =>
          Exists(a)' /\ agents'[a].owner = agents[a].owner
    /\ \A a \in AgentId : Exists(a) /\ Active(a)' => Active(a)

LEMMA StoredLinkEnds ==
    ASSUME RowsInv, NEW l \in LinkSet
    PROVE  /\ l \in LinkRows /\ l.from \in AgentId /\ l.to \in AgentId
           /\ Exists(l.from) /\ Exists(l.to)
           /\ agents[l.from].owner = agents[l.to].owner
  BY DEF RowsInv, StorageRegistryTypeOK, LinkRows

LEMMA StoredReadsKept ==
    ASSUME RowsKept
    PROVE  /\ \A d \in Delegatings :
                ReadForDelegation(d) => ReadForDelegation(d)'
           /\ \A c \in Administerings :
                ReadByAdministrator(c) => ReadByAdministrator(c)'
  <1>1. ASSUME NEW d \in Delegatings, ReadForDelegation(d)
        PROVE  ReadForDelegation(d)'
    <2>1. CASE d = NoRequest
      BY <2>1 DEF ReadForDelegation
    <2>2. CASE d # NoRequest
      <3>1. d.from \in AgentId /\ d.to \in AgentId
        BY <2>2 DEF Delegatings
      <3> QED BY <1>1, <2>2, <3>1 DEF ReadForDelegation, RowsKept
    <2> QED BY <2>1, <2>2
  <1>2. ASSUME NEW c \in Administerings
        PROVE  /\ Unfinished(c) \cup InHand(c) \subseteq AgentId
               /\ c.at = "update" => c.agent \in AgentId
    BY DEF Administerings, NoRequest, Unfinished, InHand, Written
  <1>3. ASSUME NEW c \in Administerings, ReadByAdministrator(c)
        PROVE  ReadByAdministrator(c)'
    <2>1. /\ Unfinished(c)' = Unfinished(c)
          /\ InHand(c)' = InHand(c)
      BY DEF Unfinished, InHand, Written
    <2> QED BY <1>2, <1>3, <2>1 DEF ReadByAdministrator, RowsKept
  <1> QED BY <1>1, <1>3

(* A step of one administrator's request, from c to c2.                    *)
LEMMA StoredAdminStep ==
    ASSUME RowsInv, RowsKept,
           NEW p \in Administrators, NEW c2 \in Administerings,
           administering' = [administering EXCEPT ![p] = c2],
           UNCHANGED <<links, delegating>>,
           failures' \in 0..MaxFailures,
           unwalked \subseteq unwalked', unwalked' \subseteq AgentId,
           missed \subseteq missed', missed' \subseteq AgentId,
           ReadByAdministrator(c2)',
           \A a \in AgentId : Active(a) /\ ~Active(a)' =>
              a \in unwalked' \/ (c2.at \in {"loop", "child"} /\ a \in c2.to_process),
           \A l \in LinkSet : Reaches(administering[p], l) /\ Active(l.to)' =>
              Reaches(c2, l) \/ l.from \in unwalked' \/ l.to \in missed'
    PROVE  RowsInv'
  <1>1. StorageRegistryTypeOK /\ InRows /\ Covered
    BY DEF RowsInv
  <1>2. LinkSet' = LinkSet
    BY DEF LinkSet
  <1>3. /\ administering' \in [Administrators -> Administerings]
        /\ administering'[p] = c2
        /\ \A q \in Administrators \ {p} : administering'[q] = administering[q]
    BY <1>1 DEF InRows
  <1>4. StorageRegistryTypeOK'
    <2>1. \A l \in LinkSet :
             /\ l \in LinkRows
             /\ Exists(l.from)' /\ Exists(l.to)'
             /\ agents'[l.from].owner = agents'[l.to].owner
      BY StoredLinkEnds DEF RowsKept
    <2>2. \A q \in Administrators :
             administering'[q].at \in {"loop", "child"} =>
                administering'[q].to_process \subseteq AgentId /\ administering'[q].children \subseteq AgentId
      BY <1>3 DEF Administerings, NoRequest
    <2> QED BY <1>2, <2>1, <2>2 DEF StorageRegistryTypeOK, RowsKept
  <1>5. InRows'
    BY <1>1, <1>3, StoredReadsKept DEF InRows
  <1>6. Covered'
    <2> SUFFICES ASSUME NEW l \in LinkSet, l.live, ~Active(l.from)', Active(l.to)'
                 PROVE  \/ l.from \in unwalked' \/ l.to \in missed'
                        \/ \E q \in Administrators : Reaches(administering'[q], l)
      <3>1. \A c, l : Reaches(c, l)' <=> Reaches(c, l)
        BY DEF Reaches, Unfinished, InHand, Written
      <3> QED BY <1>2, <3>1 DEF Covered, Reaches, Unfinished, InHand, Written
    <2>1. l.from \in AgentId /\ l.to \in AgentId /\ Exists(l.to)
      BY StoredLinkEnds
    <2>2. Active(l.to)
      BY <2>1 DEF RowsKept
    <2>3. CASE Active(l.from)
      <3>1. c2.at \in {"loop", "child"} /\ l.from \in c2.to_process => Reaches(c2, l)
        BY DEF Reaches
      <3> QED BY <1>3, <2>1, <2>3, <3>1
    <2>4. CASE ~Active(l.from)
      <3>1. \/ l.from \in unwalked \/ l.to \in missed
            \/ \E q \in Administrators : Reaches(administering[q], l)
        BY <1>1, <2>2, <2>4 DEF Covered
      <3> QED BY <1>3, <3>1
    <2> QED BY <2>3, <2>4
  <1> QED BY <1>4, <1>5, <1>6 DEF RowsInv

(* The rows stay, or one agent is made inactive or given another level.    *)
LEMMA StoredSame == RowsInv /\ UNCHANGED agents => RowsKept
  BY DEF RowsInv, StorageRegistryTypeOK, Exists, Active, RowsKept

LEMMA StoredRow ==
    ASSUME RowsInv, NEW a \in AgentId, Exists(a)
    PROVE  agents[a] \in Rows
  BY DEF RowsInv, StorageRegistryTypeOK, Exists

LEMMA StoredInactive ==
    ASSUME RowsInv, NEW b \in AgentId, Exists(b),
           SetInactive(b)
    PROVE  RowsKept /\ \A a \in AgentId : Active(a) /\ ~Active(a)' => a = b
  <1>1. agents[b] \in Rows
    BY StoredRow
  <1>2. agents' = [agents EXCEPT ![b] = [agents[b] EXCEPT !.active = FALSE]]
    BY DEF SetInactive
  <1>3. agents \in [AgentId -> Rows \cup {Unregistered}]
    BY DEF RowsInv, StorageRegistryTypeOK
  <1> DEFINE r == [agents[b] EXCEPT !.active = FALSE]
  <1>4. r \in Rows /\ r.owner = agents[b].owner /\ r.active = FALSE
    BY <1>1 DEF Rows
  <1>5. r # Unregistered
    BY <1>4, StorageRegistryAssumption
  <1> HIDE DEF r
  <1> QED BY <1>2, <1>3, <1>4, <1>5 DEF RowsKept, Exists, Active, r

LEMMA StoredLevel ==
    ASSUME RowsInv, NEW b \in AgentId, Exists(b),
           NEW level \in TrustLevel, SetTrustLevel(b, level)
    PROVE  RowsKept /\ \A a \in AgentId : Active(a) => Active(a)'
  <1>1. agents[b] \in Rows
    BY StoredRow
  <1>2. agents' = [agents EXCEPT ![b] = [agents[b] EXCEPT !.trust_level = level]]
    BY DEF SetTrustLevel
  <1>3. agents \in [AgentId -> Rows \cup {Unregistered}]
    BY DEF RowsInv, StorageRegistryTypeOK
  <1> DEFINE r == [agents[b] EXCEPT !.trust_level = level]
  <1>4. r \in Rows /\ r.owner = agents[b].owner /\ r.active = agents[b].active
    BY <1>1 DEF Rows
  <1>5. r # Unregistered
    BY <1>4, StorageRegistryAssumption
  <1> HIDE DEF r
  <1> QED BY <1>2, <1>3, <1>4, <1>5 DEF RowsKept, Exists, Active, r

(* What a request holds, step by step.                                     *)
LEMMA StoredRequest ==
    ASSUME RowsInv, NEW p \in Administrators
    PROVE  /\ administering[p] \in Administerings
           /\ ReadByAdministrator(administering[p])
           /\ failures \in 0..MaxFailures /\ unwalked \subseteq AgentId /\ missed \subseteq AgentId
           /\ administering[p].at = "update" => /\ administering[p].agent \in AgentId
                                                /\ administering[p].level \in TrustLevel
           /\ administering[p].at = "root" => administering[p].root \in AgentId
           /\ administering[p].at \in {"loop", "child"} =>
                 /\ administering[p].to_process \in SUBSET AgentId
                 /\ administering[p].children \in SUBSET AgentId
           /\ administering[p].at = "child" => administering[p].child \in AgentId
           /\ administering[p].at = "loop" =>
                 administering[p] = [at |-> "loop", to_process |-> administering[p].to_process,
                                     children |-> administering[p].children]
  <1>1. administering[p] \in Administerings
    BY DEF RowsInv, InRows
  <1>2. /\ ReadByAdministrator(administering[p])
        /\ failures \in 0..MaxFailures /\ unwalked \subseteq AgentId /\ missed \subseteq AgentId
    BY DEF RowsInv, InRows, StorageRegistryTypeOK
  <1> QED BY <1>1, <1>2 DEF Administerings, NoRequest

LEMMA StoredHolds ==
    ASSUME NEW c
    PROVE  /\ c.at \in {"idle", "update"} => Unfinished(c) = {} /\ InHand(c) = {}
           /\ c.at = "root" => Unfinished(c) = {c.root} /\ InHand(c) = {c.root}
           /\ c.at = "loop" => Unfinished(c) = c.to_process /\ InHand(c) = c.children
           /\ c.at = "child" => /\ Unfinished(c) = {c.child} \cup c.to_process
                                /\ InHand(c) = {c.child} \cup c.children
  BY DEF Unfinished, InHand, Written

LEMMA StoredIdle ==
    /\ NoRequest \in Administerings /\ NoRequest.at = "idle"
    /\ NoRequest \in Delegatings
    /\ Unfinished(NoRequest) = {} /\ InHand(NoRequest) = {}
  BY DEF NoRequest, Administerings, Delegatings, Unfinished, InHand,
         Written

LEMMA StoredIdleRead ==
    ReadByAdministrator(NoRequest)' /\ ReadForDelegation(NoRequest)'
  <1>1. /\ Unfinished(NoRequest)' = {} /\ InHand(NoRequest)' = {}
        /\ NoRequest.at = "idle"
    BY DEF NoRequest, Unfinished, InHand, Written
  <1> QED BY <1>1 DEF ReadByAdministrator, ReadForDelegation

LEMMA StoredLoop ==
    ASSUME NEW T \in SUBSET AgentId, NEW C \in SUBSET AgentId
    PROVE  LET c == [at |-> "loop", to_process |-> T, children |-> C] IN
           /\ c \in Administerings /\ c.at = "loop"
           /\ Unfinished(c) = T /\ InHand(c) = C
           /\ \A l : Reaches(c, l) <=> l.from \in T \/ l.to \in C
           /\ (\A a \in T \cup C : Exists(a)') => ReadByAdministrator(c)'
  <1> DEFINE c == [at |-> "loop", to_process |-> T, children |-> C]
  <1>1. c \in Administerings /\ c.at = "loop" /\ c.to_process = T /\ c.children = C
    BY DEF Administerings
  <1>2. /\ Unfinished(c) = T /\ InHand(c) = C
        /\ Unfinished(c)' = T /\ InHand(c)' = C
    BY DEF Unfinished, InHand, Written
  <1> HIDE DEF c
  <1>3. \A l : Reaches(c, l) <=> l.from \in T \/ l.to \in C
    BY <1>1, <1>2 DEF Reaches
  <1>4. (\A a \in T \cup C : Exists(a)') => ReadByAdministrator(c)'
    BY <1>1, <1>2 DEF ReadByAdministrator
  <1> QED BY <1>1, <1>2, <1>3, <1>4 DEF c

LEMMA StoredLoopUpdated ==
    ASSUME NEW c, c = [at |-> "loop", to_process |-> c.to_process, children |-> c.children],
           NEW T, NEW C
    PROVE  /\ [c EXCEPT !.to_process = T, !.children = C]
                = [at |-> "loop", to_process |-> T, children |-> C]
           /\ [c EXCEPT !.children = C]
                = [at |-> "loop", to_process |-> c.to_process, children |-> C]
  <1>1. PICK T0, C0 : T0 = c.to_process /\ C0 = c.children
    OBVIOUS
  <1>2. c = [at |-> "loop", to_process |-> T0, children |-> C0]
    BY <1>1
  <1>3. [[at |-> "loop", to_process |-> T0, children |-> C0] EXCEPT !.children = C]
          = [at |-> "loop", to_process |-> T0, children |-> C]
    OBVIOUS
  <1>4. [[at |-> "loop", to_process |-> T0, children |-> C0] EXCEPT !.to_process = T]
          = [at |-> "loop", to_process |-> T, children |-> C0]
    OBVIOUS
  <1>5. [[at |-> "loop", to_process |-> T, children |-> C0] EXCEPT !.children = C]
          = [at |-> "loop", to_process |-> T, children |-> C]
    OBVIOUS
  <1>6. [c EXCEPT !.to_process = T, !.children = C]
          = [[c EXCEPT !.to_process = T] EXCEPT !.children = C]
    OBVIOUS
  <1>7. [c EXCEPT !.to_process = T] = [at |-> "loop", to_process |-> T, children |-> C0]
    BY <1>2, <1>4
  <1>8. [c EXCEPT !.children = C] = [at |-> "loop", to_process |-> T0, children |-> C]
    BY <1>2, <1>3
  <1> QED BY <1>1, <1>5, <1>6, <1>7, <1>8

LEMMA StoredChild ==
    ASSUME NEW T \in SUBSET AgentId, NEW C \in SUBSET AgentId, NEW b \in AgentId
    PROVE  LET c == [at |-> "child", to_process |-> T, children |-> C, child |-> b] IN
           /\ c \in Administerings
           /\ \A l : Reaches(c, l) <=> l.from \in T \/ l.to \in {b} \cup C
           /\ (\A a \in {b} \cup T \cup C : Exists(a)') => ReadByAdministrator(c)'
  <1> DEFINE c == [at |-> "child", to_process |-> T, children |-> C, child |-> b]
  <1>1. c \in Administerings /\ c.at = "child" /\ c.to_process = T /\ c.children = C /\ c.child = b
    BY DEF Administerings
  <1>2. /\ Unfinished(c) = {b} \cup T /\ InHand(c) = {b} \cup C
        /\ Unfinished(c)' = {b} \cup T /\ InHand(c)' = {b} \cup C
    BY DEF Unfinished, InHand, Written
  <1> HIDE DEF c
  <1>3. \A l : Reaches(c, l) <=> l.from \in T \/ l.to \in {b} \cup C
    BY <1>1, <1>2 DEF Reaches
  <1>4. (\A a \in {b} \cup T \cup C : Exists(a)') => ReadByAdministrator(c)'
    BY <1>1, <1>2 DEF ReadByAdministrator
  <1> QED BY <1>1, <1>2, <1>3, <1>4 DEF c

LEMMA StoredTrustRead ==
    ASSUME RowsInv, NEW p \in Administrators,
           NEW a \in AgentId, NEW level \in TrustLevel, trust_read(p, a, level)
    PROVE  RowsInv'
  <1> DEFINE c2 == [at |-> "update", agent |-> a, level |-> level]
  <1>1. /\ administering[p] = NoRequest /\ Active(a)
        /\ administering' = [administering EXCEPT ![p] = c2]
        /\ UNCHANGED <<agents, links, delegating, failures, unwalked, missed>>
    BY DEF trust_read, Administer, tables, history
  <1>2. RowsKept
    BY <1>1, StoredSame
  <1>3. c2 \in Administerings
    BY DEF Administerings
  <1>4. ReadByAdministrator(c2)'
    <2>1. Exists(a)'
      BY <1>1 DEF Active, Exists
    <2>2. Unfinished(c2)' = {} /\ InHand(c2)' = {}
      BY DEF Unfinished, InHand, Written
    <2> QED BY <2>1, <2>2 DEF ReadByAdministrator
  <1>5. \A b \in AgentId : Active(b)' = Active(b)
    BY <1>1 DEF Active, Exists
  <1>6. \A l \in LinkSet : ~Reaches(administering[p], l)
    BY <1>1, StoredIdle DEF Reaches
  <1> HIDE DEF c2
  <1> QED BY <1>1, <1>2, <1>3, <1>4, <1>5, <1>6, StoredRequest, StoredAdminStep

LEMMA StoredTrustWrite ==
    ASSUME RowsInv, NEW p \in Administrators,
           trust_write(p)
    PROVE  RowsInv'
  <1> DEFINE t == administering[p]
  <1>1. /\ t.at = "update" /\ SetTrustLevel(t.agent, t.level)
        /\ administering' = [administering EXCEPT ![p] = NoRequest]
        /\ UNCHANGED <<links, delegating, failures, unwalked, missed>>
    BY DEF trust_write, Administer, history
  <1>2. t.agent \in AgentId /\ t.level \in TrustLevel /\ Exists(t.agent)
    BY <1>1, StoredRequest DEF ReadByAdministrator
  <1>3. RowsKept /\ \A a \in AgentId : Active(a) => Active(a)'
    BY <1>1, <1>2, StoredLevel
  <1>4. \A l \in LinkSet : ~Reaches(t, l)
    BY <1>1 DEF Reaches
  <1> QED BY <1>1, <1>3, <1>4, StoredIdle, StoredIdleRead, StoredRequest, StoredAdminStep

LEMMA StoredCascadeRead ==
    ASSUME RowsInv, NEW p \in Administrators,
           NEW id \in AgentId, cascade_read(p, id)
    PROVE  RowsInv'
  <1> DEFINE c2 == [at |-> "root", root |-> id]
  <1>1. /\ administering[p] = NoRequest /\ Active(id)
        /\ administering' = [administering EXCEPT ![p] = c2]
        /\ UNCHANGED <<agents, links, delegating, failures, unwalked, missed>>
    BY DEF cascade_read, Administer, tables, history
  <1>2. RowsKept
    BY <1>1, StoredSame
  <1>3. c2 \in Administerings
    BY DEF Administerings
  <1>4. ReadByAdministrator(c2)'
    <2>1. Exists(id)'
      BY <1>1 DEF Active, Exists
    <2>2. Unfinished(c2)' = {id} /\ InHand(c2)' = {id}
      BY DEF Unfinished, InHand, Written
    <2> QED BY <2>1, <2>2 DEF ReadByAdministrator
  <1>5. \A b \in AgentId : Active(b)' = Active(b)
    BY <1>1 DEF Active, Exists
  <1>6. \A l \in LinkSet : ~Reaches(administering[p], l)
    BY <1>1, StoredIdle DEF Reaches
  <1> HIDE DEF c2
  <1> QED BY <1>1, <1>2, <1>3, <1>4, <1>5, <1>6, StoredRequest, StoredAdminStep

LEMMA StoredCascadeRoot ==
    ASSUME RowsInv, NEW p \in Administrators,
           cascade_root(p)
    PROVE  RowsInv'
  <1>0. PICK id : id = administering[p].root
    OBVIOUS
  <1> DEFINE c2 == [at |-> "loop", to_process |-> {id}, children |-> {}]
  <1>1. /\ administering[p].at = "root" /\ SetInactive(id)
        /\ administering' = [administering EXCEPT ![p] = c2]
        /\ UNCHANGED <<links, delegating, failures, unwalked, missed>>
    BY <1>0 DEF cascade_root, Administer, history
  <1>2. id \in AgentId /\ Exists(id)
    BY <1>0, <1>1, StoredRequest, StoredHolds DEF ReadByAdministrator
  <1>3. RowsKept /\ \A a \in AgentId : Active(a) /\ ~Active(a)' => a = id
    BY <1>1, <1>2, StoredInactive
  <1>4. \A l \in LinkSet : ~Reaches(administering[p], l)
    BY <1>1 DEF Reaches
  <1>5. Exists(id)'
    BY <1>2, <1>3 DEF RowsKept
  <1>6. /\ c2 \in Administerings /\ c2.at = "loop" /\ c2.to_process = {id}
        /\ ReadByAdministrator(c2)'
    BY <1>2, <1>5, StoredLoop
  <1> HIDE DEF c2
  <1> QED BY <1>1, <1>3, <1>4, <1>6, StoredRequest, StoredAdminStep

LEMMA StoredCascadePop ==
    ASSUME RowsInv, NEW p \in Administrators,
           NEW current \in AgentId, cascade_pop(p, current)
    PROVE  RowsInv'
  <1>0. PICK c, C : c = administering[p] /\ C = DelegatesOf(current)
    OBVIOUS
  <1> DEFINE T == c.to_process \ {current}
             c2 == [at |-> "loop", to_process |-> T, children |-> C]
  <1>1. /\ c.at = "loop" /\ c.children = {} /\ current \in c.to_process
        /\ administering' = [administering EXCEPT ![p] =
               [c EXCEPT !.to_process = T, !.children = C]]
        /\ UNCHANGED <<agents, links, delegating, failures, unwalked, missed>>
    BY <1>0 DEF cascade_pop, Administer, tables, history
  <1>2. /\ c = [at |-> "loop", to_process |-> c.to_process, children |-> c.children]
        /\ c.to_process \in SUBSET AgentId
    BY <1>0, <1>1, StoredRequest
  <1>3. administering' = [administering EXCEPT ![p] = c2]
    <2>1. [c EXCEPT !.to_process = T, !.children = C] = c2
      <3> HIDE DEF T
      <3> QED BY <1>2, StoredLoopUpdated, Zenon
    <2> QED BY <1>1, <2>1
  <1>4. RowsKept
    BY <1>1, StoredSame
  <1>5. /\ \A a \in C : a \in AgentId /\ Exists(a)
        /\ \A l \in LinkSet : l.from = current => l.to \in C
    BY <1>0, StoredLinkEnds DEF DelegatesOf
  <1>6. \A a \in T : a \in AgentId /\ Exists(a)
    BY <1>0, <1>1, <1>2, StoredRequest, StoredHolds DEF ReadByAdministrator
  <1>7. \A a \in AgentId : Exists(a)' = Exists(a) /\ Active(a)' = Active(a)
    BY <1>1 DEF Exists, Active
  <1>8. T \in SUBSET AgentId /\ C \in SUBSET AgentId
    BY <1>5, <1>6
  <1>9. \A l : Reaches(c, l) <=> l.from \in c.to_process
    BY <1>1, StoredHolds DEF Reaches
  <1>10. /\ c2 \in Administerings /\ ReadByAdministrator(c2)'
         /\ \A l : Reaches(c2, l) <=> l.from \in T \/ l.to \in C
    <2> HIDE DEF T
    <2> QED BY <1>5, <1>6, <1>7, <1>8, StoredLoop
  <1>11. \A l \in LinkSet : Reaches(c, l) => Reaches(c2, l)
    BY <1>5, <1>9, <1>10
  <1> HIDE DEF c2
  <1> QED BY <1>0, <1>1, <1>3, <1>4, <1>7, <1>10, <1>11, StoredRequest, StoredAdminStep

LEMMA StoredCascadeAbort ==
    ASSUME RowsInv, NEW p \in Administrators,
           cascade_abort(p)
    PROVE  RowsInv'
  <1>0. PICK c : c = administering[p]
    OBVIOUS
  <1>1. /\ c.at = "loop" /\ c.children = {}
        /\ failures < MaxFailures /\ failures' = failures + 1
        /\ unwalked' = unwalked \cup c.to_process
        /\ administering' = [administering EXCEPT ![p] = NoRequest]
        /\ UNCHANGED <<agents, links, delegating, missed>>
    BY <1>0 DEF cascade_abort, Administer, tables, fails
  <1>2. c.to_process \in SUBSET AgentId /\ failures \in 0..MaxFailures
    BY <1>0, <1>1, StoredRequest
  <1>3. failures' \in 0..MaxFailures
    BY <1>1, <1>2, StorageRegistryAssumption
  <1>4. \A a \in AgentId : Active(a)' = Active(a)
    BY <1>1 DEF Exists, Active
  <1>5. \A l : Reaches(c, l) => l.from \in unwalked'
    BY <1>1, StoredHolds DEF Reaches
  <1>6. RowsKept
    BY <1>1, StoredSame
  <1> QED BY <1>0, <1>1, <1>2, <1>3, <1>4, <1>5, <1>6, StoredIdle, StoredIdleRead, StoredRequest,
             StoredAdminStep

LEMMA StoredCascadeChild ==
    ASSUME RowsInv, NEW p \in Administrators,
           NEW child \in AgentId, cascade_child(p, child) \/ cascade_child_unread(p, child)
    PROVE  RowsInv'
  <1>0. PICK c : c = administering[p]
    OBVIOUS
  <1> DEFINE T == c.to_process
             C == c.children \ {child}
             c1 == [at |-> "loop", to_process |-> T, children |-> C]
             c2 == [at |-> "child", to_process |-> T, children |-> C, child |-> child]
  <1>1. c.at = "loop" /\ child \in c.children /\ UNCHANGED <<agents, links, delegating, unwalked>>
    BY <1>0 DEF cascade_child, cascade_child_unread, tables, history
  <1>2. /\ c = [at |-> "loop", to_process |-> c.to_process, children |-> c.children]
        /\ c.to_process \in SUBSET AgentId /\ c.children \in SUBSET AgentId
        /\ failures \in 0..MaxFailures /\ unwalked \subseteq AgentId /\ missed \subseteq AgentId
    BY <1>0, <1>1, StoredRequest
  <1>3. [c EXCEPT !.children = C] = c1
    <2> HIDE DEF C
    <2> QED BY <1>2, StoredLoopUpdated, Zenon
  <1>4. \A a \in T \cup c.children : Exists(a)
    BY <1>0, <1>1, <1>2, StoredRequest, StoredHolds DEF ReadByAdministrator
  <1>5. \A a \in AgentId : Exists(a)' = Exists(a) /\ Active(a)' = Active(a)
    BY <1>1 DEF Exists, Active
  <1>6. \A l : Reaches(c, l) <=> l.from \in T \/ l.to \in c.children
    BY <1>1, StoredHolds DEF Reaches
  <1>7. T \in SUBSET AgentId /\ C \in SUBSET AgentId /\ {child} \cup T \cup C \subseteq T \cup c.children
        /\ T \cup C \subseteq T \cup c.children
    BY <1>1, <1>2
  <1>8. /\ c1 \in Administerings /\ ReadByAdministrator(c1)'
        /\ \A l : Reaches(c1, l) <=> l.from \in T \/ l.to \in C
    <2> HIDE DEF T, C
    <2> QED BY <1>4, <1>5, <1>7, StoredLoop
  <1>9. /\ c2 \in Administerings /\ ReadByAdministrator(c2)'
        /\ \A l : Reaches(c2, l) <=> l.from \in T \/ l.to \in {child} \cup C
    <2> HIDE DEF T, C
    <2> QED BY <1>4, <1>5, <1>7, StoredChild
  <1>10. RowsKept
    BY <1>1, StoredSame
  <1> HIDE DEF c1, c2
  <1>11. CASE cascade_child(p, child) /\ Active(child)
    <2>1. administering' = [administering EXCEPT ![p] = c2] /\ UNCHANGED <<failures, missed>>
      BY <1>0, <1>11 DEF cascade_child, Administer, history, c2
    <2> QED BY <1>0, <1>1, <1>2, <1>5, <1>6, <1>9, <1>10, <2>1, StoredAdminStep
  <1>12. CASE cascade_child(p, child) /\ ~Active(child)
    <2>1. administering' = [administering EXCEPT ![p] = c1] /\ UNCHANGED <<failures, missed>>
      BY <1>0, <1>3, <1>12 DEF cascade_child, Administer, history
    <2> QED BY <1>0, <1>1, <1>2, <1>5, <1>6, <1>8, <1>10, <1>12, <2>1, StoredAdminStep
  <1>13. CASE cascade_child_unread(p, child)
    <2>1. /\ administering' = [administering EXCEPT ![p] = c1]
          /\ failures < MaxFailures /\ failures' = failures + 1 /\ missed' = missed \cup {child}
      BY <1>0, <1>3, <1>13 DEF cascade_child_unread, Administer, fails
    <2>2. failures' \in 0..MaxFailures
      BY <1>2, <2>1, StorageRegistryAssumption
    <2> QED BY <1>0, <1>1, <1>2, <1>5, <1>6, <1>8, <1>10, <2>1, <2>2, StoredAdminStep
  <1> QED BY <1>11, <1>12, <1>13

LEMMA StoredCascadeUpdate ==
    ASSUME RowsInv, NEW p \in Administrators,
           cascade_update(p) \/ cascade_update_fails(p)
    PROVE  RowsInv'
  <1>0. PICK c, b : c = administering[p] /\ b = c.child
    OBVIOUS
  <1> DEFINE T1 == c.to_process
             T2 == c.to_process \cup {b}
             C == c.children
             c1 == [at |-> "loop", to_process |-> T1, children |-> C]
             c2 == [at |-> "loop", to_process |-> T2, children |-> C]
  <1>1. c.at = "child" /\ UNCHANGED <<links, delegating, unwalked>>
    BY <1>0 DEF cascade_update, cascade_update_fails, tables, history
  <1>2. /\ c.to_process \in SUBSET AgentId /\ c.children \in SUBSET AgentId /\ b \in AgentId
        /\ failures \in 0..MaxFailures /\ unwalked \subseteq AgentId /\ missed \subseteq AgentId
    BY <1>0, <1>1, StoredRequest
  <1>3. \A a \in {b} \cup T1 \cup C : Exists(a)
    <2>1. ReadByAdministrator(c)
      BY <1>0, StoredRequest
    <2>2. Unfinished(c) = {b} \cup T1 /\ InHand(c) = {b} \cup C
      BY <1>0, <1>1, StoredHolds
    <2> QED BY <2>1, <2>2 DEF ReadByAdministrator
  <1>4. \A l : Reaches(c, l) <=> l.from \in T1 \/ l.to \in {b} \cup C
    BY <1>0, <1>1, StoredHolds DEF Reaches
  <1>5. T1 \in SUBSET AgentId /\ T2 \in SUBSET AgentId /\ C \in SUBSET AgentId
    BY <1>2
  <1>6. CASE cascade_update(p)
    <2>1. /\ administering' = [administering EXCEPT ![p] = c2] /\ SetInactive(b)
          /\ UNCHANGED <<failures, missed>>
      BY <1>0, <1>6 DEF cascade_update, Administer, Back, history
    <2>2. RowsKept /\ \A a \in AgentId : Active(a) /\ ~Active(a)' => a = b
      BY <1>2, <1>3, <2>1, StoredInactive
    <2>3. \A a \in T2 \cup C : a \in AgentId /\ Exists(a)'
      BY <1>2, <1>3, <2>2 DEF RowsKept
    <2>4. /\ c2 \in Administerings /\ c2.at = "loop" /\ c2.to_process = T2
          /\ ReadByAdministrator(c2)'
          /\ \A l : Reaches(c2, l) <=> l.from \in T2 \/ l.to \in C
      <3> HIDE DEF T2, C
      <3> QED BY <1>5, <2>3, StoredLoop
    <2>5. ~Active(b)'
      <3>1. agents[b] \in Rows /\ agents \in [AgentId -> Rows \cup {Unregistered}]
        BY <1>2, <1>3, StoredRow DEF RowsInv, StorageRegistryTypeOK
      <3>2. agents'[b] = [agents[b] EXCEPT !.active = FALSE]
        BY <1>2, <2>1, <3>1 DEF SetInactive
      <3>3. agents'[b].active = FALSE
        BY <3>1, <3>2 DEF Rows
      <3> QED BY <3>3 DEF Active
    <2>6. \A l \in LinkSet : Reaches(c, l) /\ Active(l.to)' => Reaches(c2, l)
      BY <1>4, <2>4, <2>5
    <2> HIDE DEF c2
    <2> QED BY <1>0, <1>1, <1>2, <2>1, <2>2, <2>4, <2>6, StoredAdminStep
  <1>7. CASE cascade_update_fails(p)
    <2>1. /\ administering' = [administering EXCEPT ![p] =
                [at |-> "loop", to_process |-> c.to_process \cup {}, children |-> c.children]]
          /\ missed' = missed \cup {b} /\ failures < MaxFailures /\ failures' = failures + 1
          /\ UNCHANGED agents
      BY <1>0, <1>7 DEF cascade_update_fails, Administer, Back, fails, tables
    <2>2. administering' = [administering EXCEPT ![p] = c1]
      <3>1. c.to_process \cup {} = c.to_process
        OBVIOUS
      <3> QED BY <2>1, <3>1
    <2>3. failures' \in 0..MaxFailures
      BY <1>2, <2>1, StorageRegistryAssumption
    <2>4. RowsKept
      BY <2>1, StoredSame
    <2>5. \A a \in AgentId : Active(a)' = Active(a) /\ Exists(a)' = Exists(a)
      BY <2>1 DEF Active, Exists
    <2>6. \A a \in T1 \cup C : Exists(a)'
      BY <1>2, <1>3, <2>5
    <2>7. /\ c1 \in Administerings /\ ReadByAdministrator(c1)'
          /\ \A l : Reaches(c1, l) <=> l.from \in T1 \/ l.to \in C
      <3> HIDE DEF T1, C
      <3> QED BY <1>5, <2>6, StoredLoop
    <2>8. \A l \in LinkSet : Reaches(c, l) => Reaches(c1, l) \/ l.to \in missed'
      BY <1>4, <2>1, <2>7
    <2> HIDE DEF c1
    <2> QED BY <1>0, <1>1, <1>2, <2>1, <2>2, <2>3, <2>4, <2>5, <2>7, <2>8, StoredAdminStep
  <1> QED BY <1>6, <1>7

LEMMA StoredCascadeReturn ==
    ASSUME RowsInv, NEW p \in Administrators,
           cascade_return(p)
    PROVE  RowsInv'
  <1>0. PICK c : c = administering[p]
    OBVIOUS
  <1>1. /\ c.at = "loop" /\ c.children = {} /\ c.to_process = {}
        /\ administering' = [administering EXCEPT ![p] = NoRequest]
        /\ UNCHANGED <<agents, links, delegating, failures, unwalked, missed>>
    BY <1>0 DEF cascade_return, Administer, tables, history
  <1>2. \A a \in AgentId : Active(a)' = Active(a)
    BY <1>1 DEF Exists, Active
  <1>3. \A l : ~Reaches(c, l)
    BY <1>1, StoredHolds DEF Reaches
  <1>4. RowsKept
    BY <1>1, StoredSame
  <1> QED BY <1>0, <1>1, <1>2, <1>3, <1>4, StoredIdle, StoredIdleRead, StoredRequest, StoredAdminStep

LEMMA StoredGone ==
    ASSUME RowsInv, NEW p \in Administrators,
           administrator_gone(p)
    PROVE  RowsInv'
  <1>0. PICK c : c = administering[p]
    OBVIOUS
  <1>1. PICK W, U, H : W = Written(c) /\ U = Unfinished(c) /\ H = InHand(c)
    OBVIOUS
  <1>2. /\ c.at \in {"root", "loop", "child"}
        /\ failures < MaxFailures /\ failures' = failures + 1
        /\ administering' = [administering EXCEPT ![p] = NoRequest]
        /\ unwalked' = unwalked \cup U /\ missed' = missed \cup H
        /\ agents' \in {agents, [a \in AgentId |-> IF a \in W THEN [agents[a] EXCEPT !.active = FALSE]
                                               ELSE agents[a]]}
        /\ UNCHANGED <<links, delegating>>
    BY <1>0, <1>1 DEF administrator_gone, Administer, fails
  <1>3. /\ W \subseteq U /\ U \subseteq AgentId /\ H \subseteq AgentId
        /\ \A a \in U : Exists(a)
        /\ \A l : Reaches(c, l) => l.from \in U \/ l.to \in H
    <2>1. W \subseteq U /\ \A a \in U : Exists(a)
      BY <1>0, <1>1, StoredRequest DEF Unfinished, ReadByAdministrator
    <2>2. U \subseteq AgentId /\ H \subseteq AgentId
      <3>1. /\ c.at = "root" => c.root \in AgentId
            /\ c.at \in {"loop", "child"} =>
                 c.to_process \in SUBSET AgentId /\ c.children \in SUBSET AgentId
            /\ c.at = "child" => c.child \in AgentId
        BY <1>0, StoredRequest
      <3> QED BY <1>1, <1>2, <3>1 DEF Unfinished, InHand, Written
    <2>3. \A l : Reaches(c, l) => l.from \in U \/ l.to \in H
      BY <1>1 DEF Reaches, Unfinished
    <2> QED BY <2>1, <2>2, <2>3
  <1>4. RowsKept /\ \A a \in AgentId : Active(a) /\ ~Active(a)' => a \in U
    <2>1. CASE agents' = agents
      BY <2>1, StoredSame DEF Active, Exists
    <2>2. CASE agents' = [a \in AgentId |-> IF a \in W THEN [agents[a] EXCEPT !.active = FALSE]
                                          ELSE agents[a]]
      <3>1. agents \in [AgentId -> Rows \cup {Unregistered}]
        BY DEF RowsInv, StorageRegistryTypeOK
      <3>2. ASSUME NEW a \in AgentId, a \in W
            PROVE  /\ agents'[a] \in Rows /\ agents'[a].owner = agents[a].owner
                   /\ agents'[a].active = FALSE /\ agents'[a] # Unregistered
        <4>1. agents[a] \in Rows
          BY <1>3, <3>2, StoredRow
        <4>2. agents'[a] = [agents[a] EXCEPT !.active = FALSE]
          BY <2>2, <3>2
        <4>3. agents'[a] \in Rows /\ agents'[a].owner = agents[a].owner /\ agents'[a].active = FALSE
          BY <4>1, <4>2 DEF Rows
        <4> QED BY <4>3, StorageRegistryAssumption
      <3>3. \A a \in AgentId : a \notin W => agents'[a] = agents[a]
        BY <2>2
      <3>4. agents' = [a \in AgentId |-> agents'[a]]
        BY <2>2
      <3>5. \A a \in AgentId : agents'[a] \in Rows \cup {Unregistered}
        BY <3>1, <3>2, <3>3
      <3>6. agents' \in [AgentId -> Rows \cup {Unregistered}]
        BY <3>4, <3>5
      <3> QED BY <1>3, <3>2, <3>3, <3>6 DEF RowsKept, Exists, Active
    <2> QED BY <1>2, <2>1, <2>2
  <1>5. failures' \in 0..MaxFailures
    <2>1. failures \in 0..MaxFailures
      BY StoredRequest
    <2> QED BY <1>2, <2>1, StorageRegistryAssumption
  <1> QED BY <1>0, <1>2, <1>3, <1>4, <1>5, StoredIdle, StoredIdleRead, StoredRequest, StoredAdminStep

(* The requests that delegate, and what concerns all.                      *)
LEMMA StoredOtherStep ==
    ASSUME RowsInv, RowsKept,
           UNCHANGED <<administering, failures, unwalked, missed>>,
           links' \in Seq(LinkRows),
           delegating' \in [Delegators -> Delegatings],
           \A p \in Delegators : ReadForDelegation(delegating[p])',
           \A a \in AgentId : Active(a) => Active(a)',
           \A l \in LinkSet' : l \in LinkSet
              \/ /\ l \in LinkRows /\ (l.live => Active(l.from))
                 /\ Exists(l.from) /\ Exists(l.to) /\ agents[l.from].owner = agents[l.to].owner
    PROVE  RowsInv'
  <1>1. StorageRegistryTypeOK /\ InRows /\ Covered
    BY DEF RowsInv
  <1>2. ASSUME NEW l \in LinkSet'
        PROVE  /\ l \in LinkRows /\ l.from \in AgentId /\ l.to \in AgentId
               /\ Exists(l.from) /\ Exists(l.to) /\ agents[l.from].owner = agents[l.to].owner
    BY StoredLinkEnds DEF LinkRows
  <1>3. StorageRegistryTypeOK'
    <2>1. \A l \in LinkSet' :
             /\ l \in LinkRows
             /\ Exists(l.from)' /\ Exists(l.to)'
             /\ agents'[l.from].owner = agents'[l.to].owner
      BY <1>2 DEF RowsKept
    <2> QED BY <1>1, <2>1 DEF StorageRegistryTypeOK, RowsKept
  <1>4. InRows'
    BY <1>1, StoredReadsKept DEF InRows
  <1>5. Covered'
    <2> SUFFICES ASSUME NEW l \in LinkSet', l.live, ~Active(l.from)', Active(l.to)'
                 PROVE  \/ l.from \in unwalked \/ l.to \in missed
                        \/ \E q \in Administrators : Reaches(administering[q], l)
      BY DEF Covered, Reaches, Unfinished, InHand, Written
    <2>1. ~Active(l.from) /\ Active(l.to)
      BY <1>2 DEF RowsKept
    <2>2. l \in LinkSet
      BY <2>1
    <2> QED BY <1>1, <2>1, <2>2 DEF Covered
  <1> QED BY <1>3, <1>4, <1>5 DEF RowsInv

LEMMA StoredRegister ==
    ASSUME RowsInv,
           NEW b \in AgentId, NEW owner \in Owner, NEW caps \in Capabilities, NEW level \in TrustLevel,
           register_agent(b, owner, caps, level)
    PROVE  RowsInv'
  <1> DEFINE r == [owner |-> owner, capabilities |-> caps, trust_level |-> level, active |-> TRUE]
  <1>1. /\ agents[b] = Unregistered /\ agents' = [agents EXCEPT ![b] = r]
        /\ UNCHANGED <<links, delegating, administering, failures, unwalked, missed>>
    BY DEF register_agent, InsertAgent, history
  <1>2. r \in Rows
    BY StorageRegistryAssumption DEF Rows
  <1>3. r # Unregistered
    BY <1>2, StorageRegistryAssumption
  <1>4. agents \in [AgentId -> Rows \cup {Unregistered}]
    BY DEF RowsInv, StorageRegistryTypeOK
  <1> HIDE DEF r
  <1>5. RowsKept /\ \A a \in AgentId : Active(a) => Active(a)'
    BY <1>1, <1>2, <1>3, <1>4 DEF RowsKept, Exists, Active
  <1>6. LinkSet' = LinkSet
    BY <1>1 DEF LinkSet
  <1>7. InRows
    BY DEF RowsInv
  <1>8. /\ links' \in Seq(LinkRows) /\ delegating' \in [Delegators -> Delegatings]
        /\ \A p \in Delegators : ReadForDelegation(delegating[p])'
    BY <1>1, <1>5, <1>7, StoredReadsKept DEF InRows
  <1> QED BY <1>1, <1>5, <1>6, <1>8, StoredOtherStep

(* A step of one delegation, from d to d2.                                 *)
LEMMA StoredDelegationStep ==
    ASSUME RowsInv, NEW p \in Delegators,
           NEW d2 \in Delegatings, delegating' = [delegating EXCEPT ![p] = d2],
           UNCHANGED <<agents, links, administering, failures, unwalked, missed>>,
           ReadForDelegation(d2)'
    PROVE  RowsInv'
  <1>1. RowsKept /\ \A a \in AgentId : Active(a) => Active(a)'
    BY StoredSame DEF Active, Exists
  <1>2. LinkSet' = LinkSet
    BY DEF LinkSet
  <1>3. InRows
    BY DEF RowsInv
  <1>4. /\ links' \in Seq(LinkRows) /\ delegating' \in [Delegators -> Delegatings]
        /\ \A q \in Delegators : ReadForDelegation(delegating[q])'
    BY <1>1, <1>3, StoredReadsKept DEF InRows
  <1> QED BY <1>1, <1>2, <1>4, StoredOtherStep

(* Where a delegation stands.                                              *)
LEMMA StoredDelegation ==
    ASSUME RowsInv, NEW p \in Delegators
    PROVE  /\ delegating[p] \in Delegatings /\ ReadForDelegation(delegating[p])
           /\ delegating[p].at \in {"idle", "target", "walk", "insert"}
           /\ delegating[p].at # "idle" =>
                 /\ delegating[p] # NoRequest
                 /\ delegating[p].from \in AgentId /\ delegating[p].to \in AgentId
           /\ delegating[p].at = "walk" =>
                 /\ delegating[p].current \in AgentId /\ delegating[p].visited \in SUBSET AgentId
                 /\ delegating[p] \in [at: {"walk"}, from: AgentId, to: AgentId, current: AgentId,
                                       visited: SUBSET AgentId]
           /\ delegating[p] # NoRequest => delegating[p].at # "idle"
  <1>1. delegating[p] \in Delegatings /\ ReadForDelegation(delegating[p])
    BY DEF RowsInv, InRows
  <1> QED BY <1>1 DEF Delegatings, NoRequest

LEMMA StoredParent ==
    ASSUME RowsInv, NEW p \in Delegators,
           NEW from \in AgentId, NEW to \in AgentId, NEW scopes,
           delegation_parent(p, from, to, scopes)
    PROVE  RowsInv'
  <1>0. PICK o : o = agents[from].owner
    OBVIOUS
  <1> DEFINE d2 == [at |-> "target", from |-> from, to |-> to, owner |-> o]
  <1>1. /\ from # to /\ Active(from) /\ delegating' = [delegating EXCEPT ![p] = d2]
        /\ UNCHANGED <<agents, links, administering, failures, unwalked, missed>>
    BY <1>0 DEF delegation_parent, tables, history
  <1>2. agents[from] \in Rows
    BY <1>1, StoredRow DEF Active
  <1>3. d2 \in Delegatings
    BY <1>0, <1>2 DEF Rows, Delegatings
  <1>4. ReadForDelegation(d2)'
    BY <1>0, <1>1 DEF ReadForDelegation, Active, Exists
  <1> HIDE DEF d2
  <1> QED BY <1>1, <1>3, <1>4, StoredDelegationStep

LEMMA StoredTarget ==
    ASSUME RowsInv, NEW p \in Delegators,
           delegation_target(p)
    PROVE  RowsInv'
  <1>0. PICK d : d = delegating[p]
    OBVIOUS
  <1> DEFINE d2 == [at |-> "walk", from |-> d.from, to |-> d.to, current |-> d.from,
                    visited |-> {d.from}]
  <1>1. /\ d.at = "target"
        /\ delegating' = [delegating EXCEPT ![p] =
               IF Exists(d.to) /\ d.owner = agents[d.to].owner THEN d2 ELSE NoRequest]
        /\ UNCHANGED <<agents, links, administering, failures, unwalked, missed>>
    BY <1>0 DEF delegation_target, tables, history
  <1>2. /\ d.from \in AgentId /\ d.to \in AgentId /\ d.from # d.to
        /\ Exists(d.from) /\ agents[d.from].owner = d.owner
    BY <1>0, <1>1, StoredDelegation DEF ReadForDelegation
  <1>3. CASE Exists(d.to) /\ d.owner = agents[d.to].owner
    <2>1. d2 \in Delegatings
      BY <1>2 DEF Delegatings
    <2>2. ReadForDelegation(d2)'
      BY <1>1, <1>2, <1>3 DEF ReadForDelegation, Exists
    <2> HIDE DEF d2
    <2> QED BY <1>1, <1>3, <2>1, <2>2, StoredDelegationStep
  <1>4. CASE ~(Exists(d.to) /\ d.owner = agents[d.to].owner)
    BY <1>1, <1>4, StoredIdle, StoredIdleRead, StoredDelegationStep
  <1> QED BY <1>3, <1>4

(* What delegation_walk makes of a delegation: where it ends up.           *)
LEMMA StoredWalkTo ==
    ASSUME RowsInv, NEW p \in Delegators, delegation_walk(p),
           NEW d, d = delegating[p], NEW up, up = FirstLinkTo(d.current).from
    PROVE  LET insert == [at |-> "insert", from |-> d.from, to |-> d.to]
               walk == [at |-> "walk", from |-> d.from, to |-> d.to, current |-> up,
                        visited |-> d.visited \cup {up}]
           IN  /\ d.at = "walk"
               /\ UNCHANGED <<agents, links, administering, failures, unwalked, missed>>
               /\ \/ /\ delegating' = [delegating EXCEPT ![p] = insert]
                     /\ IncomingOf(d.current) = {} \/ up \in d.visited
                  \/ delegating' = [delegating EXCEPT ![p] = NoRequest]
                  \/ /\ delegating' = [delegating EXCEPT ![p] = walk]
                     /\ IncomingOf(d.current) # {} /\ up # d.to
  <1> DEFINE insert == [at |-> "insert", from |-> d.from, to |-> d.to]
             walk == [at |-> "walk", from |-> d.from, to |-> d.to, current |-> up,
                      visited |-> d.visited \cup {up}]
             onwards == [d EXCEPT !.current = up, !.visited = d.visited \cup {up}]
  <1>1. /\ d.at = "walk"
        /\ delegating' = [delegating EXCEPT ![p] =
              IF IncomingOf(d.current) = {} \/ (up # d.to /\ up \in d.visited) THEN insert
              ELSE IF up = d.to THEN NoRequest ELSE onwards]
        /\ UNCHANGED <<agents, links, administering, failures, unwalked, missed>>
    BY DEF delegation_walk, tables, history
  <1>2. d \in [at: {"walk"}, from: AgentId, to: AgentId, current: AgentId, visited: SUBSET AgentId]
    BY <1>1, StoredDelegation
  <1>3. onwards = walk
    <2>1. PICK f, t, c, v : d = [at |-> "walk", from |-> f, to |-> t, current |-> c, visited |-> v]
      BY <1>2
    <2>2. d.from = f /\ d.to = t /\ d.visited = v
      BY <2>1
    <2>3. [d EXCEPT !.current = up]
            = [at |-> "walk", from |-> f, to |-> t, current |-> up, visited |-> v]
      BY <2>1
    <2>4. [[at |-> "walk", from |-> f, to |-> t, current |-> up, visited |-> v]
             EXCEPT !.visited = v \cup {up}]
            = [at |-> "walk", from |-> f, to |-> t, current |-> up, visited |-> v \cup {up}]
      OBVIOUS
    <2>5. [d EXCEPT !.current = up, !.visited = v \cup {up}]
            = [[d EXCEPT !.current = up] EXCEPT !.visited = v \cup {up}]
      OBVIOUS
    <2> QED BY <2>2, <2>3, <2>4, <2>5
  <1> HIDE DEF walk, onwards, insert
  <1>4. \/ /\ delegating' = [delegating EXCEPT ![p] = insert]
           /\ IncomingOf(d.current) = {} \/ up \in d.visited
        \/ delegating' = [delegating EXCEPT ![p] = NoRequest]
        \/ /\ delegating' = [delegating EXCEPT ![p] = walk]
           /\ IncomingOf(d.current) # {} /\ up # d.to
    BY <1>1, <1>3
  <1> QED BY <1>1, <1>4 DEF walk, insert

LEMMA StoredIncoming ==
    ASSUME RowsInv
    PROVE  \A a : IncomingOf(a) \in SUBSET Nat
  BY DEF RowsInv, InRows, IncomingOf

LEMMA StoredFirstLink ==
    ASSUME RowsInv, NEW a, IncomingOf(a) # {}
    PROVE  \E m \in IncomingOf(a) :
              /\ \A k \in IncomingOf(a) : m <= k
              /\ FirstLinkTo(a) = links[m] /\ FirstLinkTo(a).from \in AgentId
  <1>1. IncomingOf(a) \in SUBSET Nat
    BY StoredIncoming
  <1>2. PICK m \in IncomingOf(a) : \A k \in IncomingOf(a) : m <= k
    BY <1>1, Least
  <1>3. (CHOOSE i \in IncomingOf(a) : \A j \in IncomingOf(a) : i <= j) = m
    BY <1>1, <1>2, LeastChosen
  <1>4. links[m] \in LinkRows
    BY <1>2 DEF RowsInv, InRows, IncomingOf
  <1> QED BY <1>2, <1>3, <1>4 DEF FirstLinkTo, LinkRows

LEMMA StoredWalk ==
    ASSUME RowsInv, NEW p \in Delegators,
           delegation_walk(p)
    PROVE  RowsInv'
  <1>0. PICK d, up : d = delegating[p] /\ up = FirstLinkTo(d.current).from
    OBVIOUS
  <1> DEFINE insert == [at |-> "insert", from |-> d.from, to |-> d.to]
             walk == [at |-> "walk", from |-> d.from, to |-> d.to, current |-> up,
                      visited |-> d.visited \cup {up}]
  <1>1. /\ d.at = "walk"
        /\ UNCHANGED <<agents, links, administering, failures, unwalked, missed>>
        /\ \/ delegating' = [delegating EXCEPT ![p] = insert]
           \/ delegating' = [delegating EXCEPT ![p] = NoRequest]
           \/ delegating' = [delegating EXCEPT ![p] = walk] /\ IncomingOf(d.current) # {}
    BY <1>0, StoredWalkTo
  <1>2. /\ d.from \in AgentId /\ d.to \in AgentId /\ d.from # d.to /\ d.visited \in SUBSET AgentId
        /\ Exists(d.from) /\ Exists(d.to) /\ agents[d.from].owner = agents[d.to].owner
    BY <1>0, <1>1, StoredDelegation DEF ReadForDelegation
  <1>3. CASE delegating' = [delegating EXCEPT ![p] = insert]
    <2>1. insert \in Delegatings
      BY <1>2 DEF Delegatings
    <2>2. ReadForDelegation(insert)'
      BY <1>1, <1>2 DEF ReadForDelegation, Exists
    <2> HIDE DEF insert
    <2> QED BY <1>1, <1>3, <2>1, <2>2, StoredDelegationStep
  <1>4. CASE delegating' = [delegating EXCEPT ![p] = walk] /\ IncomingOf(d.current) # {}
    <2>1. up \in AgentId
      BY <1>0, <1>4, StoredFirstLink
    <2>2. walk \in Delegatings
      BY <1>2, <2>1 DEF Delegatings
    <2>3. ReadForDelegation(walk)'
      BY <1>1, <1>2 DEF ReadForDelegation, Exists
    <2> HIDE DEF walk
    <2> QED BY <1>1, <1>4, <2>2, <2>3, StoredDelegationStep
  <1>5. CASE delegating' = [delegating EXCEPT ![p] = NoRequest]
    BY <1>1, <1>5, StoredIdle, StoredIdleRead, StoredDelegationStep
  <1> QED BY <1>1, <1>3, <1>4, <1>5

LEMMA StoredInsertRow ==
    ASSUME RowsInv, NEW p \in Delegators, delegation_insert(p)
    PROVE  \E l \in LinkRows :
              /\ l.from = delegating[p].from /\ l.to = delegating[p].to
              /\ l.live => Active(l.from)
              /\ l.alone => WalkingUp = {p}
              /\ links' = Append(links, l)
              /\ LinkSet' = LinkSet \cup {l}
              /\ delegating[p].at = "insert" /\ delegating' = [delegating EXCEPT ![p] = NoRequest]
              /\ UNCHANGED <<agents, administering, failures, unwalked, missed>>
  <1>0. PICK d : d = delegating[p]
    OBVIOUS
  <1>1. PICK l : l = [from |-> d.from, to |-> d.to, live |-> Active(d.from),
                      alone |-> WalkingUp = {p}]
    OBVIOUS
  <1>2. /\ d.at = "insert" /\ links' = Append(links, l)
        /\ delegating' = [delegating EXCEPT ![p] = NoRequest]
        /\ UNCHANGED <<agents, administering, failures, unwalked, missed>>
    BY <1>0, <1>1 DEF delegation_insert, InsertDelegation, history
  <1>3. d.from \in AgentId /\ d.to \in AgentId /\ Exists(d.from)
    BY <1>0, <1>2, StoredDelegation DEF ReadForDelegation
  <1>4. agents[d.from] \in Rows
    BY <1>3, StoredRow
  <1>5. Active(d.from) \in BOOLEAN
    BY <1>4 DEF Active, Exists, Rows
  <1>6. /\ l \in LinkRows /\ l.from = d.from /\ l.to = d.to
        /\ l.live => Active(d.from)
        /\ l.alone => WalkingUp = {p}
    BY <1>1, <1>3, <1>5 DEF LinkRows
  <1>7. links \in Seq(LinkRows)
    BY DEF RowsInv, InRows
  <1>8. LinkSet' = LinkSet \cup {l}
    <2>1. /\ Len(links) \in Nat /\ DOMAIN links = 1..Len(links)
          /\ DOMAIN links' = 1..(Len(links) + 1)
          /\ \A i \in 1..Len(links) : links'[i] = links[i]
          /\ links'[Len(links) + 1] = l
      BY <1>2, <1>6, <1>7
    <2> QED BY <2>1 DEF LinkSet
  <1> QED BY <1>0, <1>2, <1>6, <1>8

LEMMA StoredInsert ==
    ASSUME RowsInv, NEW p \in Delegators,
           delegation_insert(p)
    PROVE  RowsInv'
  <1>1. PICK l \in LinkRows :
              /\ l.from = delegating[p].from /\ l.to = delegating[p].to
              /\ l.live => Active(l.from)
              /\ links' = Append(links, l)
              /\ LinkSet' = LinkSet \cup {l}
              /\ delegating[p].at = "insert" /\ delegating' = [delegating EXCEPT ![p] = NoRequest]
              /\ UNCHANGED <<agents, administering, failures, unwalked, missed>>
    BY StoredInsertRow
  <1>2. Exists(l.from) /\ Exists(l.to) /\ agents[l.from].owner = agents[l.to].owner
    BY <1>1, StoredDelegation DEF ReadForDelegation
  <1>3. RowsKept /\ \A a \in AgentId : Active(a) => Active(a)'
    BY <1>1, StoredSame DEF Active, Exists
  <1>4. InRows
    BY DEF RowsInv
  <1>5. /\ links' \in Seq(LinkRows) /\ delegating' \in [Delegators -> Delegatings]
        /\ \A q \in Delegators : ReadForDelegation(delegating[q])'
    BY <1>1, <1>3, <1>4, StoredReadsKept, StoredIdle, StoredIdleRead DEF InRows
  <1> QED BY <1>1, <1>2, <1>3, <1>5, StoredOtherStep

LEMMA StoredFails ==
    ASSUME RowsInv, call_fails
    PROVE  RowsInv'
  <1>1. /\ failures < MaxFailures /\ failures' = failures + 1
        /\ UNCHANGED <<agents, links, unwalked, missed>>
        /\ \/ \E p \in Delegators : /\ delegating' = [delegating EXCEPT ![p] = NoRequest]
                                    /\ UNCHANGED administering
           \/ \E p \in Administrators : /\ administering[p].at \in {"update", "root"}
                                        /\ administering' = [administering EXCEPT ![p] = NoRequest]
                                        /\ UNCHANGED delegating
    BY DEF call_fails, fails, tables, Administer
  <1>2. failures \in 0..MaxFailures /\ InRows /\ StorageRegistryTypeOK /\ Covered
    BY DEF RowsInv, StorageRegistryTypeOK
  <1>3. failures' \in 0..MaxFailures
    BY <1>1, <1>2, StorageRegistryAssumption
  <1>4. RowsKept /\ \A a \in AgentId : Active(a) <=> Active(a)'
    BY <1>1, StoredSame DEF Active, Exists
  <1>5. ASSUME NEW p \in Delegators, delegating' = [delegating EXCEPT ![p] = NoRequest],
               UNCHANGED administering
        PROVE  RowsInv'
    <2>1. StorageRegistryTypeOK'
      BY <1>1, <1>2, <1>3, <1>5 DEF StorageRegistryTypeOK, LinkSet, Exists
    <2>2. InRows'
      BY <1>1, <1>2, <1>4, <1>5, StoredReadsKept, StoredIdle, StoredIdleRead DEF InRows
    <2>3. Covered'
      BY <1>1, <1>2, <1>5 DEF Covered, LinkSet, Active, Exists,
                              Reaches, InHand, Written
    <2> QED BY <2>1, <2>2, <2>3 DEF RowsInv
  <1>6. ASSUME NEW p \in Administrators, administering[p].at \in {"update", "root"},
               administering' = [administering EXCEPT ![p] = NoRequest], UNCHANGED delegating
        PROVE  RowsInv'
    <2>1. \A l : ~Reaches(administering[p], l)
      BY <1>6 DEF Reaches
    <2> QED BY <1>1, <1>3, <1>4, <1>6, <2>1, StoredIdle, StoredIdleRead, StoredRequest, StoredAdminStep
  <1> QED BY <1>1, <1>5, <1>6

LEMMA StoredRestart ==
    ASSUME RowsInv, restart
    PROVE  RowsInv'
  <1> DEFINE U == UNION {Unfinished(administering[p]) : p \in Administrators}
             H == UNION {InHand(administering[p]) : p \in Administrators}
  <1>1. /\ failures < MaxFailures /\ failures' = failures + 1
        /\ delegating' = [p \in Delegators |-> NoRequest]
        /\ administering' = [p \in Administrators |-> NoRequest]
        /\ unwalked' = unwalked \cup U /\ missed' = missed \cup H
        /\ UNCHANGED <<agents, links>>
    BY DEF restart, fails, tables
  <1>2. failures \in 0..MaxFailures /\ InRows /\ StorageRegistryTypeOK /\ Covered
    BY DEF RowsInv, StorageRegistryTypeOK
  <1>3. failures' \in 0..MaxFailures
    BY <1>1, <1>2, StorageRegistryAssumption
  <1>4. ASSUME NEW p \in Administrators
        PROVE  Unfinished(administering[p]) \subseteq AgentId
               /\ InHand(administering[p]) \subseteq AgentId
    <2>1. PICK c : c = administering[p]
      OBVIOUS
    <2>2. /\ c.at = "root" => c.root \in AgentId
          /\ c.at \in {"loop", "child"} =>
               c.to_process \in SUBSET AgentId /\ c.children \in SUBSET AgentId
          /\ c.at = "child" => c.child \in AgentId
      BY <2>1, StoredRequest
    <2>3. Unfinished(c) \subseteq AgentId /\ InHand(c) \subseteq AgentId
      BY <2>2 DEF Unfinished, InHand, Written
    <2> QED BY <2>1, <2>3
  <1>5. U \subseteq AgentId /\ H \subseteq AgentId
    BY <1>4
  <1>6. \A p \in Administrators : \A l :
           Reaches(administering[p], l) => l.from \in U \/ l.to \in H
    BY DEF Reaches, Unfinished
  <1> HIDE DEF U, H
  <1>7. LinkSet' = LinkSet
    BY <1>1 DEF LinkSet
  <1>8. \A a \in AgentId : (Active(a) <=> Active(a)') /\ (Exists(a) <=> Exists(a)')
    BY <1>1 DEF Active, Exists
  <1>9. StorageRegistryTypeOK'
    <2>1. \A p \in Administrators : administering'[p].at = "idle"
      BY <1>1, StoredIdle
    <2>2. \A l \in LinkSet : Exists(l.from)' /\ Exists(l.to)'
      BY <1>8, StoredLinkEnds
    <2> QED BY <1>1, <1>2, <1>3, <1>5, <1>7, <2>1, <2>2 DEF StorageRegistryTypeOK
  <1>10. InRows'
    <2>1. /\ administering' \in [Administrators -> Administerings]
          /\ delegating' \in [Delegators -> Delegatings]
      BY <1>1, StoredIdle
    <2> QED BY <1>1, <1>2, <2>1, StoredIdleRead DEF InRows
  <1>11. Covered'
    <2>1. ASSUME NEW l \in LinkSet, l.live, ~Active(l.from)', Active(l.to)'
          PROVE  l.from \in unwalked' \/ l.to \in missed'
      <3>1. ~Active(l.from) /\ Active(l.to)
        BY <1>8, <2>1, StoredLinkEnds
      <3> QED BY <1>1, <1>2, <1>6, <2>1, <3>1 DEF Covered
    <2> QED BY <1>7, <2>1 DEF Covered
  <1> QED BY <1>9, <1>10, <1>11 DEF RowsInv

LEMMA StoredStep ==
    ASSUME RowsInv, [StorageRegistryNext]_storageRegistryVars
    PROVE  RowsInv'
  <1>1. CASE UNCHANGED storageRegistryVars
    <2>1. UNCHANGED <<agents, links, delegating, administering, failures, unwalked, missed>>
      BY <1>1 DEF storageRegistryVars, tables, history
    <2>2. InRows /\ RowsKept
      BY <2>1, StoredSame DEF RowsInv
    <2>3. /\ links' \in Seq(LinkRows) /\ delegating' \in [Delegators -> Delegatings]
          /\ \A q \in Delegators : ReadForDelegation(delegating[q])'
      BY <2>1, <2>2, StoredReadsKept DEF InRows
    <2>4. \A a \in AgentId : Active(a) => Active(a)'
      BY <2>1 DEF Active, Exists
    <2>5. LinkSet' = LinkSet
      BY <2>1 DEF LinkSet
    <2> QED BY <2>1, <2>2, <2>3, <2>4, <2>5, StoredOtherStep
  <1>2. CASE \E a \in AgentId, o \in Owner, caps \in Capabilities, level \in TrustLevel :
                register_agent(a, o, caps, level)
    BY <1>2, StoredRegister
  <1>3. ASSUME NEW p \in Delegators,
               \/ \E from, to \in AgentId, scopes \in SUBSET Scope :
                     delegation_parent(p, from, to, scopes)
               \/ delegation_target(p) \/ delegation_walk(p) \/ delegation_insert(p)
        PROVE  RowsInv'
    BY <1>3, StoredParent, StoredTarget, StoredWalk, StoredInsert
  <1>4. ASSUME NEW p \in Administrators,
               (\E a \in AgentId, level \in TrustLevel : trust_read(p, a, level))
               \/ trust_write(p)
        PROVE  RowsInv'
    BY <1>4, StoredTrustRead, StoredTrustWrite
  <1>5. ASSUME NEW p \in Administrators,
               (\E id \in AgentId : cascade_read(p, id))
               \/ CascadeSteps(p) \/ administrator_gone(p)
        PROVE  RowsInv'
    BY <1>5, StoredCascadeRead, StoredCascadeRoot, StoredCascadePop, StoredCascadeAbort,
       StoredCascadeChild, StoredCascadeUpdate, StoredCascadeReturn, StoredGone
       DEF CascadeSteps
  <1>6. CASE call_fails \/ restart
    BY <1>6, StoredFails, StoredRestart
  <1> QED BY <1>1, <1>2, <1>3, <1>4, <1>5, <1>6 DEF StorageRegistryNext

LEMMA StoredInit ==
    ASSUME StorageRegistryInit
    PROVE  RowsInv
  <1>1. LinkSet = {} /\ links \in Seq(LinkRows)
    BY DEF StorageRegistryInit, LinkSet
  <1>2. /\ \A p \in Administrators : administering[p] = NoRequest
        /\ \A p \in Delegators : delegating[p] = NoRequest
        /\ administering \in [Administrators -> Administerings]
        /\ delegating \in [Delegators -> Delegatings]
    BY StoredIdle DEF StorageRegistryInit
  <1>3. ReadByAdministrator(NoRequest) /\ ReadForDelegation(NoRequest)
    BY StoredIdle DEF ReadByAdministrator, ReadForDelegation
  <1>4. StorageRegistryTypeOK
    BY <1>1, <1>2, StoredIdle, StorageRegistryAssumption DEF StorageRegistryTypeOK, StorageRegistryInit
  <1>5. InRows
    BY <1>1, <1>2, <1>3 DEF InRows
  <1>6. Covered
    BY <1>1 DEF Covered
  <1> QED BY <1>4, <1>5, <1>6 DEF RowsInv

(* storage_registry.rs: through every interleaving of statements, failures *)
(* and restarts the rows keep their types, links join registered agents of *)
(* one owner, and a delegate stranded so far is still in the hands of a    *)
(* cascade or was lost to a failure.                                       *)
THEOREM StoredInvariant ==
    StorageRegistrySpec => []RowsInv
  BY StoredInit, StoredStep, PTL DEF StorageRegistrySpec

(* storage_registry.rs, cascade_deactivate: with any number of cascades    *)
(* under way together, a delegate is left active below an agent that was   *)
(* deactivated only where a failed statement or a dropped request hit that *)
(* very agent or delegate.                                                 *)
THEOREM StoredCascadeSafety ==
    StorageRegistrySpec => []StrandedOnlyByFailure
  <1>1. RowsInv => StrandedOnlyByFailure
    <2> SUFFICES ASSUME RowsInv PROVE StrandedOnlyByFailure
      OBVIOUS
    <2>1. Quiet => \A p \in Administrators : \A l : ~Reaches(administering[p], l)
      BY DEF Quiet, Reaches
    <2> QED BY <2>1 DEF RowsInv, Covered, StrandedOnlyByFailure
  <1> QED BY <1>1, StoredInvariant, PTL

-----------------------------------------------------------------------------
(* Chains of the stored links.  A row inserted alone finds the chain above *)
(* it as its walk left it, and leaves no other walk that it could upset.   *)
StoredChainInv == MadeAlone => FirstLinksEnd /\ WalkedUp

LEMMA StoredFirstKept ==
    ASSUME RowsInv, NEW l \in LinkRows, links' = Append(links, l), NEW a
    PROVE  /\ IncomingOf(a) # {} =>
                 IncomingOf(a)' # {} /\ FirstLinkTo(a)' = FirstLinkTo(a)
           /\ IncomingOf(a) = {} /\ l.to # a => IncomingOf(a)' = {}
           /\ IncomingOf(a) = {} /\ l.to = a => FirstLinkTo(a)' = l
  <1> DEFINE n == Len(links)
  <1>1. /\ DOMAIN links = 1..n /\ n \in Nat /\ DOMAIN links' = 1..(n + 1)
        /\ \A i \in 1..n : links'[i] = links[i]
        /\ links'[n + 1] = l
    BY DEF RowsInv, InRows
  <1> HIDE DEF n
  <1>2. IncomingOf(a)' =
           IF l.to = a THEN IncomingOf(a) \cup {n + 1} ELSE IncomingOf(a)
    BY <1>1 DEF IncomingOf
  <1>3. ASSUME NEW m \in IncomingOf(a)', \A k \in IncomingOf(a)' : m <= k
        PROVE  FirstLinkTo(a)' = links'[m]
    <2>1. IncomingOf(a)' \in SUBSET Nat
      BY <1>1 DEF IncomingOf
    <2> DEFINE T == IncomingOf(a)'
    <2>2. (CHOOSE i \in T : \A j \in T : i <= j) = m
      <3>1. T \in SUBSET Nat /\ m \in T /\ \A k \in T : m <= k
        BY <1>3, <2>1
      <3> HIDE DEF T
      <3> QED BY <3>1, LeastChosen
    <2> QED BY <2>2 DEF FirstLinkTo
  <1>4. ASSUME IncomingOf(a) # {}
        PROVE  IncomingOf(a)' # {} /\ FirstLinkTo(a)' = FirstLinkTo(a)
    <2>1. PICK m \in IncomingOf(a) :
             (\A k \in IncomingOf(a) : m <= k) /\ FirstLinkTo(a) = links[m]
      BY <1>4, StoredFirstLink
    <2>2. m \in 1..n
      BY <1>1 DEF IncomingOf
    <2>3. m \in Nat /\ m <= n + 1
      BY <1>1, <2>2
    <2>4. IncomingOf(a)' \subseteq IncomingOf(a) \cup {n + 1} /\ m \in IncomingOf(a)'
      BY <1>2
    <2>5. \A k \in IncomingOf(a)' : m <= k
      BY <2>1, <2>3, <2>4
    <2> QED BY <1>1, <1>3, <2>1, <2>2, <2>4, <2>5
  <1>5. ASSUME IncomingOf(a) = {}, l.to = a PROVE FirstLinkTo(a)' = l
    <2>1. n + 1 \in IncomingOf(a)' /\ \A k \in IncomingOf(a)' : n + 1 <= k
      BY <1>1, <1>2, <1>5
    <2> QED BY <1>1, <1>3, <2>1
  <1> QED BY <1>2, <1>4, <1>5

LEMMA StoredPushed ==
    ASSUME RowsInv, FirstLinksEnd, NEW l \in LinkRows, links' = Append(links, l),
           NEW V \in SUBSET AgentId, l.from \in V, l.to \notin V, ClosedBut(V, {})
    PROVE  FirstLinksEnd'
  <1> SUFFICES ASSUME NEW S \in SUBSET AgentId, S # {},
                      \A a \in S : IncomingOf(a)' # {} /\ FirstLinkTo(a)'.from \in S
               PROVE  FALSE
    BY DEF FirstLinksEnd
  <1>1. \A v \in V : IncomingOf(v) # {} => FirstLinkTo(v).from \in V
    BY DEF ClosedBut
  <1>2. \A a \in S : a # l.to \/ IncomingOf(a) # {} =>
           IncomingOf(a) # {} /\ FirstLinkTo(a).from \in S
    BY StoredFirstKept
  <1>3. l.to \in S /\ l.from \in S
    <2>1. PICK a \in S : IncomingOf(a) = {} \/ FirstLinkTo(a).from \notin S
      BY DEF FirstLinksEnd
    <2>2. a = l.to /\ IncomingOf(a) = {}
      BY <1>2, <2>1
    <2>3. FirstLinkTo(a)' = l
      BY <2>2, StoredFirstKept
    <2> QED BY <2>2, <2>3
  <1>4. S \cap V \in SUBSET AgentId /\ S \cap V # {}
    BY <1>3
  <1>5. \A a \in S \cap V : IncomingOf(a) # {} /\ FirstLinkTo(a).from \in S \cap V
    BY <1>1, <1>2
  <1> QED BY <1>4, <1>5 DEF FirstLinksEnd

LEMMA StoredChainsKept ==
    ASSUME UNCHANGED links
    PROVE  /\ FirstLinksEnd => FirstLinksEnd'
           /\ \A V, last : ClosedBut(V, last) => ClosedBut(V, last)'
  <1>1. \A a : /\ IncomingOf(a)' = IncomingOf(a)
               /\ FirstLinkTo(a)' = FirstLinkTo(a)
    BY DEF IncomingOf, FirstLinkTo
  <1>2. FirstLinksEnd => FirstLinksEnd'
    BY <1>1 DEF FirstLinksEnd
  <1>3. \A V, last : ClosedBut(V, last) => ClosedBut(V, last)'
    BY <1>1 DEF ClosedBut
  <1> QED BY <1>2, <1>3

(* What WalkedUp says of one delegation.                                   *)
Walked(d) ==
    /\ d.at = "walk" => /\ d.from \in d.visited /\ d.current \in d.visited /\ d.to \notin d.visited
                        /\ ClosedBut(d.visited, {d.current})
    /\ d.at = "insert" => \E V \in SUBSET AgentId :
                            d.from \in V /\ d.to \notin V /\ ClosedBut(V, {})

LEMMA StoredWalkedKept ==
    ASSUME UNCHANGED links, NEW d, Walked(d)
    PROVE  Walked(d)'
  BY StoredChainsKept DEF Walked

LEMMA StoredAloneKept ==
    ASSUME UNCHANGED links
    PROVE  MadeAlone' = MadeAlone
  BY DEF MadeAlone, LinkSet

LEMMA StoredChainStep ==
    ASSUME RowsInv, StoredChainInv, [StorageRegistryNext]_storageRegistryVars
    PROVE  StoredChainInv'
  <1> SUFFICES ASSUME MadeAlone' PROVE FirstLinksEnd' /\ WalkedUp'
    BY DEF StoredChainInv
  <1> DEFINE Goal == FirstLinksEnd' /\ WalkedUp'
  <1> HIDE DEF Goal
  <1>0. InRows /\ (MadeAlone => FirstLinksEnd /\ \A p \in Delegators : Walked(delegating[p]))
    BY DEF StoredChainInv, WalkedUp, Walked, RowsInv
  <1>1. ASSUME FirstLinksEnd', \A p \in Delegators : Walked(delegating[p])' PROVE Goal
    BY <1>1 DEF WalkedUp, Walked, Goal
  <1>2. ASSUME UNCHANGED links
        PROVE  /\ FirstLinksEnd'
               /\ \A p \in Delegators : Walked(delegating[p])
               /\ \A p \in Delegators :
                     delegating'[p] = delegating[p] => Walked(delegating[p])'
    <2>1. MadeAlone
      BY <1>2, StoredAloneKept
    <2>2. ASSUME NEW p \in Delegators, delegating'[p] = delegating[p]
          PROVE  Walked(delegating[p])'
      <3>1. PICK d : d = delegating[p]
        OBVIOUS
      <3>2. Walked(d)'
        BY <1>0, <1>2, <2>1, <3>1, StoredWalkedKept
      <3> QED BY <2>2, <3>1, <3>2 DEF Walked
    <2> QED BY <1>0, <1>2, <2>1, <2>2, StoredChainsKept
  <1>3. ASSUME NEW request \in Delegators, UNCHANGED links,
               \A p \in Delegators \ {request} : delegating'[p] = delegating[p],
               Walked(delegating[request])'
        PROVE  Goal
    BY <1>1, <1>2, <1>3
  <1>13. ASSUME UNCHANGED links,
                \A p \in Delegators :
                   delegating'[p] = delegating[p] \/ delegating'[p].at \in {"idle", "target"}
         PROVE  Goal
    <2>1. \A p \in Delegators :
             delegating'[p].at \in {"idle", "target"} => Walked(delegating[p])'
      BY DEF Walked
    <2> QED BY <1>1, <1>2, <1>13, <2>1
  <1>4. CASE UNCHANGED storageRegistryVars
    BY <1>13, <1>4 DEF storageRegistryVars, tables, Goal
  <1>5. CASE \E a \in AgentId, o \in Owner, caps \in Capabilities, level \in TrustLevel :
                register_agent(a, o, caps, level)
    BY <1>13, <1>5 DEF register_agent, Goal
  <1>6. ASSUME NEW request \in Delegators, NEW from \in AgentId, NEW to \in AgentId, NEW scopes \in SUBSET Scope,
               delegation_parent(request, from, to, scopes)
        PROVE  Goal
    <2>1. /\ UNCHANGED links /\ delegating'[request].at = "target"
          /\ \A p \in Delegators \ {request} : delegating'[p] = delegating[p]
      BY <1>0, <1>6 DEF delegation_parent, tables, InRows
    <2> QED BY <1>13, <2>1
  <1>7. ASSUME NEW request \in Delegators, delegation_target(request) PROVE Goal
    <2>1. PICK d : d = delegating[request]
      OBVIOUS
    <2> DEFINE d2 == [at |-> "walk", from |-> d.from, to |-> d.to, current |-> d.from,
                      visited |-> {d.from}]
    <2>2. /\ UNCHANGED links /\ delegating'[request] \in {d2, NoRequest} /\ d.at = "target"
          /\ \A p \in Delegators \ {request} : delegating'[p] = delegating[p]
      BY <1>0, <1>7, <2>1 DEF delegation_target, tables, InRows
    <2>3. d.from # d.to
      BY <2>1, <2>2, StoredDelegation DEF ReadForDelegation
    <2>4. Walked(d2)'
      BY <2>3 DEF Walked, ClosedBut
    <2>5. CASE delegating'[request] = d2
      <3> HIDE DEF d2
      <3>1. Walked(delegating[request])'
        BY <2>4, <2>5 DEF Walked, d2
      <3> QED BY <1>3, <2>2, <3>1
    <2>6. CASE delegating'[request] = NoRequest
      BY <1>13, <2>2, <2>6, StoredIdle
    <2> QED BY <2>2, <2>5, <2>6
  <1>8. ASSUME NEW request \in Delegators, delegation_walk(request) PROVE Goal
    <2>1. PICK d, up : d = delegating[request] /\ up = FirstLinkTo(d.current).from
      OBVIOUS
    <2> DEFINE insert == [at |-> "insert", from |-> d.from, to |-> d.to]
               walk == [at |-> "walk", from |-> d.from, to |-> d.to, current |-> up,
                        visited |-> d.visited \cup {up}]
    <2>2. /\ d.at = "walk" /\ UNCHANGED links
          /\ \A p \in Delegators \ {request} : delegating'[p] = delegating[p]
          /\ \/ /\ delegating'[request] = insert
                /\ IncomingOf(d.current) = {} \/ up \in d.visited
             \/ delegating'[request] = NoRequest
             \/ /\ delegating'[request] = walk
                /\ up # d.to
      <3> HIDE DEF insert, walk
      <3>1. /\ d.at = "walk" /\ UNCHANGED links
            /\ \/ /\ delegating' = [delegating EXCEPT ![request] = insert]
                  /\ IncomingOf(d.current) = {} \/ up \in d.visited
               \/ delegating' = [delegating EXCEPT ![request] = NoRequest]
               \/ /\ delegating' = [delegating EXCEPT ![request] = walk]
                  /\ up # d.to
        BY <1>8, <2>1, StoredWalkTo DEF insert, walk
      <3> QED BY <1>0, <3>1 DEF InRows
    <2>3. /\ d.from \in d.visited /\ d.current \in d.visited /\ d.to \notin d.visited
          /\ \A v \in d.visited \ {d.current} :
                IncomingOf(v) # {} => FirstLinkTo(v).from \in d.visited
          /\ d.visited \in SUBSET AgentId
      BY <1>2, <2>1, <2>2, StoredDelegation DEF Walked, ClosedBut
    <2>4. CASE delegating'[request] = insert /\ (IncomingOf(d.current) = {} \/ up \in d.visited)
      <3>1. ClosedBut(d.visited, {})
        BY <2>1, <2>3, <2>4 DEF ClosedBut
      <3>2. ClosedBut(d.visited, {})'
        BY <2>2, <3>1, StoredChainsKept
      <3>3. Walked(delegating[request])'
        BY <2>3, <2>4, <3>2 DEF Walked
      <3> QED BY <1>3, <2>2, <3>3
    <2>5. CASE delegating'[request] = walk /\ up # d.to
      <3>1. ClosedBut(d.visited \cup {up}, {up})
        BY <2>1, <2>3 DEF ClosedBut
      <3>2. ClosedBut(d.visited \cup {up}, {up})'
        BY <2>2, <3>1, StoredChainsKept
      <3>3. Walked(delegating[request])'
        BY <2>3, <2>5, <3>2 DEF Walked
      <3> QED BY <1>3, <2>2, <3>3
    <2>6. CASE delegating'[request] = NoRequest
      BY <1>13, <2>2, <2>6, StoredIdle
    <2> QED BY <2>2, <2>4, <2>5, <2>6
  <1>9. ASSUME NEW request \in Delegators, delegation_insert(request) PROVE Goal
    <2>1. PICK l \in LinkRows :
              /\ l.from = delegating[request].from /\ l.to = delegating[request].to
              /\ l.alone => WalkingUp = {request}
              /\ links' = Append(links, l)
              /\ LinkSet' = LinkSet \cup {l}
              /\ delegating[request].at = "insert"
              /\ delegating' = [delegating EXCEPT ![request] = NoRequest]
      BY <1>9, StoredInsertRow
    <2>2. MadeAlone /\ WalkingUp = {request}
      BY <2>1 DEF MadeAlone
    <2>3. PICK V \in SUBSET AgentId : l.from \in V /\ l.to \notin V /\ ClosedBut(V, {})
      BY <1>0, <1>9, <2>1, <2>2 DEF Walked
    <2>4. FirstLinksEnd'
      BY <1>0, <2>1, <2>2, <2>3, StoredPushed
    <2>5. \A p \in Delegators : delegating'[p].at \notin {"walk", "insert"}
      BY <1>0, <2>1, <2>2, StoredIdle DEF InRows, WalkingUp
    <2>6. \A p \in Delegators : Walked(delegating[p])'
      BY <2>5 DEF Walked
    <2> QED BY <1>1, <2>4, <2>6
  <1>10. ASSUME NEW p \in Administrators,
                \/ (\E a \in AgentId, level \in TrustLevel : trust_read(p, a, level))
                \/ trust_write(p)
                \/ (\E id \in AgentId : cascade_read(p, id))
                \/ CascadeSteps(p) \/ administrator_gone(p)
         PROVE  Goal
    <2>1. UNCHANGED <<links, delegating>>
      BY <1>10 DEF trust_read, trust_write, cascade_read, CascadeSteps,
                   cascade_root, cascade_pop, cascade_abort, cascade_child,
                   cascade_child_unread, cascade_update, cascade_update_fails,
                   cascade_return, administrator_gone, tables
    <2> QED BY <1>13, <2>1
  <1>11. CASE call_fails
    <2>1. UNCHANGED links /\ \A p \in Delegators : delegating'[p] \in {delegating[p], NoRequest}
      BY <1>0, <1>11 DEF call_fails, tables, InRows
    <2> QED BY <1>13, <2>1, StoredIdle DEF Goal
  <1>12. CASE restart
    <2>1. UNCHANGED links /\ \A p \in Delegators : delegating'[p] = NoRequest
      BY <1>12 DEF restart, tables
    <2> QED BY <1>13, <2>1, StoredIdle DEF Goal
  <1> QED BY <1>4, <1>5, <1>6, <1>7, <1>8, <1>9, <1>10, <1>11, <1>12 DEF StorageRegistryNext, Goal

(* storage_registry.rs, create_delegation: the walk over one row after the *)
(* other keeps the first-link chains free of cycles, whatever cascades,    *)
(* failures, restarts and other delegations come between its statements,   *)
(* with any number of requests, as long as every row was inserted while no *)
(* other delegation was between its walk and its INSERT.                   *)
THEOREM StoredChainSafety == StorageRegistrySpec => []ChainsEnd
  <1>1. StorageRegistryInit => StoredChainInv
    <2> SUFFICES ASSUME StorageRegistryInit PROVE StoredChainInv
      OBVIOUS
    <2>1. \A a : IncomingOf(a) = {}
      BY DEF StorageRegistryInit, IncomingOf
    <2>2. \A p \in Delegators : delegating[p].at = "idle"
      BY StoredIdle DEF StorageRegistryInit
    <2> QED BY <2>1, <2>2 DEF StoredChainInv, FirstLinksEnd, WalkedUp
  <1>2. StoredChainInv => ChainsEnd
    BY DEF StoredChainInv, ChainsEnd
  <1> QED BY <1>1, <1>2, StoredChainStep, StoredInvariant, PTL DEF StorageRegistrySpec

-----------------------------------------------------------------------------
(* The admin limiter: what eviction leaves of a window.                    *)

LEMMA AdminConstants == max_requests \in Nat /\ window_duration \in Nat /\ NoToken \notin Int
  BY AdminAssumption

LEMMA AdminKept ==
    ASSUME NEW window \in Seq(Nat)
    PROVE  /\ FirstKept(window) \in 1..(Len(window) + 1)
           /\ \A j \in 1..(FirstKept(window) - 1) : Outside(window[j])
           /\ FirstKept(window) <= Len(window) => ~Outside(window[FirstKept(window)])
  <1> DEFINE Fits(i) == /\ \A j \in 1..(i - 1) : Outside(window[j])
                        /\ i <= Len(window) => ~Outside(window[i])
             Fresh == {i \in 1..Len(window) : ~Outside(window[i])}
  <1>0. Len(window) \in Nat
    OBVIOUS
  <1>1. \E i \in 1..(Len(window) + 1) : Fits(i)
    <2>1. CASE Fresh = {}
      <3>1. Fits(Len(window) + 1)
        BY <1>0, <2>1
      <3> QED BY <1>0, <3>1
    <2>2. CASE Fresh # {}
      <3>0. Fresh \in SUBSET Nat
        BY <1>0
      <3>1. PICK i \in Fresh : \A j \in Fresh : i <= j
        <4> HIDE DEF Fresh
        <4> QED BY <2>2, <3>0, Least
      <3>2. i \in 1..Len(window) /\ \A j \in 1..(i - 1) : j \in 1..Len(window) /\ j \notin Fresh
        BY <1>0, <3>1
      <3>3. Fits(i)
        BY <3>1, <3>2
      <3> QED BY <1>0, <3>2, <3>3
    <2> QED BY <2>1, <2>2
  <1>2. FirstKept(window) = CHOOSE i \in 1..(Len(window) + 1) : Fits(i)
    BY DEF FirstKept
  <1> HIDE DEF Fits
  <1>3. FirstKept(window) \in 1..(Len(window) + 1) /\ Fits(FirstKept(window))
    BY <1>1, <1>2
  <1> QED BY <1>3 DEF Fits

LEMMA AdminEvicted ==
    ASSUME NEW window \in Seq(Nat)
    PROVE  /\ Evicted(window) \in Seq(Nat)
           /\ Len(Evicted(window)) = Len(window) + 1 - FirstKept(window)
           /\ \A i \in 1..Len(Evicted(window)) :
                 Evicted(window)[i] = window[FirstKept(window) - 1 + i]
  <1>1. PICK f \in 1..(Len(window) + 1) : f = FirstKept(window)
    BY AdminKept
  <1>2. Len(window) \in Nat /\ f \in Nat /\ f >= 1
    BY <1>1
  <1>3. /\ SubSeq(window, f, Len(window)) \in Seq(Nat)
        /\ Len(SubSeq(window, f, Len(window))) = Len(window) + 1 - f
        /\ \A i \in 1..(Len(window) + 1 - f) :
              SubSeq(window, f, Len(window))[i] = window[f - 1 + i]
    BY <1>1, <1>2
  <1> QED BY <1>1, <1>3 DEF Evicted

(* After eviction the window is what was admitted, from the first that is  *)
(* not stale on.                                                           *)
EvictedFrom(k, m) ==
    /\ m \in 0..Len(admitted[k])
    /\ Evicted(clients[k]) \in Seq(Nat)
    /\ Len(Evicted(clients[k])) = Len(admitted[k]) - m
    /\ \A i \in 1..Len(Evicted(clients[k])) : Evicted(clients[k])[i] = admitted[k][m + i]
    /\ \A i \in 1..m : Outside(admitted[k][i])
    /\ m < Len(admitted[k]) => ~Outside(admitted[k][m + 1])

LEMMA AdminWindow ==
    ASSUME AdminTypeOK, NEW k \in ClientKey, RemembersTheWindow(k)
    PROVE  \E m \in Nat : EvictedFrom(k, m)
  <1>1. clients[k] \in Seq(Nat) /\ admitted[k] \in Seq(Nat)
    BY DEF AdminTypeOK
  <1>2. PICK c \in Seq(Nat) : c = clients[k]
    BY <1>1
  <1>3. PICK a \in Seq(Nat) : a = admitted[k]
    BY <1>1
  <1>4. PICK d \in 0..Len(a) :
            /\ Len(c) = Len(a) - d
            /\ \A i \in 1..Len(c) : c[i] = a[d + i]
            /\ \A i \in 1..d : Outside(a[i])
    BY <1>2, <1>3 DEF RemembersTheWindow
  <1>5. PICK f \in 1..(Len(c) + 1) :
            /\ f = FirstKept(c)
            /\ \A j \in 1..(f - 1) : Outside(c[j])
            /\ f <= Len(c) => ~Outside(c[f])
    BY AdminKept
  <1>6. PICK e \in Seq(Nat) :
            /\ e = Evicted(c) /\ Len(e) = Len(c) + 1 - f
            /\ \A i \in 1..Len(e) : e[i] = c[f - 1 + i]
    BY <1>5, AdminEvicted
  <1>7. /\ Len(a) \in Nat /\ Len(c) \in Nat /\ d \in Nat /\ f \in Nat
        /\ 1 <= f /\ f <= Len(c) + 1
    OBVIOUS
  <1>8. PICK m \in Nat : m = d + f - 1
    BY <1>7
  <1>9. m \in 0..Len(a) /\ Len(e) = Len(a) - m
    <2>1. Len(c) = Len(a) - d /\ Len(e) = Len(c) + 1 - f
      BY <1>4, <1>6
    <2> QED BY <1>7, <1>8, <2>1
  <1>10. ASSUME NEW i \in 1..Len(e) PROVE e[i] = a[m + i]
    <2>1. e[i] = c[f - 1 + i]
      BY <1>6, <1>10
    <2>2. f - 1 + i \in 1..Len(c) /\ d + (f - 1 + i) = m + i
      <3>1. Len(e) = Len(c) + 1 - f
        BY <1>6
      <3>2. i \in Nat /\ 1 <= i /\ i <= Len(e)
        OBVIOUS
      <3> QED BY <1>7, <1>8, <3>1, <3>2
    <2> QED BY <1>4, <2>1, <2>2
  <1>11. ASSUME NEW i \in 1..m PROVE Outside(a[i])
    <2>1. CASE i <= d
      BY <1>4, <1>7, <2>1
    <2>2. CASE i > d
      <3>1. PICK j \in 1..(f - 1) : j = i - d
        BY <1>7, <1>8, <2>2
      <3>2. j \in 1..Len(c) /\ d + j = i
        BY <1>5, <1>7, <3>1
      <3> QED BY <1>4, <1>5, <3>1, <3>2
    <2> QED BY <1>7, <1>8, <2>1, <2>2
  <1>12. m < Len(a) => ~Outside(a[m + 1])
    <2> SUFFICES ASSUME m < Len(a) PROVE ~Outside(a[m + 1])
      OBVIOUS
    <2>1. Len(c) = Len(a) - d
      BY <1>4
    <2>2. f \in 1..Len(c) /\ f <= Len(c) /\ d + f = m + 1
      BY <1>7, <1>8, <2>1
    <2>3. c[f] = a[m + 1]
      BY <1>4, <2>2
    <2> QED BY <1>5, <2>2, <2>3
  <1> QED BY <1>2, <1>3, <1>6, <1>9, <1>10, <1>11, <1>12 DEF EvictedFrom

LEMMA AdminNotOutside ==
    ASSUME AdminTypeOK, NEW k \in ClientKey, InOrder(k), NEW m \in Nat, EvictedFrom(k, m),
           NEW i \in (m + 1)..Len(admitted[k])
    PROVE  ~Outside(admitted[k][i])
  <1>1. PICK a \in Seq(Nat) : a = admitted[k]
    BY DEF AdminTypeOK
  <1>2. i \in DOMAIN a /\ m + 1 \in DOMAIN a /\ m < Len(a) /\ m + 1 <= i
    BY <1>1
  <1>3. a[m + 1] <= a[i] /\ a[m + 1] \in Nat /\ a[i] \in Nat
    BY <1>1, <1>2 DEF InOrder
  <1>4. clock - a[m + 1] <= window_duration
    BY <1>1, <1>2, <1>3, AdminConstants DEF EvictedFrom, Outside, AdminTypeOK
  <1>5. clock \in Nat /\ a[i] = admitted[k][i]
    BY <1>1 DEF AdminTypeOK
  <1>6. ~(clock - a[i] > window_duration)
    <2>1. PICK x \in Nat, y \in Nat : x = a[m + 1] /\ y = a[i]
      BY <1>3
    <2>2. clock \in Nat /\ window_duration \in Nat /\ x <= y /\ clock - x <= window_duration
      BY <1>3, <1>4, <1>5, <2>1, AdminConstants
    <2>3. ~(clock - y > window_duration)
      BY <2>2
    <2> QED BY <2>1, <2>3
  <1> QED BY <1>5, <1>6 DEF Outside

(* A step of the limiter.                                                  *)
LEMMA AdminLimited ==
    ASSUME AdminInv, NEW k \in ClientKey, check_rate_limit(k), UNCHANGED clock
    PROVE  /\ clients' \in [ClientKey -> Seq(Nat)]
           /\ admitted' \in [ClientKey -> Seq(Nat)]
           /\ refused' \subseteq ClientKey \X Nat
           /\ \A c \in ClientKey : (RemembersTheWindow(c) /\ InOrder(c) /\ Spaced(c))'
           /\ RefusedOnlyWhenFull'
  <1>1. PICK a \in Seq(Nat) : a = admitted[k]
    BY DEF AdminInv, AdminTypeOK
  <1>2. PICK m \in Nat : EvictedFrom(k, m)
    BY AdminWindow DEF AdminInv
  <1>3. PICK e \in Seq(Nat) : e = Evicted(clients[k])
    BY <1>2 DEF EvictedFrom
  <1>4. /\ m \in 0..Len(a) /\ Len(e) = Len(a) - m
        /\ \A i \in 1..Len(e) : e[i] = a[m + i]
        /\ \A i \in 1..m : Outside(a[i])
    BY <1>1, <1>2, <1>3 DEF EvictedFrom
  <1>5. /\ clock \in Nat /\ Len(a) \in Nat /\ Len(e) \in Nat /\ DOMAIN a = 1..Len(a)
        /\ \A i \in 1..Len(a) : a[i] \in Nat
    BY DEF AdminInv, AdminTypeOK
  <1>6. /\ clients \in [ClientKey -> Seq(Nat)] /\ admitted \in [ClientKey -> Seq(Nat)]
        /\ clock' = clock
    BY DEF AdminInv, AdminTypeOK
  <1>7. ASSUME NEW c \in ClientKey, c # k
        PROVE  (RemembersTheWindow(c) /\ InOrder(c) /\ Spaced(c))'
    <2>1. clients'[c] = clients[c] /\ admitted'[c] = admitted[c]
      BY <1>6, <1>7 DEF check_rate_limit
    <2>2. RemembersTheWindow(c) /\ InOrder(c) /\ Spaced(c)
      BY DEF AdminInv
    <2>3. RemembersTheWindow(c)'
      BY <1>6, <2>1, <2>2 DEF RemembersTheWindow, Outside
    <2>4. InOrder(c)' /\ Spaced(c)'
      BY <1>6, <2>1, <2>2 DEF InOrder, Spaced
    <2> QED BY <2>3, <2>4
  <1>8. /\ \A i \in 1..Len(a) : a[i] <= clock
        /\ \A i, j \in 1..Len(a) : i <= j => a[i] <= a[j]
        /\ \A i, j \in 1..Len(a) : j = i + max_requests => a[j] - a[i] > window_duration
    BY <1>1, <1>5 DEF AdminInv, InOrder, Spaced
  <1>9. CASE Admits(k)
    <2>0. clock \in Nat /\ Append(a, clock) \in Seq(Nat) /\ Append(e, clock) \in Seq(Nat)
      BY <1>5
    <2>1. PICK b \in Seq(Nat) : b = Append(a, clock)
      BY <2>0
    <2>2. PICK d \in Seq(Nat) : d = Append(e, clock)
      BY <2>0
    <2>3. /\ clients' = [clients EXCEPT ![k] = d] /\ admitted' = [admitted EXCEPT ![k] = b]
          /\ refused' = {} /\ Len(e) < max_requests
      BY <1>1, <1>3, <1>9, <2>1, <2>2 DEF check_rate_limit, Admits
    <2>4. clients'[k] = d /\ admitted'[k] = b
      BY <1>6, <2>3
    <2>5. /\ Len(b) = Len(a) + 1 /\ DOMAIN b = 1..(Len(a) + 1) /\ b[Len(a) + 1] = clock
          /\ \A i \in 1..Len(a) : b[i] = a[i]
      BY <1>5, <2>1
    <2>6. /\ Len(d) = Len(e) + 1 /\ d[Len(e) + 1] = clock
          /\ \A i \in 1..Len(e) : d[i] = e[i]
      BY <1>5, <2>2
    <2>7. RemembersTheWindow(k)'
      <3>0. m \in Nat /\ m <= Len(a) /\ Len(e) = Len(a) - m
        BY <1>4
      <3>1. m \in 0..Len(b) /\ Len(d) = Len(b) - m
        BY <1>5, <2>5, <2>6, <3>0
      <3>2. \A i \in 1..Len(d) : d[i] = b[m + i]
        <4> SUFFICES ASSUME NEW i \in 1..Len(d) PROVE d[i] = b[m + i]
          OBVIOUS
        <4>1. CASE i \in 1..Len(e)
          <5>1. d[i] = a[m + i]
            BY <1>4, <2>6, <4>1
          <5>2. m + i \in 1..Len(a)
            BY <1>5, <3>0, <4>1
          <5> QED BY <2>5, <5>1, <5>2
        <4>2. CASE i = Len(e) + 1
          <5>1. m + i = Len(a) + 1
            BY <1>5, <3>0, <4>2
          <5> QED BY <2>5, <2>6, <4>2, <5>1
        <4> QED BY <1>5, <2>6, <4>1, <4>2
      <3>3. \A i \in 1..m : Outside(b[i])
        <4> SUFFICES ASSUME NEW i \in 1..m PROVE Outside(b[i])
          OBVIOUS
        <4>1. i \in 1..Len(a)
          BY <1>5, <3>0
        <4> QED BY <1>4, <2>5, <4>1
      <3> QED BY <1>6, <2>4, <3>1, <3>2, <3>3 DEF RemembersTheWindow, Outside
    <2>8. InOrder(k)'
      <3>1. ASSUME NEW i \in 1..Len(b) PROVE b[i] <= clock
        <4>1. CASE i \in 1..Len(a)
          BY <1>8, <2>5, <4>1
        <4>2. CASE i = Len(a) + 1
          BY <2>0, <2>5, <4>2
        <4> QED BY <1>5, <2>5, <4>1, <4>2
      <3>2. ASSUME NEW i \in 1..Len(b), NEW j \in 1..Len(b), i <= j PROVE b[i] <= b[j]
        <4>1. CASE j \in 1..Len(a)
          <5>1. i \in 1..Len(a)
            BY <1>5, <2>5, <3>2, <4>1
          <5> QED BY <1>8, <2>5, <3>2, <4>1, <5>1
        <4>2. CASE j = Len(a) + 1
          BY <2>5, <3>1, <4>2
        <4> QED BY <1>5, <2>5, <4>1, <4>2
      <3> QED BY <1>6, <2>4, <2>5, <3>1, <3>2 DEF InOrder
    <2>9. Spaced(k)'
      <3> SUFFICES ASSUME NEW i \in 1..Len(b), NEW j \in 1..Len(b), j = i + max_requests
                   PROVE  b[j] - b[i] > window_duration
        BY <2>4, <2>5 DEF Spaced
      <3>1. CASE j \in 1..Len(a)
        <4>1. i \in 1..Len(a)
          BY <1>5, <2>5, <3>1, AdminConstants
        <4> QED BY <1>8, <2>5, <3>1, <4>1
      <3>2. CASE j = Len(a) + 1
        <4>1. i \in 1..m
          BY <1>4, <1>5, <2>3, <2>5, <3>2, AdminConstants
        <4>2. i \in 1..Len(a) /\ b[i] = a[i] /\ Outside(a[i])
          <5>1. i \in 1..Len(a)
            BY <1>4, <1>5, <4>1
          <5> QED BY <1>4, <2>5, <4>1, <5>1
        <4> QED BY <2>5, <3>2, <4>2 DEF Outside
      <3> QED BY <1>5, <2>5, <3>1, <3>2
    <2>10. RefusedOnlyWhenFull'
      BY <2>3 DEF RefusedOnlyWhenFull
    <2> QED BY <1>6, <1>7, <2>3, <2>7, <2>8, <2>9, <2>10
  <1>10. CASE ~Admits(k)
    <2>1. /\ clients' = [clients EXCEPT ![k] = e] /\ admitted' = admitted
          /\ refused' = {<<k, clock>>} /\ Len(e) >= max_requests
      BY <1>1, <1>3, <1>5, <1>6, <1>10, AdminConstants DEF check_rate_limit, Admits
    <2>2. clients'[k] = e /\ admitted'[k] = a
      BY <1>1, <1>6, <2>1
    <2>3. RemembersTheWindow(k)'
      BY <1>4, <1>6, <2>2 DEF RemembersTheWindow, Outside
    <2>4. InOrder(k)' /\ Spaced(k)'
      BY <1>1, <1>6, <2>2 DEF AdminInv, InOrder, Spaced
    <2>5. RefusedOnlyWhenFull'
      <3>1. PICK S \in SUBSET Nat : S = {i \in 1..Len(a) : a[i] \in (clock - window_duration)..clock}
        <4>1. {i \in 1..Len(a) : a[i] \in (clock - window_duration)..clock} \subseteq Nat
          OBVIOUS
        <4> QED BY <4>1
      <3>2. (m + 1)..Len(a) \subseteq S
        <4> SUFFICES ASSUME NEW i \in (m + 1)..Len(a)
                     PROVE  i \in 1..Len(a) /\ a[i] \in (clock - window_duration)..clock
          BY <3>1
        <4>1. i \in 1..Len(a) /\ i \in (m + 1)..Len(admitted[k])
          BY <1>1, <1>5
        <4>2. ~Outside(a[i])
          BY <1>1, <1>2, <4>1, AdminNotOutside DEF AdminInv
        <4>3. a[i] \in Nat /\ a[i] <= clock
          BY <1>5, <1>8, <4>1
        <4> QED BY <1>5, <4>1, <4>2, <4>3, AdminConstants DEF Outside
      <3>3. S \subseteq 1..Len(a) /\ IsFiniteSet(1..Len(a))
        BY <1>5, <3>1, FS_Interval
      <3>4. IsFiniteSet(S)
        BY <3>3, FS_Subset
      <3>5. Cardinality((m + 1)..Len(a)) <= Cardinality(S) /\ IsFiniteSet((m + 1)..Len(a))
        BY <3>2, <3>4, FS_Subset
      <3>6. Cardinality((m + 1)..Len(a)) = Len(a) - m
        <4>1. Cardinality((m + 1)..Len(a)) = IF m + 1 > Len(a) THEN 0 ELSE Len(a) - (m + 1) + 1
          <5>1. m + 1 \in Int /\ Len(a) \in Int
            BY <1>5
          <5> QED BY <5>1, FS_Interval
        <4> QED BY <1>4, <1>5, <4>1
      <3>7. Cardinality(S) >= max_requests
        BY <1>4, <1>5, <2>1, <3>4, <3>5, <3>6, FS_CardinalityType, AdminConstants
      <3>8. AdmittedDuring(k, clock - window_duration, clock)' = S
        BY <1>5, <1>6, <2>2, <3>1 DEF AdmittedDuring
      <3>9. \A r \in refused' : r[1] = k /\ r[2] = clock
        BY <2>1
      <3> QED BY <1>6, <3>7, <3>8, <3>9 DEF RefusedOnlyWhenFull
    <2> QED BY <1>5, <1>6, <1>7, <2>1, <2>3, <2>4, <2>5
  <1> QED BY <1>9, <1>10

(* No step but the limiter's touches a window or an answer; time only adds *)
(* to what is stale.                                                       *)
LEMMA AdminPasses ==
    ASSUME AdminInv, UNCHANGED <<clients, admitted, refused>>, clock' \in Nat, clock <= clock'
    PROVE  /\ \A k \in ClientKey : (RemembersTheWindow(k) /\ InOrder(k) /\ Spaced(k))'
           /\ RefusedOnlyWhenFull'
  <1>0. clock \in Nat
    BY DEF AdminInv, AdminTypeOK
  <1>1. ASSUME NEW t \in Nat PROVE /\ Outside(t) => Outside(t)'
                                   /\ t <= clock => t <= clock'
    <2>1. PICK now \in Nat, later \in Nat : now = clock /\ later = clock' /\ now <= later
      BY <1>0
    <2>2. now - t > window_duration => later - t > window_duration
      <3>1. window_duration \in Nat /\ now <= later
        BY <2>1, AdminConstants
      <3> QED BY <3>1
    <2> QED BY <2>1, <2>2 DEF Outside
  <1>2. ASSUME NEW k \in ClientKey PROVE (RemembersTheWindow(k) /\ InOrder(k) /\ Spaced(k))'
    <2>1. RemembersTheWindow(k) /\ InOrder(k) /\ Spaced(k)
      BY DEF AdminInv
    <2>2. PICK a \in Seq(Nat) : a = admitted[k] /\ admitted'[k] = a
      BY DEF AdminInv, AdminTypeOK
    <2>3. PICK c \in Seq(Nat) : c = clients[k] /\ clients'[k] = c
      BY DEF AdminInv, AdminTypeOK
    <2>4. \A i \in 1..Len(a) : a[i] \in Nat
      OBVIOUS
    <2>5. PICK m \in 0..Len(a) :
              /\ Len(c) = Len(a) - m
              /\ \A i \in 1..Len(c) : c[i] = a[m + i]
              /\ \A i \in 1..m : Outside(a[i])
      BY <2>1, <2>2, <2>3 DEF RemembersTheWindow
    <2>6. ASSUME NEW i \in 1..m PROVE Outside(a[i])'
      <3>1. i \in 1..Len(a)
        OBVIOUS
      <3>2. PICK t \in Nat : t = a[i]
        BY <2>4, <3>1
      <3> QED BY <1>1, <2>5, <3>2
    <2>7. RemembersTheWindow(k)'
      BY <2>2, <2>3, <2>5, <2>6 DEF RemembersTheWindow
    <2>8. InOrder(k)'
      <3>1. DOMAIN a = 1..Len(a)
        OBVIOUS
      <3>2. \A i \in DOMAIN a : a[i] <= clock'
        BY <1>1, <2>1, <2>2, <2>4, <3>1 DEF InOrder
      <3> QED BY <2>1, <2>2, <3>2 DEF InOrder
    <2>9. Spaced(k)'
      BY <2>1, <2>2 DEF Spaced
    <2> QED BY <2>7, <2>8, <2>9
  <1>3. RefusedOnlyWhenFull'
    <2>1. \A k, from, to : AdmittedDuring(k, from, to)' = AdmittedDuring(k, from, to)
      BY DEF AdmittedDuring
    <2>2. RefusedOnlyWhenFull /\ refused' = refused
      BY DEF AdminInv
    <2> QED BY <2>1, <2>2 DEF RefusedOnlyWhenFull
  <1> QED BY <1>2, <1>3

LEMMA AdminInitially == AdminInit => AdminInv
  <1> SUFFICES ASSUME AdminInit PROVE AdminInv
    OBVIOUS
  <1>1. AdminTypeOK
    BY DEF AdminInit, AdminTypeOK
  <1>2. ASSUME NEW k \in ClientKey PROVE RemembersTheWindow(k) /\ InOrder(k) /\ Spaced(k)
    <2>1. clients[k] = <<>> /\ admitted[k] = <<>> /\ Len(<<>>) = 0 /\ DOMAIN <<>> = {}
      BY DEF AdminInit
    <2>2. RemembersTheWindow(k)
      BY <2>1 DEF RemembersTheWindow
    <2> QED BY <2>1, <2>2 DEF InOrder, Spaced
  <1>3. RefusedOnlyWhenFull /\ OnBlocklist
    BY DEF AdminInit, RefusedOnlyWhenFull, OnBlocklist
  <1> QED BY <1>1, <1>2, <1>3 DEF AdminInv

LEMMA AdminStep == AdminInv /\ [AdminNext]_adminVars => AdminInv'
  <1> SUFFICES ASSUME AdminInv, [AdminNext]_adminVars PROVE AdminInv'
    OBVIOUS
  <1>0. /\ AdminTypeOK /\ OnBlocklist
        /\ clock \in Nat /\ exp \in [Jti -> Int \cup {NoToken}]
        /\ revoked \in [Jti -> Int \cup {NoToken}] /\ withdrawn \subseteq Jti
    BY DEF AdminInv, AdminTypeOK
  <1>1. CASE AdminTick
    <2>1. clock' = clock + 1 /\ UNCHANGED <<clients, exp, revoked, admitted, refused, withdrawn>>
      BY <1>1 DEF AdminTick
    <2>2. AdminTypeOK' /\ clock <= clock' /\ clock' \in Nat
      BY <1>0, <2>1 DEF AdminTypeOK
    <2>3. OnBlocklist'
      <3> SUFFICES ASSUME NEW j \in withdrawn
                   PROVE  /\ exp[j] # NoToken
                          /\ revoked[j] = exp[j] \/ (exp[j] <= clock' /\ revoked[j] = NoToken)
        BY <2>1 DEF OnBlocklist
      <3>1. exp[j] # NoToken /\ (revoked[j] = exp[j] \/ (exp[j] <= clock /\ revoked[j] = NoToken))
        BY <1>0 DEF OnBlocklist
      <3>2. exp[j] \in Int
        BY <1>0, <3>1
      <3> QED BY <1>0, <2>2, <3>1, <3>2
    <2> QED BY <2>1, <2>2, <2>3, AdminPasses DEF AdminInv
  <1>2. ASSUME NEW k \in ClientKey, admin_request(k) PROVE AdminInv'
    <2>1. check_rate_limit(k) /\ UNCHANGED <<clock, exp, revoked, withdrawn>>
      BY <1>2 DEF admin_request
    <2>2. AdminTypeOK' /\ OnBlocklist'
      BY <1>0, <2>1, AdminLimited DEF AdminTypeOK, OnBlocklist
    <2> QED BY <2>1, <2>2, AdminLimited DEF AdminInv
  <1>3. ASSUME NEW k \in ClientKey, NEW j \in Jti, NEW secs \in Expiries,
               issue_agent_token(k, j, secs)
        PROVE  AdminInv'
    <2>1. /\ check_rate_limit(k) /\ UNCHANGED <<clock, revoked, withdrawn>>
          /\ exp[j] = NoToken
          /\ exp' = [exp EXCEPT ![j] = clock + effective_expiry(secs)]
      BY <1>3 DEF issue_agent_token
    <2>2. effective_expiry(secs) \in Int
      BY AdminAssumption DEF effective_expiry
    <2>3. exp' \in [Jti -> Int \cup {NoToken}]
      BY <1>0, <2>1, <2>2
    <2>4. j \notin withdrawn
      BY <1>0, <2>1 DEF OnBlocklist
    <2>5. OnBlocklist'
      BY <1>0, <2>1, <2>4 DEF OnBlocklist
    <2>6. AdminTypeOK'
      BY <1>0, <2>1, <2>3, AdminLimited DEF AdminTypeOK
    <2> QED BY <2>1, <2>5, <2>6, AdminLimited DEF AdminInv
  <1>4. ASSUME NEW j \in Jti, revoke(j) PROVE AdminInv'
    <2>1. /\ UNCHANGED <<clock, clients, exp, admitted, refused>>
          /\ exp[j] # NoToken /\ revoked' = [revoked EXCEPT ![j] = exp[j]]
          /\ withdrawn' = withdrawn \cup {j}
      BY <1>4 DEF revoke
    <2>2. AdminTypeOK' /\ clock <= clock' /\ clock' \in Nat
      BY <1>0, <2>1 DEF AdminTypeOK
    <2>3. OnBlocklist'
      BY <1>0, <2>1 DEF OnBlocklist
    <2> QED BY <2>1, <2>2, <2>3, AdminPasses DEF AdminInv
  <1>5. CASE cleanup
    <2>1. /\ UNCHANGED <<clock, clients, exp, admitted, refused, withdrawn>>
          /\ revoked' = [j \in Jti |-> IF revoked[j] # NoToken /\ revoked[j] > clock
                                       THEN revoked[j] ELSE NoToken]
      BY <1>5 DEF cleanup
    <2>2. AdminTypeOK' /\ clock <= clock' /\ clock' \in Nat
      BY <1>0, <2>1 DEF AdminTypeOK
    <2>3. OnBlocklist'
      <3> SUFFICES ASSUME NEW j \in withdrawn
                   PROVE  /\ exp[j] # NoToken
                          /\ revoked'[j] = exp[j] \/ (exp[j] <= clock /\ revoked'[j] = NoToken)
        BY <2>1 DEF OnBlocklist
      <3>1. exp[j] # NoToken /\ (revoked[j] = exp[j] \/ (exp[j] <= clock /\ revoked[j] = NoToken))
        BY <1>0 DEF OnBlocklist
      <3>2. exp[j] \in Int
        BY <1>0, <3>1
      <3>3. revoked'[j] = IF revoked[j] # NoToken /\ revoked[j] > clock THEN revoked[j] ELSE NoToken
        BY <1>0, <2>1
      <3> QED BY <1>0, <3>1, <3>2, <3>3
    <2> QED BY <2>1, <2>2, <2>3, AdminPasses DEF AdminInv
  <1>6. CASE UNCHANGED adminVars
    <2>1. AdminTypeOK' /\ OnBlocklist' /\ clock <= clock' /\ clock' \in Nat
      BY <1>0, <1>6 DEF adminVars, AdminTypeOK, OnBlocklist
    <2> QED BY <1>6, <2>1, AdminPasses DEF adminVars, AdminInv
  <1> QED BY <1>1, <1>2, <1>3, <1>4, <1>5, <1>6 DEF AdminNext

(* state.rs and token.rs: what the limiter has of a client is the window   *)
(* of what it admitted, requests max_requests apart are more than a window *)
(* apart, and a revoked token is on the blocklist or expired.              *)
THEOREM AdminInvariant == AdminSpec => []AdminInv
  BY AdminInitially, AdminStep, PTL DEF AdminSpec

(* state.rs, check_rate_limit: for every limit and window, no stretch of   *)
(* time as long as the window has more than max_requests admitted, however *)
(* a client spaces its requests.                                           *)
THEOREM AdminBurstSafety == AdminSpec => []AdminBurstBounded
  <1>1. AdminInv => AdminBurstBounded
    <2> SUFFICES ASSUME AdminInv, NEW k \in ClientKey, NEW from \in 0..MaxClock
                 PROVE  Cardinality(AdmittedDuring(k, from, from + window_duration)) <= max_requests
      BY DEF AdminBurstBounded
    <2>0. max_requests \in Nat /\ window_duration \in Nat /\ MaxClock \in Nat /\ from \in Nat
      BY AdminAssumption
    <2>1. PICK a \in Seq(Nat) : a = admitted[k]
      BY DEF AdminInv, AdminTypeOK
    <2>2. /\ Len(a) \in Nat /\ DOMAIN a = 1..Len(a)
          /\ \A i \in 1..Len(a) : a[i] \in Nat
      OBVIOUS
    <2>3. /\ \A i, j \in 1..Len(a) : i <= j => a[i] <= a[j]
          /\ \A i, j \in 1..Len(a) : j = i + max_requests => a[j] - a[i] > window_duration
      BY <2>1, <2>2 DEF AdminInv, InOrder, Spaced
    <2>4. PICK S \in SUBSET (1..Len(a)) :
              /\ S = AdmittedDuring(k, from, from + window_duration)
              /\ \A i \in S : a[i] \in from..(from + window_duration)
      <3>1. AdmittedDuring(k, from, from + window_duration)
              = {i \in 1..Len(a) : a[i] \in from..(from + window_duration)}
        BY <2>1, <2>2 DEF AdmittedDuring
      <3> QED BY <3>1
    <2>5. CASE S = {}
      <3>1. Cardinality(S) = 0
        BY <2>5, FS_EmptySet
      <3> QED BY <2>0, <2>4, <3>1
    <2>6. CASE S # {}
      <3>1. S \in SUBSET Nat
        <4>1. 1..Len(a) \subseteq Nat
          BY <2>2
        <4> QED BY <4>1
      <3>2. PICK i \in S : \A j \in S : i <= j
        BY <2>6, <3>1, Least
      <3>3. i \in 1..Len(a) /\ i \in Nat /\ a[i] \in Nat /\ a[i] >= from
        BY <2>0, <2>2, <2>4, <3>2
      <3>4. ASSUME NEW j \in S PROVE j \in i..(i + max_requests - 1)
        <4>1. j \in 1..Len(a) /\ j \in Nat /\ i <= j /\ a[j] \in Nat /\ a[j] <= from + window_duration
          BY <2>0, <2>2, <2>4, <3>2
        <4>2. ASSUME j >= i + max_requests PROVE FALSE
          <5>1. PICK l \in 1..Len(a) : l = i + max_requests
            BY <2>0, <2>2, <3>3, <4>1, <4>2
          <5>2. a[l] \in Nat /\ a[l] - a[i] > window_duration /\ a[l] <= a[j]
            BY <2>2, <2>3, <3>3, <4>1, <4>2, <5>1
          <5>3. PICK x \in Nat, y \in Nat, z \in Nat : x = a[i] /\ y = a[l] /\ z = a[j]
            BY <3>3, <4>1, <5>2
          <5>4. y - x > window_duration /\ y <= z /\ x >= from /\ z <= from + window_duration
            BY <3>3, <4>1, <5>2, <5>3
          <5> QED BY <2>0, <5>4
        <4>3. ~(j >= i + max_requests)
          BY <4>2
        <4>4. i \in Nat /\ j \in Nat /\ i <= j /\ max_requests \in Nat
          BY <2>0, <3>3, <4>1
        <4> QED BY <4>3, <4>4
      <3>5. i \in Int /\ i + max_requests - 1 \in Int
        BY <2>0, <3>3
      <3>6. PICK last \in Int : last = i + max_requests - 1
        BY <3>5
      <3>7. IsFiniteSet(i..last) /\ Cardinality(i..last) = max_requests
        <4>1. IsFiniteSet(i..last) /\ Cardinality(i..last) = IF i > last THEN 0 ELSE last - i + 1
          BY <3>5, FS_Interval
        <4> QED BY <2>0, <3>3, <3>6, <4>1
      <3>8. S \subseteq i..last
        BY <3>4, <3>6
      <3>9. Cardinality(S) <= Cardinality(i..last)
        BY <3>7, <3>8, FS_Subset
      <3> QED BY <2>4, <3>7, <3>9
    <2> QED BY <2>5, <2>6
  <1> QED BY <1>1, AdminInvariant, PTL

(* state.rs, AdminRateLimiter: a client is refused only when the window is *)
(* full of its own admitted requests.                                      *)
THEOREM AdminRefusalSafety == AdminSpec => []RefusedOnlyWhenFull
  <1>1. AdminInv => RefusedOnlyWhenFull
    BY DEF AdminInv
  <1> QED BY <1>1, AdminInvariant, PTL

(* token.rs, JtiBlocklist: a revoked token stays on the blocklist for as   *)
(* long as it is valid, whenever cleanups run.                             *)
THEOREM RevocationSafety == AdminSpec => []RevokedWhileValid
  <1>1. AdminInv => RevokedWhileValid
    <2> SUFFICES ASSUME AdminInv, NEW j \in withdrawn, exp[j] > clock PROVE revoked[j] # NoToken
      BY DEF RevokedWhileValid
    <2>1. exp[j] # NoToken /\ (revoked[j] = exp[j] \/ (exp[j] <= clock /\ revoked[j] = NoToken))
      BY DEF AdminInv, OnBlocklist
    <2>2. exp[j] \in Int /\ clock \in Nat
      BY <2>1 DEF AdminInv, AdminTypeOK
    <2> QED BY <2>1, <2>2
  <1> QED BY <1>1, AdminInvariant, PTL
=============================================================================
