--------------------------- MODULE OAuthValidator ---------------------------
(***************************************************************************)
(* Bearer-token validation against cached key sets, crates/arbiter-oauth:  *)
(* validator.rs, jwks.rs and middleware.rs.                                *)
(*                                                                         *)
(* A key set is fetched in one step and put into the cache in another, so  *)
(* the refreshes of several requests and of the periodic refresh_jwks      *)
(* cross each other and the rotations at the identity providers.           *)
(*                                                                         *)
(* Abstracted: a key is its issuer and its kid, a signature the issuer     *)
(* whose key verifies it; decode (a library) is the conjunction of its     *)
(* checks.  Time is only whether the TTL of a cache and the cooldown have  *)
(* passed.  refresh_jwks has no caller in this repository; a host program  *)
(* calls it from a loop.                                                   *)
(***************************************************************************)
EXTENDS Integers, Sequences, FiniteSets

CONSTANTS
    Issuer,         \* the issuers, ...
    IssuerSeq,      \* ... in the order of the configuration
    Audiences,      \* Audiences[i]: the audiences configured for issuer i
    Kid,            \* key ids
    Tokens,         \* the tokens clients present
    Requests,       \* tasks that validate tokens
    First,          \* First[i]: the kids issuer i publishes at first, ...
    Published,      \* Published[i]: ... and the sets it may publish later
    MaxRotations    \* MaxRotations[i], bound: key sets issuer i publishes after its first

(* asymmetric: header.alg is on the list; sound: not too large, and its    *)
(* header decodes; aud: the audiences it names, {} without an aud claim.   *)
TokenType ==
    [sound: BOOLEAN, asymmetric: BOOLEAN, kid: Kid, signer: Issuer, iss: Issuer,
     aud: SUBSET STRING, expired: BOOLEAN]

ASSUME OAuthAssumption ==
    /\ IsFiniteSet(Issuer) /\ Issuer = {IssuerSeq[k] : k \in DOMAIN IssuerSeq}
    /\ IssuerSeq \in Seq(Issuer) /\ IssuerSeq # <<>>     \* config.rs: "One or more"
    /\ IsFiniteSet(Requests)
    /\ Tokens \subseteq TokenType
    /\ First \in [Issuer -> SUBSET Kid] /\ Published \in [Issuer -> SUBSET SUBSET Kid]
    /\ MaxRotations \in [Issuer -> Nat]

VARIABLES
    idp,            \* idp[i]: the key sets issuer i has published so far
    cache,          \* cache[i]: the keys, and (history) which of idp[i] they are
    last_refresh,   \* last_refresh[i]: "never", "fresh", or "old": past the TTL
    cooling,        \* last_refresh_on_miss is less than the cooldown ago
    req,            \* req[p]: how far request p has come
    refresher,      \* how far refresh_jwks has come
    rounds          \* history: refreshes on a miss since the cooldown last passed

vars == <<idp, cache, last_refresh, cooling, req, refresher, rounds>>
caches == <<cache, last_refresh>>

Idle == [at |-> "idle"]

Init ==
    /\ idp = [i \in Issuer |-> <<First[i]>>]
    /\ cache = [i \in Issuer |-> [keys |-> {}, gen |-> 0]]
    /\ last_refresh = [i \in Issuer |-> "never"]
    /\ cooling = FALSE
    /\ req = [p \in Requests |-> Idle]
    /\ refresher = [k |-> 1, gen |-> 0]
    /\ rounds = 0

----------------------------------------------------------------------------
(* The environment. *)

(* An issuer publishes other keys; an empty set stands for keys that       *)
(* DecodingKey::from_jwk cannot use.                                       *)
rotate(i, keys) ==
    /\ Len(idp[i]) <= MaxRotations[i]
    /\ keys # idp[i][Len(idp[i])]
    /\ idp' = [idp EXCEPT ![i] = Append(@, keys)]
    /\ UNCHANGED <<caches, cooling, req, refresher, rounds>>

ttl_passes(i) ==
    /\ last_refresh[i] = "fresh"
    /\ last_refresh' = [last_refresh EXCEPT ![i] = "old"]
    /\ UNCHANGED <<idp, cache, cooling, req, refresher, rounds>>

cooldown_passes ==
    /\ cooling
    /\ cooling' = FALSE
    /\ rounds' = 0
    /\ UNCHANGED <<idp, caches, req, refresher>>

----------------------------------------------------------------------------
(* The cache. *)

(* Faulty variant: a cache that has been filled is never out of date. *)
needs_refresh_once(i) == last_refresh[i] = "never"

needs_refresh(i) == last_refresh[i] # "fresh"

(* refresh_from_uri, the write: an answer without usable keys does not     *)
(* replace the keys there are.                                             *)
Stored(i, gen) ==
    IF idp[i][gen] = {} /\ cache[i].keys # {} THEN cache[i] ELSE [keys |-> idp[i][gen], gen |-> gen]

store(i, gen) ==
    /\ cache' = [cache EXCEPT ![i] = Stored(i, gen)]
    /\ last_refresh' = [last_refresh EXCEPT ![i] = "fresh"]

(* refresh_jwks, called again and again: issuer k is next, or gen of its   *)
(* key sets has been fetched.  An issuer that needs no refresh is skipped. *)
refresh_jwks_skips ==
    /\ refresher.gen = 0 /\ ~needs_refresh(IssuerSeq[refresher.k])
    /\ refresher' = [refresher EXCEPT !.k = (@ % Len(IssuerSeq)) + 1]
    /\ UNCHANGED <<idp, caches, cooling, req, rounds>>

refresh_jwks_fetches ==
    LET i == IssuerSeq[refresher.k] IN
    /\ refresher.gen = 0 /\ needs_refresh(i)
    /\ refresher' = [refresher EXCEPT !.gen = Len(idp[i])]
    /\ UNCHANGED <<idp, caches, cooling, req, rounds>>

(* An error ends the call; the next one starts with the first issuer. *)
refresh_jwks_fails ==
    /\ refresher.gen = 0 /\ needs_refresh(IssuerSeq[refresher.k])
    /\ refresher' = [k |-> 1, gen |-> 0]
    /\ UNCHANGED <<idp, caches, cooling, req, rounds>>

refresh_jwks_stores ==
    /\ refresher.gen > 0
    /\ store(IssuerSeq[refresher.k], refresher.gen)
    /\ refresher' = [k |-> (refresher.k % Len(IssuerSeq)) + 1, gen |-> 0]
    /\ UNCHANGED <<idp, cooling, req, rounds>>

----------------------------------------------------------------------------
(* Validation. *)

(* Faulty variant: the iss claim is not compared. *)
DecodesAnyIssuer(i, t) ==
    /\ t.signer = i
    /\ t.aud # {} /\ Audiences[i] # {} => t.aud \cap Audiences[i] # {}
    /\ ~t.expired

(* decode with the key and the Validation of issuer i, which requires exp  *)
(* and iss: an aud claim that is not there is not compared.                *)
Decodes(i, t) ==
    /\ t.signer = i
    /\ t.iss = i
    /\ t.aud # {} /\ Audiences[i] # {} => t.aud \cap Audiences[i] # {}
    /\ ~t.expired

(* validate_token: the issuers whose cache has the kid, any of which may   *)
(* accept the token; only when none has it is the key missing.  (The       *)
(* caches are read under a lock each; what one issuer's holds does not     *)
(* bear on the judgement of another's.)                                    *)
validate_token(t) ==
    LET having == {i \in Issuer : t.kid \in cache[i].keys} IN
    IF ~t.sound \/ ~t.asymmetric THEN "rejected"
    ELSE IF \E i \in having : Decodes(i, t) THEN "accepted"
    ELSE IF having # {} THEN "rejected"
    ELSE "no_key"

Goto(p, state) == req' = [req EXCEPT ![p] = state]
Done(t, result, helps) == [at |-> "done", token |-> t, result |-> result, helps |-> helps]
Free(p) == req[p].at \in {"idle", "done"}

(* OAuthMiddleware::process validates with the keys there are. *)
process(p, t) ==
    /\ Free(p)
    /\ Goto(p, Done(t, validate_token(t), FALSE))
    /\ UNCHANGED <<idp, caches, cooling, refresher, rounds>>

(* validate_token_with_refresh: if the key is missing, the cooldown is     *)
(* looked at, ...                                                          *)
validate_first(p, t) ==
    /\ Free(p)
    /\ Goto(p, IF validate_token(t) # "no_key" \/ cooling
               THEN Done(t, validate_token(t), FALSE)
               ELSE [at |-> "stamp", token |-> t])
    /\ UNCHANGED <<idp, caches, cooling, refresher, rounds>>

(* Somebody has fetched keys of issuer i that are now out of date, and     *)
(* will store them.                                                        *)
StaleInFlight(i) ==
    \/ IssuerSeq[refresher.k] = i /\ refresher.gen \in 1..(Len(idp[i]) - 1)
    \/ \E q \in Requests :
          req[q].at = "store" /\ IssuerSeq[req[q].k] = i /\ req[q].gen < Len(idp[i])

(* The loop over the issuers; gen: the key set it is about to store, own:  *)
(* (history) which of its own issuer's it has fetched with no stale ones   *)
(* in flight.                                                              *)
Refreshing(t) == [at |-> "fetch", token |-> t, k |-> 1, own |-> 0, gen |-> 0]
Fetched(r, i) ==
    [r EXCEPT !.gen = Len(idp[i]),
              !.own = IF i = r.token.iss /\ ~StaleInFlight(i) THEN Len(idp[i]) ELSE @]

(* Faulty variant: no timestamp is left. *)
stamp_nothing(p) ==
    /\ req[p].at = "stamp"
    /\ rounds' = rounds + 1
    /\ Goto(p, Refreshing(req[p].token))
    /\ UNCHANGED <<idp, caches, cooling, refresher>>

(* ... then started, under another lock, ... *)
stamp(p) ==
    /\ req[p].at = "stamp"
    /\ cooling' = TRUE
    /\ rounds' = rounds + 1
    /\ Goto(p, Refreshing(req[p].token))
    /\ UNCHANGED <<idp, caches, refresher>>

(* Faulty variant: a cache within its TTL is not fetched. *)
fetch_if_due(p) ==
    LET r == req[p]  i == IssuerSeq[r.k] IN
    /\ r.at = "fetch" /\ r.k <= Len(IssuerSeq)
    /\ Goto(p, IF needs_refresh(i)
               THEN [Fetched(r, i) EXCEPT !.at = "store"]
               ELSE [Fetched(r, i) EXCEPT !.k = @ + 1, !.gen = 0])
    /\ UNCHANGED <<idp, caches, cooling, refresher, rounds>>

(* ... every issuer's keys fetched, due or not, ... *)
fetch(p) ==
    LET r == req[p]  i == IssuerSeq[r.k] IN
    /\ r.at = "fetch" /\ r.k <= Len(IssuerSeq)
    /\ Goto(p, [Fetched(r, i) EXCEPT !.at = "store"])
    /\ UNCHANGED <<idp, caches, cooling, refresher, rounds>>

(* ... a fetch that fails passed over, ... *)
fetch_fails(p) ==
    /\ req[p].at = "fetch" /\ req[p].k <= Len(IssuerSeq)
    /\ Goto(p, [req[p] EXCEPT !.k = @ + 1])
    /\ UNCHANGED <<idp, caches, cooling, refresher, rounds>>

fetch_stores(p) ==
    LET r == req[p] IN
    /\ r.at = "store"
    /\ store(IssuerSeq[r.k], r.gen)
    /\ Goto(p, [r EXCEPT !.at = "fetch", !.k = @ + 1, !.gen = 0])
    /\ UNCHANGED <<idp, cooling, refresher, rounds>>

(* The key of the token was there when this request fetched its issuer's   *)
(* keys, with no stale ones in flight, and has been since.                 *)
KeyArrived(r) ==
    LET t == r.token IN
    /\ r.own > 0
    /\ \A g \in r.own..Len(idp[t.iss]) : t.kid \in idp[t.iss][g]

(* ... and the token validated once more. *)
validate_again(p) ==
    LET r == req[p] IN
    /\ r.at = "fetch" /\ r.k > Len(IssuerSeq)
    /\ Goto(p, Done(r.token, validate_token(r.token), KeyArrived(r)))
    /\ UNCHANGED <<idp, caches, cooling, refresher, rounds>>

(* The caller is gone: the request is dropped at an await. *)
client_gone(p) ==
    /\ req[p].at \in {"fetch", "store"}
    /\ Goto(p, Idle)
    /\ UNCHANGED <<idp, caches, cooling, refresher, rounds>>

----------------------------------------------------------------------------
RefresherNext ==
    refresh_jwks_skips \/ refresh_jwks_fetches \/ refresh_jwks_fails \/ refresh_jwks_stores

Next ==
    \/ \E i \in Issuer : ttl_passes(i) \/ \E keys \in Published[i] : rotate(i, keys)
    \/ cooldown_passes
    \/ RefresherNext
    \/ \E p \in Requests :
          \/ \E t \in Tokens : process(p, t) \/ validate_first(p, t)
          \/ stamp(p) \/ fetch(p) \/ fetch_fails(p) \/ fetch_stores(p)
          \/ validate_again(p) \/ client_gone(p)

Spec == Init /\ [][Next]_vars

(* Time passes, the host goes on calling refresh_jwks, and a fetch that is *)
(* tried again and again succeeds in the end.                              *)
Fairness ==
    /\ \A i \in Issuer : WF_vars(ttl_passes(i))
    /\ WF_vars(refresh_jwks_skips) /\ WF_vars(refresh_jwks_stores)
    /\ \A k \in DOMAIN IssuerSeq : SF_vars(refresh_jwks_fetches /\ refresher.k = k)

FairSpec == Spec /\ Fairness

----------------------------------------------------------------------------
(* Every variable has its type.                                            *)
Progress ==
    {Idle} \cup [at: {"stamp"}, token: Tokens]
    \cup [at: {"fetch", "store"}, token: Tokens, k: 1..(Len(IssuerSeq) + 1), own: Nat, gen: Nat]
    \cup [at: {"done"}, token: Tokens, result: {"accepted", "rejected", "no_key"}, helps: BOOLEAN]

TypeOK ==
    /\ idp \in [Issuer -> Seq(SUBSET Kid)] /\ \A i \in Issuer : Len(idp[i]) > 0
    /\ cache \in [Issuer -> [keys: SUBSET Kid, gen: Nat]]
    /\ last_refresh \in [Issuer -> {"never", "fresh", "old"}]
    /\ cooling \in BOOLEAN
    /\ req \in [Requests -> Progress]
    /\ refresher \in [k: DOMAIN IssuerSeq, gen: Nat]
    /\ rounds \in Nat

(* validator.rs, validate_token: whatever keys the caches hold, a token is *)
(* accepted only if it was signed with a key of the issuer it names, one   *)
(* that issuer did publish, and not for other audiences than those         *)
(* configured for that issuer.  Issuers may use the same kid.  A token     *)
(* without an aud claim is for no audience, and passes.                    *)
AcceptedIsGenuine ==
    \A p \in Requests :
        req[p].at = "done" /\ req[p].result = "accepted" =>
            LET t == req[p].token IN
            /\ t.asymmetric /\ ~t.expired /\ t.signer = t.iss
            /\ \E g \in DOMAIN idp[t.iss] : t.kid \in idp[t.iss][g]
            /\ t.aud # {} /\ Audiences[t.iss] # {} => t.aud \cap Audiences[t.iss] # {}

(* validator.rs, "handles key rotation at the IdP without waiting for the  *)
(* full cache TTL": a token whose key was there when this request fetched  *)
(* its issuer's keys, and has been since, is not refused for a missing     *)
(* key, whatever other refreshes do; only one that had fetched older keys  *)
(* before and stores them late can spoil it.                               *)
MissRefreshHelps ==
    \A p \in Requests : req[p].at = "done" /\ req[p].helps => req[p].result # "no_key"

(* validator.rs, "rate-limited": the cooldown is read under one lock and   *)
(* started under another, so more than one refresh may start; never more   *)
(* than there are requests at work, even while every fetch fails.          *)
MissRefreshesBounded == rounds <= Cardinality(Requests)

(* refresh_jwks: once an issuer stops rotating, its cache ends up with the *)
(* keys it publishes, although stale fetches may still be stored late.     *)
RotationsArrive ==
    <>[](\A i \in Issuer : LET now == idp[i][Len(idp[i])] IN now # {} => cache[i].keys = now)

(* Why they hold.  A cache holds exactly one of the key sets its issuer    *)
(* published, never a mixture left by refreshes that crossed, and so does  *)
(* whoever is about to store one.                                          *)
CacheIsPublished ==
    \A i \in Issuer :
        /\ cache[i].gen <= Len(idp[i])
        /\ cache[i].keys = IF cache[i].gen = 0 THEN {} ELSE idp[i][cache[i].gen]

FetchedWasPublished ==
    /\ refresher.gen <= Len(idp[IssuerSeq[refresher.k]])
    /\ \A p \in Requests : req[p].at = "store" =>
          req[p].k <= Len(IssuerSeq) /\ req[p].gen \in 1..Len(idp[IssuerSeq[req[p].k]])

(* Nobody is about to store keys of issuer i older than gen. *)
NoneOlder(i, gen) ==
    /\ IssuerSeq[refresher.k] = i /\ refresher.gen > 0 => refresher.gen >= gen
    /\ \A q \in Requests : req[q].at = "store" /\ IssuerSeq[req[q].k] = i => req[q].gen >= gen

(* A request that fetched its issuer's keys with no stale ones in flight   *)
(* has them in the cache, or newer ones, once it has stored them.          *)
RefreshArrives(p) ==
    LET r == req[p]  i == r.token.iss IN
    r.at \in {"fetch", "store"} /\ r.own > 0 =>
        /\ r.own <= Len(idp[i])
        /\ NoneOlder(i, r.own)
        /\ \/ r.at = "store" /\ IssuerSeq[r.k] = i
           \/ KeyArrived(r) => cache[i].gen >= r.own

(* Those that found no cooldown running and have not started it. *)
Stamping == {p \in Requests : req[p].at = "stamp"}
RoundsCounted ==
    /\ ~cooling => rounds = 0
    /\ rounds + Cardinality(Stamping) <= Cardinality(Requests)

OAuthInv ==
    /\ TypeOK /\ CacheIsPublished /\ FetchedWasPublished
    /\ \A p \in Requests : RefreshArrives(p)
    /\ RoundsCounted
    /\ AcceptedIsGenuine /\ MissRefreshHelps
=============================================================================
