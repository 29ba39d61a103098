---------------------------- MODULE AdminAccess -----------------------------
(***************************************************************************)
(* The front of the admin API: the sliding-window limiter and the key      *)
(* check every handler starts with, the tokens issue_agent_token hands     *)
(* out, and the blocklist of revoked ones (crates/arbiter-lifecycle:       *)
(* state.rs, token.rs and the checks of api.rs).                           *)
(*                                                                         *)
(* Each call holds one lock from start to end, so each is one action; the  *)
(* limiter reads the time just before it takes the lock, which is taken as *)
(* the same moment.                                                        *)
(* Nothing in this repository calls the blocklist; a host program does.    *)
(*                                                                         *)
(* Abstracted: claims other than exp, signing, and what the other handlers *)
(* do once admitted.                                                       *)
(***************************************************************************)
EXTENDS Integers, Sequences, FiniteSets

CONSTANTS
    ClientKey,              \* the x-api-key values presented, hashed; ...
    AdminKey,               \* ... the configured one
    max_requests,           \* per client and window; 60 in the server
    window_duration,        \* 60 seconds in the server
    Jti,                    \* token ids
    Expiries,               \* the expiry_seconds asked for
    MAX_TOKEN_EXPIRY_SECS,  \* 86400 in the code
    NoToken,                \* not issued, or not on the blocklist
    MaxClock                \* bound: the clock

ASSUME AdminAssumption ==
    /\ AdminKey \in ClientKey
    /\ max_requests \in Nat /\ window_duration \in Nat
    /\ Expiries \subseteq Int
    /\ MAX_TOKEN_EXPIRY_SECS \in Nat
    /\ NoToken \notin Int
    /\ MaxClock \in Nat

VARIABLES
    clock,
    clients,    \* clients[k]: when requests of k were admitted, oldest first
    exp,        \* exp[j]: when token j expires, or NoToken
    revoked,    \* revoked[j]: the expiry the blocklist has for j, or NoToken
    admitted,   \* history: admitted[k]: when each was admitted, nothing evicted
    refused,    \* history: the latest answer, if a refusal: to whom and when
    withdrawn   \* history: the tokens that were ever revoked

adminVars == <<clock, clients, exp, revoked, admitted, refused, withdrawn>>

AdminInit ==
    /\ clock = 0
    /\ clients = [k \in ClientKey |-> <<>>]
    /\ exp = [j \in Jti |-> NoToken]
    /\ revoked = [j \in Jti |-> NoToken]
    /\ admitted = [k \in ClientKey |-> <<>>]
    /\ refused = {}
    /\ withdrawn = {}

----------------------------------------------------------------------------
AdminTick ==
    /\ clock < MaxClock
    /\ clock' = clock + 1
    /\ UNCHANGED <<clients, exp, revoked, admitted, refused, withdrawn>>

(* Faulty variant: a timestamp is dropped when exactly a window old. *)
OutsideAtEdge(t) == clock - t >= window_duration

(* Faulty variant: ... or only a second later. *)
OutsideLate(t) == clock - t > window_duration + 1

(* More than a window ago. *)
Outside(t) == clock - t > window_duration

(* The timestamps outside the sliding window are popped from the front, up *)
(* to the first that is inside.                                            *)
FirstKept(window) ==
    CHOOSE i \in 1..(Len(window) + 1) :
        /\ \A j \in 1..(i - 1) : Outside(window[j])
        /\ i <= Len(window) => ~Outside(window[i])
Evicted(window) == SubSeq(window, FirstKept(window), Len(window))

Admits(k) == Len(Evicted(clients[k])) < max_requests

(* check_rate_limit.  The code reads the time before it takes the lock;    *)
(* here both are one step, so a request held up at the lock in between,    *)
(* whose entry would stand behind a later one's, is left out.              *)
check_rate_limit(k) ==
    /\ clients' = [clients EXCEPT ![k] = IF Admits(k) THEN Append(Evicted(@), clock) ELSE Evicted(@)]
    /\ admitted' = [admitted EXCEPT ![k] = IF Admits(k) THEN Append(@, clock) ELSE @]
    /\ refused' = IF Admits(k) THEN {} ELSE {<<k, clock>>}

(* Any handler, up to its own work: the limiter first, so that a request   *)
(* counts whether or not validate_admin_key then accepts its key.          *)
admin_request(k) ==
    /\ check_rate_limit(k)
    /\ UNCHANGED <<clock, exp, revoked, withdrawn>>

(* issue_token: the expiry asked for, up to a day. *)
effective_expiry(secs) == IF secs < MAX_TOKEN_EXPIRY_SECS THEN secs ELSE MAX_TOKEN_EXPIRY_SECS

(* issue_agent_token, when the key is right, the agent there and active,   *)
(* and the expiry positive.                                                *)
issue_agent_token(k, j, secs) ==
    /\ check_rate_limit(k) /\ Admits(k)
    /\ k = AdminKey
    /\ secs > 0
    /\ exp[j] = NoToken
    /\ exp' = [exp EXCEPT ![j] = clock + effective_expiry(secs)]
    /\ UNCHANGED <<clock, revoked, withdrawn>>

revoke(j) ==
    /\ exp[j] # NoToken
    /\ revoked' = [revoked EXCEPT ![j] = exp[j]]
    /\ withdrawn' = withdrawn \cup {j}
    /\ UNCHANGED <<clock, clients, exp, admitted, refused>>

(* Faulty variant: entries about to expire go too. *)
cleanup_early ==
    /\ revoked' = [j \in Jti |-> IF revoked[j] # NoToken /\ revoked[j] > clock + 1
                                 THEN revoked[j] ELSE NoToken]
    /\ UNCHANGED <<clock, clients, exp, admitted, refused, withdrawn>>

(* JtiBlocklist::cleanup. *)
cleanup ==
    /\ revoked' = [j \in Jti |-> IF revoked[j] # NoToken /\ revoked[j] > clock
                                 THEN revoked[j] ELSE NoToken]
    /\ UNCHANGED <<clock, clients, exp, admitted, refused, withdrawn>>

AdminNext ==
    \/ AdminTick
    \/ \E k \in ClientKey :
          \/ admin_request(k)
          \/ \E j \in Jti, secs \in Expiries : issue_agent_token(k, j, secs)
    \/ \E j \in Jti : revoke(j)
    \/ cleanup

AdminSpec == AdminInit /\ [][AdminNext]_adminVars

----------------------------------------------------------------------------
AdmittedDuring(k, from, to) == {i \in DOMAIN admitted[k] : admitted[k][i] \in from..to}

(* state.rs, check_rate_limit: the window really slides.  However a        *)
(* client spaces its requests, no stretch as long as the window, both ends *)
(* included, has more than max_requests of them admitted.                  *)
AdminBurstBounded ==
    \A k \in ClientKey : \A from \in 0..MaxClock :
        Cardinality(AdmittedDuring(k, from, from + window_duration)) <= max_requests

(* state.rs, "preventing a single attacker from exhausting the rate limit  *)
(* budget for all legitimate operators": a client is refused only when the *)
(* window that ends then is full of its own requests; neither another      *)
(* client nor its own refused requests ever cost it one.                   *)
RefusedOnlyWhenFull ==
    \A r \in refused :
        Cardinality(AdmittedDuring(r[1], r[2] - window_duration, r[2])) >= max_requests

(* token.rs, JtiBlocklist: a revoked token is on the blocklist for as long *)
(* as it is valid, whenever cleanups run, and one revoked twice or after   *)
(* its expiry is no exception.                                             *)
RevokedWhileValid == \A j \in withdrawn : exp[j] > clock => revoked[j] # NoToken

----------------------------------------------------------------------------
(* Why they hold. *)
AdminTypeOK ==
    /\ clock \in Nat
    /\ clients \in [ClientKey -> Seq(Nat)]
    /\ exp \in [Jti -> Int \cup {NoToken}]
    /\ revoked \in [Jti -> Int \cup {NoToken}]
    /\ admitted \in [ClientKey -> Seq(Nat)]
    /\ refused \subseteq ClientKey \X Nat
    /\ withdrawn \subseteq Jti

(* What the limiter has of a client is what it admitted, without some at   *)
(* the front that are outside the window.                                  *)
RemembersTheWindow(k) ==
    \E m \in 0..Len(admitted[k]) :
        /\ Len(clients[k]) = Len(admitted[k]) - m
        /\ \A i \in 1..Len(clients[k]) : clients[k][i] = admitted[k][m + i]
        /\ \A i \in 1..m : Outside(admitted[k][i])

(* Requests were admitted in the order of time, and max_requests further   *)
(* on more than a window later.                                            *)
InOrder(k) ==
    /\ \A i \in DOMAIN admitted[k] : admitted[k][i] <= clock
    /\ \A i, j \in DOMAIN admitted[k] : i <= j => admitted[k][i] <= admitted[k][j]
Spaced(k) ==
    \A i, j \in DOMAIN admitted[k] :
        j = i + max_requests => admitted[k][j] - admitted[k][i] > window_duration

(* A revoked token is on the blocklist, or expired. *)
OnBlocklist ==
    \A j \in withdrawn :
        exp[j] # NoToken /\ (revoked[j] = exp[j] \/ (exp[j] <= clock /\ revoked[j] = NoToken))

AdminInv ==
    /\ AdminTypeOK
    /\ \A k \in ClientKey : RemembersTheWindow(k) /\ InOrder(k) /\ Spaced(k)
    /\ RefusedOnlyWhenFull
    /\ OnBlocklist
=============================================================================
