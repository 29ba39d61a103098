--------------------- MODULE StorageBackedSessionStore ---------------------
(***************************************************************************)
(* The write-through session store of                                      *)
(* crates/arbiter-session/src/storage_store.rs over the sessions table of  *)
(* crates/arbiter-storage/src/sqlite.rs, with storage failures, dropped    *)
(* request futures and process restarts.                                   *)
(*                                                                         *)
(* Most operations hold the cache's write lock across their storage call,  *)
(* so each is one action whose persist argument says how the storage call  *)
(* went.  Two operations write to storage without the lock and take        *)
(* several actions: create (row first, cache later) and                    *)
(* close_sessions_for_agent (cache first, rows later, one by one).  A      *)
(* dropped request frees the lock while its statement is still with a      *)
(* worker thread of the connection pool; it lands in an action of its own, *)
(* after whatever later requests have written.                             *)
(***************************************************************************)
EXTENDS TaskSession

CONSTANTS
    NoRow,          \* "no such row" in the sessions table
    MaxTimeLimit,   \* MAX_SESSION_TIME_LIMIT_SECS
    Connections,    \* max_connections of the pool: statements it has at once
    MaxRefunded     \* bound: calls that strays may take off one row

(* A row of the sessions table.  It has no column for credentials.         *)
StoredSessions ==
    [agent_id: Agent, authorized_tools: SUBSET Tool,
     time_limit: Nat, call_budget: Nat, calls_made: Nat,
     rate_limit: Nat \cup {NoLimit}, rate_limit_window: Nat,
     rate_window_start: Nat, rate_window_calls: Nat,
     created_at: Nat, status: SessionStatus]

ASSUME StorageAssumption ==
    /\ NoRow \notin StoredSessions
    /\ MaxTimeLimit \in Nat
    /\ Connections \in Nat

(* The lifecycle API, the one caller of create, refuses a request over     *)
(* 86400 seconds, which is MAX_SESSION_TIME_LIMIT_SECS (api.rs:707).       *)
ASSUME LimitAssumption == \A req \in Requests : req.time_limit <= MaxTimeLimit

(* A statement left behind by a dropped request: the row it writes, and    *)
(* for an INSERT the request it was made for.                              *)
Statements ==
    [id: SessionId, row: StoredSessions, req: CreateSessionRequest \cup {NoRequest}]

VARIABLES
    now,            \* Utc::now(), in seconds
    cache,          \* the in-memory map behind the RwLock
    storage,        \* the sessions table
    creating,       \* create: record built and insert awaited, not yet cached
    persisting,     \* close_sessions_for_agent: closed rows still to be written
    stray,          \* statements of dropped requests, still with the pool
    created,        \* history: the request that issued s, or NoRequest
    granted,        \* history: calls answered Ok on s, over all restarts
    closed,         \* history: sessions whose closing has been answered
    faults,         \* history: has a storage call failed or been dropped?
    overtaken,      \* history: sessions whose row a stray set back
    refunded,       \* history: calls that strays took off the row of s
    spent           \* history: calls granted on s before its row was set back

lateVars == <<overtaken, refunded>>
vars == <<now, cache, storage, creating, persisting, stray, created, granted, closed,
          faults, overtaken, refunded, spent>>

(* A storage call is answered, fails, or is left with the pool by a        *)
(* request whose future is dropped (client gone).                          *)
Outcome == {"ok", "failed", "dropped"}

domain_to_stored(s) ==
    [agent_id |-> s.agent_id, authorized_tools |-> s.authorized_tools,
     time_limit |-> s.time_limit, call_budget |-> s.call_budget,
     calls_made |-> s.calls_made, rate_limit |-> s.rate_limit,
     rate_limit_window |-> s.rate_limit_window,
     rate_window_start |-> s.rate_window_start,
     rate_window_calls |-> s.rate_window_calls,
     created_at |-> s.created_at, status |-> s.status]

(* Reload: the time limit is clamped again; credentials come back empty.   *)
stored_to_domain(r) ==
    [agent_id |-> r.agent_id, authorized_tools |-> r.authorized_tools,
     authorized_credentials |-> {},
     time_limit |-> IF r.time_limit > MaxTimeLimit THEN MaxTimeLimit ELSE r.time_limit,
     call_budget |-> r.call_budget,
     calls_made |-> r.calls_made, rate_limit |-> r.rate_limit,
     rate_limit_window |-> r.rate_limit_window,
     rate_window_start |-> r.rate_window_start,
     rate_window_calls |-> r.rate_window_calls,
     created_at |-> r.created_at, status |-> r.status]

(* The call's statement stays behind if its request is dropped; it         *)
(* occupies a connection.                                                  *)
Leave(st, persist) ==
    /\ persist = "dropped" => Cardinality(stray) < Connections
    /\ stray' = IF persist = "dropped" THEN stray \cup {st} ELSE stray

UpdateOf(s, row) == [id |-> s, row |-> row, req |-> NoRequest]

(* UPDATE ... WHERE session_id = s: writes nothing when there is no row,   *)
(* which update_session reports as an error.                               *)
update_session(s, row, persist) ==
    /\ storage' = IF storage[s] # NoRow /\ persist = "ok"
                  THEN [storage EXCEPT ![s] = row]
                  ELSE storage
    /\ Leave(UpdateOf(s, row), persist)

(* Faulty variant: a failed update is logged and the call let through.     *)
UpdatedOrLogged(s, persist) == storage[s] # NoRow /\ persist # "dropped"

(* update_session answered Ok to a caller who is still there. *)
Updated(s, persist) == storage[s] # NoRow /\ persist = "ok"

Note(persist) == faults' = (faults \/ persist # "ok")

Init ==
    /\ now = 0
    /\ cache = [s \in SessionId |-> NoSession]
    /\ storage = [s \in SessionId |-> NoRow]
    /\ creating = [s \in SessionId |-> NoSession]
    /\ persisting = [s \in SessionId |-> NoRow]
    /\ created = [s \in SessionId |-> NoRequest]
    /\ granted = [s \in SessionId |-> 0]
    /\ closed = {}
    /\ faults = FALSE
    /\ stray = {}
    /\ overtaken = {}
    /\ refunded = [s \in SessionId |-> 0]
    /\ spent = [s \in SessionId |-> 0]

----------------------------------------------------------------------------
Tick ==
    /\ now < MaxNow
    /\ now' = now + 1
    /\ UNCHANGED <<cache, storage, creating, persisting, stray, created, granted, closed,
                   faults, spent, lateVars>>

(* insert_session of a new record; a failure is only logged.  The INSERT   *)
(* of a dropped request issues the session when it lands.                  *)
insert_session(s, req, persist) ==
    LET row == domain_to_stored(NewSession(req, req.time_limit, now)) IN
    /\ created[s] = NoRequest
    /\ \A st \in stray : st.id # s
    /\ created' = IF persist = "dropped" THEN created ELSE [created EXCEPT ![s] = req]
    /\ storage' = IF persist = "ok" THEN [storage EXCEPT ![s] = row] ELSE storage
    /\ Leave([id |-> s, row |-> row, req |-> req], persist)
    /\ Note(persist)

(* create, first half: the row is written without the lock.  A dropped     *)
(* request never reaches the cache.                                        *)
create_insert(s, req, persist) ==
    /\ insert_session(s, req, persist)
    /\ creating' = IF persist = "dropped" THEN creating
                   ELSE [creating EXCEPT ![s] = NewSession(req, req.time_limit, now)]
    /\ UNCHANGED <<now, cache, persisting, granted, closed, spent, lateVars>>

(* create, second half: the record enters the cache. *)
create_cache(s) ==
    /\ creating[s] # NoSession
    /\ cache' = [cache EXCEPT ![s] = creating[s]]
    /\ creating' = [creating EXCEPT ![s] = NoSession]
    /\ UNCHANGED <<now, storage, persisting, stray, created, granted, closed, faults,
                   spent, lateVars>>

ActiveOf(a) ==
    {s \in SessionId : /\ cache[s] # NoSession
                       /\ cache[s].agent_id = a
                       /\ cache[s].status = "Active"}

(* create_if_under_cap: count, insert and cache under one lock. *)
create_if_under_cap(s, req, persist) ==
    /\ Cardinality(ActiveOf(req.agent_id)) < MaxSessions
    /\ insert_session(s, req, persist)
    /\ cache' = IF persist = "dropped" THEN cache
                ELSE [cache EXCEPT ![s] = NewSession(req, req.time_limit, now)]
    /\ UNCHANGED <<now, creating, persisting, granted, closed, spent, lateVars>>

(* n calls pass every check: the cached counters move first, and stay      *)
(* moved when the write-through fails; the caller is told Ok only when the *)
(* row was updated.                                                        *)
Charge(s, n, persist) ==
    LET new == Charged(cache[s], n, now) IN
    /\ cache' = [cache EXCEPT ![s] = new]
    /\ update_session(s, domain_to_stored(new), persist)
    /\ granted' = IF Updated(s, persist) THEN [granted EXCEPT ![s] = @ + n] ELSE granted
    /\ spent' = IF s \in overtaken THEN spent ELSE [spent EXCEPT ![s] = granted'[s]]
    /\ Note(persist)
    /\ UNCHANGED <<now, creating, persisting, created, closed, lateVars>>

use_session(s, tool, caller, persist) ==
    Accepts(cache[s], tool, caller, now) /\ Charge(s, 1, persist)

use_session_batch(s, tools, caller, persist) ==
    AcceptsBatch(cache[s], tools, caller, now) /\ Charge(s, Len(tools), persist)

(* Faulty variant: the status changes in the cache alone. *)
SetStatusInCache(s, status, persist) ==
    /\ cache' = [cache EXCEPT ![s].status = status]
    /\ Note(persist)
    /\ UNCHANGED <<now, storage, creating, persisting, stray, created, granted, spent, lateVars>>

(* A status change under the lock, written through; failures are logged.   *)
SetStatus(s, status, persist) ==
    LET new == [cache[s] EXCEPT !.status = status] IN
    /\ cache' = [cache EXCEPT ![s] = new]
    /\ update_session(s, domain_to_stored(new), persist)
    /\ Note(persist)
    /\ UNCHANGED <<now, creating, persisting, created, granted, spent, lateVars>>

(* Either use finds the session past its time and refuses. *)
use_expired(s, caller, persist) ==
    /\ Overdue(cache[s], caller, now)
    /\ SetStatus(s, "Expired", persist)
    /\ UNCHANGED closed

(* close answers Ok whether or not the row was updated. *)
close(s, persist) ==
    /\ cache[s] # NoSession
    /\ cache[s].status # "Closed"
    /\ SetStatus(s, "Closed", persist)
    /\ closed' = IF persist = "dropped" THEN closed ELSE closed \cup {s}

(* Faulty variant: the closing is answered before the rows are written.    *)
close_sessions_answered_early(a) ==
    /\ cache' = [s \in SessionId |-> IF s \in ActiveOf(a)
                                     THEN [cache[s] EXCEPT !.status = "Closed"]
                                     ELSE cache[s]]
    /\ persisting' = [s \in SessionId |-> IF s \in ActiveOf(a)
                                          THEN domain_to_stored(cache'[s])
                                          ELSE persisting[s]]
    /\ closed' = closed \cup ActiveOf(a)
    /\ UNCHANGED <<now, storage, creating, stray, created, granted, faults, spent, lateVars>>

(* close_sessions_for_agent, under the lock: every active session of the   *)
(* agent is closed in the cache and its row set aside.                     *)
close_sessions_for_agent(a) ==
    /\ cache' = [s \in SessionId |-> IF s \in ActiveOf(a)
                                     THEN [cache[s] EXCEPT !.status = "Closed"]
                                     ELSE cache[s]]
    /\ persisting' = [s \in SessionId |-> IF s \in ActiveOf(a)
                                          THEN domain_to_stored(cache'[s])
                                          ELSE persisting[s]]
    /\ UNCHANGED <<now, storage, creating, stray, created, granted, closed, faults,
                   spent, lateVars>>

(* close_sessions_for_agent, the lock released: one row is written.        *)
persist_closure(s, persist) ==
    /\ persisting[s] # NoRow
    /\ update_session(s, persisting[s], persist)
    /\ persisting' = [persisting EXCEPT ![s] = NoRow]
    /\ closed' = IF persist = "dropped" THEN closed ELSE closed \cup {s}
    /\ Note(persist)
    /\ UNCHANGED <<now, cache, creating, created, granted, spent, lateVars>>

(* DELETE FROM sessions: rows marked expired, and active rows past their   *)
(* time.  Closed rows stay.                                                *)
delete_expired_sessions(persist) ==
    storage' =
        IF persist = "failed" THEN storage
        ELSE [s \in SessionId |->
                IF /\ storage[s] # NoRow
                   /\ \/ storage[s].status = "Expired"
                      \/ storage[s].status = "Active" /\ is_expired(storage[s], now)
                THEN NoRow ELSE storage[s]]

(* cleanup_expired: unlike the in-memory store, closed sessions stay until *)
(* their time is up.  A background task calls it, so nobody drops it.      *)
cleanup_expired(persist) ==
    /\ cache' = [s \in SessionId |->
                   IF cache[s] # NoSession /\ is_expired(cache[s], now)
                   THEN NoSession ELSE cache[s]]
    /\ delete_expired_sessions(persist)
    /\ Note(persist)
    /\ UNCHANGED <<now, creating, persisting, stray, created, granted, closed, spent, lateVars>>

(* A stray UPDATE sets the row back: to fewer calls than it counted, or    *)
(* from an ended session to an Active one.                                 *)
SetsBack(old, row) ==
    \/ row.calls_made < old.calls_made
    \/ row.status = "Active" /\ old.status # "Active"

(* What a dropped request left with the pool is carried out: an INSERT     *)
(* issues its session, an UPDATE writes its row over whatever is there.    *)
stray_insert(st) ==
    /\ st \in stray /\ st.req # NoRequest
    /\ stray' = stray \ {st}
    /\ created' = [created EXCEPT ![st.id] = st.req]
    /\ storage' = [storage EXCEPT ![st.id] = st.row]
    /\ UNCHANGED <<now, cache, creating, persisting, granted, closed, faults, spent, lateVars>>

stray_update(st) ==
    LET old == storage[st.id] IN
    /\ st \in stray /\ st.req = NoRequest
    /\ stray' = stray \ {st}
    /\ old # NoRow
    /\ storage' = [storage EXCEPT ![st.id] = st.row]
    /\ overtaken' = IF SetsBack(old, st.row) THEN overtaken \cup {st.id} ELSE overtaken
    /\ refunded' = IF st.row.calls_made < old.calls_made
                   THEN [refunded EXCEPT ![st.id] = @ + (old.calls_made - st.row.calls_made)]
                   ELSE refunded
    /\ refunded'[st.id] <= MaxRefunded
    /\ UNCHANGED <<now, cache, creating, persisting, created, granted, closed, faults, spent>>

(* ... or fails, or finds no row to update. *)
stray_fails(st) ==
    /\ st \in stray
    /\ stray' = stray \ {st}
    /\ UNCHANGED <<now, cache, storage, creating, persisting, created, granted, closed,
                   faults, spent, lateVars>>

(* The process stops at any point and starts again: the cache is what      *)
(* reload_from_storage finds, and whatever was in flight is gone.          *)
restart ==
    /\ cache' = [s \in SessionId |-> IF storage[s] = NoRow THEN NoSession
                                     ELSE stored_to_domain(storage[s])]
    /\ creating' = [s \in SessionId |-> NoSession]
    /\ persisting' = [s \in SessionId |-> NoRow]
    /\ stray' = {}
    /\ UNCHANGED <<now, storage, created, granted, closed, faults, spent, lateVars>>

Next ==
    \/ Tick
    \/ restart
    \/ \E s \in SessionId : create_cache(s)
    \/ \E a \in Agent : close_sessions_for_agent(a)
    \/ \E st \in stray : stray_insert(st) \/ stray_update(st) \/ stray_fails(st)
    \/ \E persist \in {"ok", "failed"} : cleanup_expired(persist)
    \/ \E persist \in Outcome :
        \/ \E s \in SessionId, req \in Requests :
              create_insert(s, req, persist) \/ create_if_under_cap(s, req, persist)
        \/ \E s \in SessionId, tool \in Tool, caller \in Agent \cup {NoAgent} :
              use_session(s, tool, caller, persist)
        \/ \E s \in SessionId, tools \in Batches, caller \in Agent \cup {NoAgent} :
              use_session_batch(s, tools, caller, persist)
        \/ \E s \in SessionId, caller \in Agent \cup {NoAgent} :
              use_expired(s, caller, persist)
        \/ \E s \in SessionId : close(s, persist) \/ persist_closure(s, persist)

Spec == Init /\ [][Next]_vars

----------------------------------------------------------------------------
(* Properties. *)

(* Every variable has its type. *)
TypeOK ==
    /\ now \in Nat
    /\ cache \in [SessionId -> TaskSessions \cup {NoSession}]
    /\ storage \in [SessionId -> StoredSessions \cup {NoRow}]
    /\ creating \in [SessionId -> TaskSessions \cup {NoSession}]
    /\ persisting \in [SessionId -> StoredSessions \cup {NoRow}]
    /\ created \in [SessionId -> CreateSessionRequest \cup {NoRequest}]
    /\ granted \in [SessionId -> Nat]
    /\ closed \subseteq SessionId
    /\ faults \in BOOLEAN
    /\ stray \subseteq Statements
    /\ overtaken \subseteq SessionId
    /\ refunded \in [SessionId -> Nat]
    /\ spent \in [SessionId -> Nat]

(* Over any number of restarts, failed writes and dropped requests, a      *)
(* session is granted no more calls than the budget it was created with    *)
(* and the calls that late writes of dropped requests took off its row: a  *)
(* crash or a failed write refunds nothing, and a late write no more than  *)
(* the calls it overtook.                                                  *)
BudgetRespected ==
    \A s \in SessionId :
        created[s] # NoRequest => granted[s] <= created[s].call_budget + refunded[s]

(* "Propagate failure so callers know the budget increment is not durably  *)
(* committed": a call answered Ok is on the row.  The code does not keep   *)
(* this: a late UPDATE of a dropped request takes the call off again.      *)
GrantsAreDurable ==
    \A s \in SessionId : storage[s] # NoRow => granted[s] <= storage[s].calls_made

(* REQ-001: as long as no storage call has gone wrong, what the cache says *)
(* of a session still within its time is what a restart would reload       *)
(* (credentials aside); only a closure still being written may be ahead.   *)
DurableWhileUsable ==
    \A s \in SessionId :
        (~faults /\ cache[s] # NoSession /\ ~is_expired(cache[s], now) /\ persisting[s] = NoRow)
            => storage[s] = domain_to_stored(cache[s])

(* "Close a session, preventing further use": once a closing has been      *)
(* answered, the session is not Active in the store.                       *)
ClosedStaysClosed ==
    \A s \in closed : cache[s] # NoSession => cache[s].status # "Active"

(* Short of a storage failure or a dropped request, an answered closing    *)
(* holds across any restart.                                               *)
ClosedSurvivesRestart == ~faults => ClosedStaysClosed

(* Every credential a session may resolve is one it was created for.       *)
CredentialScopeKept ==
    \A s \in SessionId : cache[s] # NoSession =>
        \A ref \in Credential :
            is_credential_authorized(cache[s], ref) => is_credential_authorized(created[s], ref)

(* Why they hold.  Each copy of a session - cached, in the table, about to *)
(* be cached or about to be written - was made for the request that issued *)
(* it, and counts at least the calls granted and not refunded.             *)
MadeFor(copy, req) ==
    /\ copy.call_budget = req.call_budget
    /\ copy.time_limit = req.time_limit
    /\ copy.calls_made <= copy.call_budget

Fits(s, copy) ==
    /\ created[s] # NoRequest
    /\ MadeFor(copy, created[s])
    /\ granted[s] <= copy.calls_made + refunded[s]

CopiesFit(s) ==
    /\ cache[s] # NoSession => Fits(s, cache[s])
    /\ storage[s] # NoRow => Fits(s, storage[s])
    /\ creating[s] # NoSession => Fits(s, creating[s])
    /\ persisting[s] # NoRow => Fits(s, persisting[s])

(* A row is of the same creation as the cached record, and is Active if    *)
(* the cached record is.                                                   *)
TableFits(s) ==
    (cache[s] # NoSession /\ storage[s] # NoRow) =>
        /\ storage[s].created_at = cache[s].created_at
        /\ cache[s].status = "Active" => storage[s].status = "Active"

(* So is a stray UPDATE, which may count fewer calls than the others; a    *)
(* stray INSERT is all there is of its session.                            *)
StrayFits(s, st) ==
    IF st.req = NoRequest
    THEN /\ created[s] # NoRequest
         /\ MadeFor(st.row, created[s])
         /\ creating[s] = NoSession
         /\ storage[s] # NoRow => st.row.created_at = storage[s].created_at
         /\ cache[s] # NoSession =>
               /\ st.row.created_at = cache[s].created_at
               /\ cache[s].status = "Active" => st.row.status = "Active"
    ELSE /\ created[s] = NoRequest
         /\ st.req \in Requests
         /\ MadeFor(st.row, st.req)
         /\ st.row.status = "Active"
         /\ \A other \in stray : other.id = s => other = st

StraysFit(s) ==
    \A st \in stray : st.id = s => faults /\ StrayFits(s, st)

(* While no stray has set a row back, every call granted was spent within  *)
(* the contract and none was refunded.                                     *)
SpentFits(s) ==
    s \notin overtaken => spent[s] = granted[s] /\ refunded[s] = 0

(* Between create's two halves nothing else knows the session.             *)
CreatingAlone(s) ==
    creating[s] # NoSession =>
        /\ cache[s] = NoSession
        /\ persisting[s] = NoRow
        /\ s \notin closed
        /\ storage[s] \in {NoRow, domain_to_stored(creating[s])}

(* A row set aside by close_sessions_for_agent is the cached record,       *)
(* closed, for as long as that is cached, and of the table's creation.     *)
ClosingFits(s) ==
    persisting[s] # NoRow =>
        /\ persisting[s].status = "Closed"
        /\ cache[s] # NoSession => persisting[s] = domain_to_stored(cache[s])
        /\ storage[s] # NoRow => persisting[s].created_at = storage[s].created_at

(* An answered closing shows in the table too, short of a fault.           *)
ClosedInTable(s) ==
    s \in closed =>
        /\ created[s] # NoRequest
        /\ ~faults => /\ cache[s] # NoSession => cache[s].status # "Active"
                      /\ storage[s] # NoRow => storage[s].status # "Active"

(* An id is issued for a request, or has been granted nothing.             *)
IssuedOrUnused(s) ==
    \/ created[s] = NoRequest /\ granted[s] = 0
    \/ created[s] \in Requests

SessionInv(s) ==
    /\ created[s] # NoRequest => granted[s] <= created[s].call_budget + refunded[s]
    /\ CopiesFit(s)
    /\ TableFits(s)
    /\ StraysFit(s)
    /\ SpentFits(s)
    /\ CreatingAlone(s)
    /\ ClosingFits(s)
    /\ ClosedInTable(s)
    /\ IssuedOrUnused(s)

StorageInv == TypeOK /\ \A s \in SessionId : SessionInv(s)

(* Expired is only ever said of a session whose time is really up.         *)
ExpiredIsOverdue(s) ==
    /\ creating[s] # NoSession => creating[s].status = "Active"
    /\ (cache[s] # NoSession /\ cache[s].status = "Expired") =>
          now - cache[s].created_at > cache[s].time_limit
    /\ (storage[s] # NoRow /\ storage[s].status = "Expired") =>
          now - storage[s].created_at > storage[s].time_limit
    /\ \A st \in stray : (st.id = s /\ st.row.status = "Expired") =>
          now - st.row.created_at > st.row.time_limit

(* Short of a fault, the row of a session within its time is there: equal  *)
(* to the record being created or cached, or still Active while a closure  *)
(* waits to be written.                                                    *)
RowPresent(s) ==
    /\ (creating[s] # NoSession /\ ~is_expired(creating[s], now)) => storage[s] # NoRow
    /\ (cache[s] # NoSession /\ ~is_expired(cache[s], now)) =>
          IF persisting[s] = NoRow
          THEN storage[s] = domain_to_stored(cache[s])
          ELSE storage[s] # NoRow /\ storage[s].status = "Active"

DurableInv == \A s \in SessionId : ExpiredIsOverdue(s) /\ (~faults => RowPresent(s))

----------------------------------------------------------------------------
(* The contract is decided by the table alone: a session is open while its *)
(* row is Active and within its time, whatever the cache of the moment     *)
(* says.  It ends with the first late write that sets its row back: from   *)
(* then on only BudgetRespected holds.                                     *)
Usable(s) ==
    /\ storage[s] # NoRow
    /\ storage[s].status = "Active"
    /\ ~is_expired(storage[s], now)
    /\ s \notin overtaken

Phase == [s \in SessionId |->
            IF created[s] = NoRequest THEN "none" ELSE IF Usable(s) THEN "open" ELSE "shut"]

Budget == [s \in SessionId |->
            IF created[s] = NoRequest THEN 0 ELSE created[s].call_budget]

Contract == INSTANCE SessionContract
                WITH phase <- Phase, budget <- Budget, spent <- spent

(* The store implements the session contract across crashes, failed writes *)
(* and dropped requests, for every session until a late write sets its row *)
(* back: until then a session whose row has ended is never granted another *)
(* call, and nothing else, a reload or a stray write that lands in time,   *)
(* brings a row back to life.                                              *)
ImplementsContract == Contract!ContractSpec
=============================================================================
