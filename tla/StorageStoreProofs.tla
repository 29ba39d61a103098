------------------------- MODULE StorageStoreProofs -------------------------
(***************************************************************************)
(* For any agents, sessions, requests, batches, clock and pool, and any    *)
(* pattern of storage failures, dropped requests whose writes land late,   *)
(* and restarts: the write-through store keeps StorageInv, so no session   *)
(* overspends by more than late writes refunded, and no answered closing   *)
(* is undone short of a fault; short of a fault it keeps DurableInv, so    *)
(* the cache is what a restart would reload; and it implements             *)
(* SessionContract for every session whose row no late write set back.     *)
(***************************************************************************)
EXTENDS StorageBackedSessionStore, TaskSessionProofs, TLAPS

-----------------------------------------------------------------------------
(* The two conversions between a cached record and a row.                  *)

(* A row carries every field but the credentials.                          *)
LEMMA ToStoredType ==
    ASSUME NEW ses \in TaskSessions
    PROVE  /\ domain_to_stored(ses) \in StoredSessions
           /\ domain_to_stored(ses) # NoRow
           /\ domain_to_stored(ses).call_budget = ses.call_budget
           /\ domain_to_stored(ses).calls_made = ses.calls_made
           /\ domain_to_stored(ses).time_limit = ses.time_limit
           /\ domain_to_stored(ses).created_at = ses.created_at
           /\ domain_to_stored(ses).status = ses.status
  <1>1. domain_to_stored(ses) \in StoredSessions
    BY DEF domain_to_stored, TaskSessions, StoredSessions
  <1> QED BY <1>1, StorageAssumption DEF domain_to_stored

(* Reloading a row can only shorten its deadline ...                       *)
LEMMA ToDomainType ==
    ASSUME NEW row \in StoredSessions
    PROVE  /\ stored_to_domain(row) \in TaskSessions
           /\ stored_to_domain(row) # NoSession
           /\ stored_to_domain(row).call_budget = row.call_budget
           /\ stored_to_domain(row).calls_made = row.calls_made
           /\ stored_to_domain(row).time_limit <= row.time_limit
           /\ stored_to_domain(row).created_at = row.created_at
           /\ stored_to_domain(row).status = row.status
  <1>1. stored_to_domain(row) \in TaskSessions
    BY StorageAssumption DEF stored_to_domain, TaskSessions, StoredSessions
  <1>2. stored_to_domain(row).time_limit <= row.time_limit
    BY StorageAssumption DEF stored_to_domain, StoredSessions
  <1> QED BY <1>1, <1>2, SessionAssumption DEF stored_to_domain

(* ... and leaves a row within the maximum as it was.                      *)
LEMMA RoundTrip ==
    ASSUME NEW row \in StoredSessions, row.time_limit <= MaxTimeLimit
    PROVE  /\ domain_to_stored(stored_to_domain(row)) = row
           /\ stored_to_domain(row).time_limit = row.time_limit
  <1>1. stored_to_domain(row).time_limit = row.time_limit
    BY StorageAssumption DEF stored_to_domain, StoredSessions
  <1> QED BY <1>1 DEF domain_to_stored, stored_to_domain, StoredSessions

-----------------------------------------------------------------------------
(* StorageInv is inductive.                                                *)

LEMMA InitStorageInv == Init => StorageInv
  <1> SUFFICES ASSUME Init PROVE StorageInv
    OBVIOUS
  <1>1. TypeOK
    BY DEF Init, TypeOK
  <1>2. ASSUME NEW s \in SessionId PROVE SessionInv(s)
    <2>1. /\ cache[s] = NoSession /\ storage[s] = NoRow
          /\ creating[s] = NoSession /\ persisting[s] = NoRow
          /\ created[s] = NoRequest /\ granted[s] = 0 /\ s \notin closed
          /\ stray = {} /\ spent[s] = 0 /\ refunded[s] = 0
      BY DEF Init
    <2> QED
      BY <2>1 DEF SessionInv, CopiesFit, TableFits, CreatingAlone, ClosingFits,
                  ClosedInTable, IssuedOrUnused, StraysFit, SpentFits
  <1> QED BY <1>1, <1>2 DEF StorageInv

(* A session an operation does not touch keeps its part of the invariant,  *)
(* whatever happens to the clock and to the other sessions.                *)
LEMMA FrameInv ==
    ASSUME NEW x, SessionInv(x),
           cache'[x] = cache[x], storage'[x] = storage[x], creating'[x] = creating[x],
           persisting'[x] = persisting[x], created'[x] = created[x],
           granted'[x] = granted[x], x \in closed' <=> x \in closed,
           faults => faults',
           \A st : st.id = x => (st \in stray' <=> st \in stray),
           x \in overtaken' <=> x \in overtaken,
           refunded'[x] = refunded[x], spent'[x] = spent[x]
    PROVE  SessionInv(x)'
  <1>1. StraysFit(x)'
    <2> SUFFICES ASSUME NEW st \in stray', st.id = x
                 PROVE  faults' /\ StrayFits(x, st)'
      BY DEF StraysFit
    <2>1. st \in stray /\ faults /\ StrayFits(x, st)
      BY DEF SessionInv, StraysFit
    <2> QED BY <2>1 DEF StrayFits
  <1> QED
    BY <1>1 DEF SessionInv, CopiesFit, Fits, MadeFor, TableFits, CreatingAlone, ClosingFits,
                ClosedInTable, IssuedOrUnused, SpentFits

(* No new stray of the session: the old ones fit as long as what is said   *)
(* of the session keeps its creation and gains no Active copy.             *)
LEMMA StraysStay ==
    ASSUME NEW x, StraysFit(x),
           \A st \in stray' : st.id = x => st \in stray,
           faults => faults',
           created'[x] = created[x],
           creating'[x] \in {creating[x], NoSession},
           storage'[x] # NoRow =>
               /\ storage[x] # NoRow
               /\ storage'[x].created_at = storage[x].created_at,
           cache'[x] # NoSession =>
               /\ cache[x] # NoSession
               /\ cache'[x].created_at = cache[x].created_at
               /\ cache'[x].status = "Active" => cache[x].status = "Active"
    PROVE  StraysFit(x)'
  <1> SUFFICES ASSUME NEW st \in stray', st.id = x
               PROVE  faults' /\ StrayFits(x, st)'
    BY DEF StraysFit
  <1>1. st \in stray /\ faults /\ StrayFits(x, st)
    BY DEF StraysFit
  <1>2. CASE st.req = NoRequest
    BY <1>1, <1>2 DEF StrayFits, MadeFor
  <1>3. CASE st.req # NoRequest
    <2>1. \A other \in stray' : other.id = x => other = st
      BY <1>1, <1>3 DEF StrayFits
    <2> QED BY <1>1, <1>3, <2>1 DEF StrayFits, MadeFor
  <1> QED BY <1>2, <1>3

(* The UPDATE a dropped request leaves behind fits, if its row does.       *)
LEMMA LeaveInv ==
    ASSUME NEW s, NEW row, NEW persist, StraysFit(s),
           Leave(UpdateOf(s, row), persist),
           faults' = (faults \/ persist # "ok"),
           created'[s] = created[s], created[s] # NoRequest,
           MadeFor(row, created[s]),
           creating[s] = NoSession, creating'[s] = NoSession,
           storage'[s] # NoRow =>
               /\ storage[s] # NoRow
               /\ storage'[s].created_at = storage[s].created_at
               /\ storage'[s].created_at = row.created_at,
           cache'[s] # NoSession =>
               /\ cache[s] # NoSession
               /\ cache'[s].created_at = cache[s].created_at
               /\ cache'[s].created_at = row.created_at
               /\ cache'[s].status = "Active" => cache[s].status = "Active"
               /\ cache'[s].status = "Active" => row.status = "Active"
    PROVE  StraysFit(s)'
  <1> SUFFICES ASSUME NEW st \in stray', st.id = s
               PROVE  faults' /\ StrayFits(s, st)'
    BY DEF StraysFit
  <1>1. CASE st \in stray
    <2>1. faults /\ StrayFits(s, st) /\ st.req = NoRequest
      BY <1>1 DEF StraysFit, StrayFits
    <2> QED BY <2>1 DEF StrayFits, MadeFor
  <1>2. CASE st \notin stray
    <2>1. persist = "dropped" /\ st = UpdateOf(s, row)
      BY <1>2 DEF Leave
    <2>2. st.req = NoRequest /\ st.row = row
      BY <2>1 DEF UpdateOf
    <2> QED BY <2>1, <2>2 DEF StrayFits, MadeFor
  <1> QED BY <1>1, <1>2

(* What Leave does to the strays of the other sessions: nothing.           *)
LEMMA LeaveOthers ==
    ASSUME NEW s, NEW row, NEW req, NEW persist, NEW x, x # s,
           Leave([id |-> s, row |-> row, req |-> req], persist)
    PROVE  \A st : st.id = x => (st \in stray' <=> st \in stray)
  BY DEF Leave

LEMMA UpdateOfType ==
    ASSUME NEW s \in SessionId, NEW row \in StoredSessions
    PROVE  UpdateOf(s, row) \in Statements
  BY DEF UpdateOf, Statements

(* Issuing a session: it is known nowhere yet, and every copy made of it   *)
(* is the new record.                                                      *)
LEMMA InsertInv ==
    ASSUME StorageInv, NEW s \in SessionId, NEW req \in Requests, NEW persist \in Outcome,
           create_insert(s, req, persist) \/ create_if_under_cap(s, req, persist)
    PROVE  StorageInv'
  <1> DEFINE new == NewSession(req, req.time_limit, now)
  <1>1. req \in CreateSessionRequest /\ req # NoRequest
    BY SessionAssumption
  <1>2. req.time_limit \in Nat /\ req.call_budget \in Nat
    BY <1>1 DEF CreateSessionRequest
  <1>3. /\ new \in TaskSessions /\ new # NoSession
        /\ new.calls_made = 0
        /\ new.call_budget = req.call_budget
        /\ new.time_limit = req.time_limit
        /\ new.status = "Active"
    <2>1. now \in Nat
      BY DEF StorageInv, TypeOK
    <2> QED BY <1>1, <1>2, <2>1, NewSessionType, SessionAssumption DEF NewSession
  <1> DEFINE row == domain_to_stored(new)
  <1>4. /\ row \in StoredSessions /\ row # NoRow
        /\ row.calls_made = 0
        /\ row.call_budget = req.call_budget
        /\ row.time_limit = req.time_limit
        /\ row.created_at = new.created_at
        /\ row.status = "Active"
    <2> HIDE DEF new
    <2> QED BY <1>3, ToStoredType
  <1> DEFINE ins == [id |-> s, row |-> row, req |-> req]
  <1>5. /\ created[s] = NoRequest
        /\ \A st \in stray : st.id # s
        /\ created' = IF persist = "dropped" THEN created ELSE [created EXCEPT ![s] = req]
        /\ storage' = IF persist = "ok" THEN [storage EXCEPT ![s] = row] ELSE storage
        /\ Leave(ins, persist)
        /\ faults' = (faults \/ persist # "ok")
        /\ UNCHANGED <<now, persisting, granted, closed, spent, overtaken, refunded>>
        /\ \/ persist = "dropped" /\ cache' = cache /\ creating' = creating
           \/ /\ persist # "dropped" /\ cache' = cache
              /\ creating' = [creating EXCEPT ![s] = new]
           \/ /\ persist # "dropped" /\ creating' = creating
              /\ cache' = [cache EXCEPT ![s] = new]
    BY DEF create_insert, create_if_under_cap, insert_session, Note, lateVars
  <1> HIDE DEF new
  <1>6. TypeOK'
    <2>1. ins \in Statements
      BY <1>1, <1>4 DEF Statements
    <2>2. stray' \subseteq Statements
      BY <1>5, <2>1 DEF Leave, StorageInv, TypeOK
    <2> HIDE DEF row, ins
    <2> QED BY <1>1, <1>3, <1>4, <1>5, <2>2 DEF StorageInv, TypeOK
  <1>7. ASSUME NEW x \in SessionId PROVE SessionInv(x)'
    <2>1. CASE x = s
      <3>1. /\ cache[s] = NoSession /\ storage[s] = NoRow
            /\ creating[s] = NoSession /\ persisting[s] = NoRow
            /\ granted[s] = 0 /\ s \notin closed
            /\ SpentFits(s)
        BY <1>5, SessionAssumption
           DEF StorageInv, SessionInv, CopiesFit, Fits, MadeFor, ClosedInTable, IssuedOrUnused
      <3>2. /\ granted'[s] = 0 /\ persisting'[s] = NoRow
            /\ s \notin closed'
            /\ SpentFits(s)'
        BY <1>5, <3>1 DEF SpentFits
      <3>3. row = domain_to_stored(new)
        BY DEF row
      <3>4. CASE persist = "dropped"
        <4>1. /\ created'[s] = NoRequest /\ cache'[s] = NoSession /\ storage'[s] = NoRow
              /\ creating'[s] = NoSession /\ faults'
          BY <1>5, <3>1, <3>4
        <4>2. StraysFit(s)'
          <5> SUFFICES ASSUME NEW st \in stray', st.id = s
                       PROVE  StrayFits(s, st)'
            BY <4>1 DEF StraysFit
          <5>1. \A other \in stray' : other.id = s => other = ins
            BY <1>5 DEF Leave
          <5>2. st = ins /\ \A other \in stray' : other.id = s => other = st
            BY <5>1
          <5>3. st.req = req /\ st.row = row
            BY <5>2
          <5> HIDE DEF row, ins
          <5>4. MadeFor(st.row, st.req)
            BY <1>2, <1>4, <5>3 DEF MadeFor
          <5> QED BY <1>1, <1>4, <4>1, <5>2, <5>3, <5>4 DEF StrayFits, MadeFor
        <4> QED
          BY <2>1, <3>2, <4>1, <4>2
             DEF SessionInv, CopiesFit, TableFits, CreatingAlone, ClosingFits,
                 ClosedInTable, IssuedOrUnused
      <3>5. CASE persist # "dropped"
        <4>1. /\ created'[s] = req
              /\ storage'[s] \in {NoRow, row}
              /\ \/ cache'[s] = NoSession /\ creating'[s] = new
                 \/ creating'[s] = NoSession /\ cache'[s] = new
          BY <1>5, <3>1, <3>5 DEF StorageInv, TypeOK
        <4>2. StraysFit(s)'
          BY <1>5, <3>5 DEF StraysFit, Leave
        <4>3. refunded'[s] \in Nat
          BY <1>6 DEF TypeOK
        <4> HIDE DEF row, ins
        <4>4. CopiesFit(s)'
          BY <1>1, <1>2, <1>3, <1>4, <3>2, <4>1, <4>3 DEF CopiesFit, Fits, MadeFor
        <4> QED
          BY <1>1, <1>2, <1>3, <1>4, <2>1, <3>2, <3>3, <4>1, <4>2, <4>3, <4>4
             DEF SessionInv, TableFits, CreatingAlone, ClosingFits,
                 ClosedInTable, IssuedOrUnused
      <3> QED BY <3>4, <3>5
    <2>2. CASE x # s
      <3>0. \A st : st.id = x => (st \in stray' <=> st \in stray)
        BY <1>5, <2>2, LeaveOthers
      <3> HIDE DEF row, ins
      <3>1. /\ cache'[x] = cache[x] /\ storage'[x] = storage[x]
            /\ creating'[x] = creating[x] /\ persisting'[x] = persisting[x]
            /\ created'[x] = created[x] /\ granted'[x] = granted[x]
            /\ x \in closed' <=> x \in closed
            /\ faults => faults'
            /\ x \in overtaken' <=> x \in overtaken
            /\ refunded'[x] = refunded[x] /\ spent'[x] = spent[x]
        BY <1>5, <2>2 DEF StorageInv, TypeOK
      <3> QED BY <3>0, <3>1, FrameInv DEF StorageInv
    <2> QED BY <2>1, <2>2
  <1> QED BY <1>6, <1>7 DEF StorageInv

(* A use that charges a live session with room for n calls; they count as  *)
(* granted only if the row was updated too.                                *)
LEMMA ChargeInv ==
    ASSUME StorageInv, NEW s \in SessionId, NEW n \in Nat, NEW persist \in Outcome,
           cache[s] # NoSession,
           cache[s].status = "Active",
           cache[s].calls_made + n <= cache[s].call_budget,
           Charge(s, n, persist)
    PROVE  StorageInv'
  <1> DEFINE old == cache[s]
             new == Charged(old, n, now)
             row == domain_to_stored(new)
  <1>1. old \in TaskSessions /\ now \in Nat
    BY DEF StorageInv, TypeOK
  <1>2. /\ cache' = [cache EXCEPT ![s] = new]
        /\ storage' = IF storage[s] # NoRow /\ persist = "ok"
                      THEN [storage EXCEPT ![s] = row] ELSE storage
        /\ Leave(UpdateOf(s, row), persist)
        /\ spent' = IF s \in overtaken THEN spent ELSE [spent EXCEPT ![s] = granted'[s]]
        /\ granted' = IF storage[s] # NoRow /\ persist = "ok"
                      THEN [granted EXCEPT ![s] = granted[s] + n] ELSE granted
        /\ faults' = (faults \/ persist # "ok")
        /\ UNCHANGED <<now, creating, persisting, created, closed, overtaken, refunded>>
    BY DEF Charge, update_session, Updated, Note, lateVars
  <1>3. old = cache[s]
    OBVIOUS
  <1> HIDE DEF old
  <1>4. /\ new \in TaskSessions /\ new # NoSession
        /\ new.calls_made = old.calls_made + n
        /\ new.call_budget = old.call_budget
        /\ new.time_limit = old.time_limit
        /\ new.created_at = old.created_at
        /\ new.status = old.status
    <2>1. old \in TaskSessions /\ now \in Nat
      BY <1>1
    <2>2. /\ new \in TaskSessions
          /\ new.calls_made = old.calls_made + n
          /\ new.call_budget = old.call_budget
          /\ new.time_limit = old.time_limit
          /\ new.created_at = old.created_at
          /\ new.status = old.status
      BY <2>1, ChargedType
    <2> HIDE DEF new
    <2>3. new # NoSession
      BY <2>2, SessionAssumption
    <2> QED BY <2>2, <2>3
  <1> HIDE DEF new
  <1>5. /\ row \in StoredSessions /\ row # NoRow
        /\ row.calls_made = new.calls_made
        /\ row.call_budget = new.call_budget
        /\ row.time_limit = new.time_limit
        /\ row.created_at = new.created_at
        /\ row.status = new.status
    BY <1>4, ToStoredType
  <1> HIDE DEF row
  <1>6. TypeOK'
    <2>1. stray' \subseteq Statements
      BY <1>2, <1>5, UpdateOfType DEF Leave, StorageInv, TypeOK
    <2> QED BY <1>2, <1>4, <1>5, <2>1 DEF StorageInv, TypeOK
  <1>7. ASSUME NEW x \in SessionId PROVE SessionInv(x)'
    <2>1. CASE x = s
      <3>1. SessionInv(s)
        BY DEF StorageInv
      <3>2. creating[s] = NoSession
        BY <3>1 DEF SessionInv, CreatingAlone
      <3>3. persisting[s] = NoRow
        BY <1>1, <1>3, <3>1, ToStoredType DEF SessionInv, ClosingFits
      <3>4. /\ cache'[s] = new
            /\ created'[s] = created[s] /\ creating'[s] = NoSession /\ persisting'[s] = NoRow
            /\ storage'[s] \in {storage[s], row}
            /\ storage[s] = NoRow => storage'[s] = NoRow
            /\ \/ granted'[s] = granted[s]
               \/ granted'[s] = granted[s] + n /\ storage'[s] = row
            /\ closed' = closed
            /\ faults => faults'
            /\ refunded'[s] = refunded[s] /\ overtaken' = overtaken
            /\ s \notin overtaken => spent'[s] = granted'[s]
        BY <1>2, <3>2, <3>3 DEF StorageInv, TypeOK
      <3>5. /\ granted[s] \in Nat /\ old.calls_made \in Nat /\ old.call_budget \in Nat
            /\ created[s] \in CreateSessionRequest \cup {NoRequest}
            /\ refunded[s] \in Nat
        BY <1>1 DEF StorageInv, TypeOK, TaskSessions
      <3>6. Fits(s, old)
        BY <1>3, <3>1 DEF SessionInv, CopiesFit
      <3>7. s \in closed => faults'
        BY <1>3, <3>1, <3>4 DEF SessionInv, ClosedInTable
      <3>8. /\ created[s] # NoRequest
            /\ new.call_budget = created[s].call_budget
            /\ new.time_limit = created[s].time_limit
            /\ granted'[s] <= new.calls_made + refunded[s]
            /\ new.calls_made <= new.call_budget
            /\ granted'[s] <= created[s].call_budget + refunded[s]
        BY <1>3, <1>4, <3>4, <3>5, <3>6 DEF Fits, MadeFor
      <3>9. CopiesFit(s)'
        <4>1. storage'[s] # NoRow => Fits(s, storage[s])'
          <5>1. CASE storage'[s] = row
            BY <1>5, <3>4, <3>8, <5>1 DEF Fits, MadeFor
          <5>2. CASE storage'[s] # row
            BY <3>1, <3>4, <5>2 DEF SessionInv, CopiesFit, Fits, MadeFor
          <5> QED BY <5>1, <5>2
        <4> QED BY <3>4, <3>8, <4>1 DEF CopiesFit, Fits, MadeFor
      <3>10. TableFits(s)'
        BY <1>3, <1>4, <1>5, <3>1, <3>4 DEF SessionInv, TableFits
      <3>11. StraysFit(s)'
        <4>1. MadeFor(row, created[s])
          BY <1>5, <3>8 DEF MadeFor
        <4>2. storage'[s] # NoRow =>
                /\ storage[s] # NoRow
                /\ storage'[s].created_at = storage[s].created_at
                /\ storage'[s].created_at = row.created_at
          BY <1>3, <1>4, <1>5, <3>1, <3>4 DEF SessionInv, TableFits
        <4>3. /\ cache[s] # NoSession /\ new.created_at = cache[s].created_at
              /\ new.created_at = row.created_at /\ new.status = row.status
              /\ new.status = cache[s].status
          BY <1>3, <1>4, <1>5
        <4>4. StraysFit(s)
          BY <3>1 DEF SessionInv
        <4> QED BY <1>2, <3>2, <3>4, <3>8, <4>1, <4>2, <4>3, <4>4, LeaveInv
      <3> QED
        BY <2>1, <3>1, <3>4, <3>7, <3>8, <3>9, <3>10, <3>11
           DEF SessionInv, CreatingAlone, ClosingFits, ClosedInTable, IssuedOrUnused, SpentFits
    <2>2. CASE x # s
      <3>1. /\ cache'[x] = cache[x] /\ storage'[x] = storage[x]
            /\ creating'[x] = creating[x] /\ persisting'[x] = persisting[x]
            /\ created'[x] = created[x] /\ granted'[x] = granted[x]
            /\ x \in closed' <=> x \in closed
            /\ faults => faults'
            /\ x \in overtaken' <=> x \in overtaken
            /\ refunded'[x] = refunded[x] /\ spent'[x] = spent[x]
        BY <1>2, <2>2 DEF StorageInv, TypeOK
      <3>2. \A st : st.id = x => (st \in stray' <=> st \in stray)
        BY <1>2, <2>2, LeaveOthers DEF UpdateOf
      <3> QED BY <3>1, <3>2, FrameInv DEF StorageInv
    <2> QED BY <2>1, <2>2
  <1> QED BY <1>6, <1>7 DEF StorageInv

(* A session that is not closed ends, in the cache and, if the write gets  *)
(* through, in the table; only a closing may be answered.                  *)
LEMMA SetStatusInv ==
    ASSUME StorageInv, NEW s \in SessionId, NEW st \in {"Expired", "Closed"},
           NEW persist \in Outcome,
           cache[s] # NoSession,
           cache[s].status # "Closed",
           SetStatus(s, st, persist),
           closed' \in {closed, closed \cup {s}}
    PROVE  StorageInv'
  <1> DEFINE old == cache[s]
             new == [old EXCEPT !.status = st]
             row == domain_to_stored(new)
  <1>1. old \in TaskSessions
    BY DEF StorageInv, TypeOK
  <1>2. /\ cache' = [cache EXCEPT ![s] = new]
        /\ storage' = IF storage[s] # NoRow /\ persist = "ok"
                      THEN [storage EXCEPT ![s] = row] ELSE storage
        /\ Leave(UpdateOf(s, row), persist)
        /\ faults' = (faults \/ persist # "ok")
        /\ UNCHANGED <<now, creating, persisting, created, granted, spent, overtaken, refunded>>
    BY DEF SetStatus, update_session, Note, lateVars
  <1>3. old = cache[s]
    OBVIOUS
  <1> HIDE DEF old
  <1>4. /\ new \in TaskSessions /\ new # NoSession
        /\ new.calls_made = old.calls_made
        /\ new.call_budget = old.call_budget
        /\ new.time_limit = old.time_limit
        /\ new.created_at = old.created_at
        /\ new.status = st
    <2>1. st \in SessionStatus
      BY DEF SessionStatus
    <2> QED BY <1>1, <2>1, StatusType, SessionAssumption
  <1> HIDE DEF new
  <1>5. /\ row \in StoredSessions /\ row # NoRow
        /\ row.calls_made = new.calls_made
        /\ row.call_budget = new.call_budget
        /\ row.time_limit = new.time_limit
        /\ row.created_at = new.created_at
        /\ row.status = st
    BY <1>4, ToStoredType
  <1> HIDE DEF row
  <1>6. TypeOK'
    <2>1. stray' \subseteq Statements
      BY <1>2, <1>5, UpdateOfType DEF Leave, StorageInv, TypeOK
    <2> QED BY <1>2, <1>4, <1>5, <2>1 DEF StorageInv, TypeOK
  <1>7. ASSUME NEW x \in SessionId PROVE SessionInv(x)'
    <2>1. CASE x = s
      <3>1. SessionInv(s)
        BY DEF StorageInv
      <3>2. creating[s] = NoSession
        BY <3>1 DEF SessionInv, CreatingAlone
      <3>3. persisting[s] = NoRow
        BY <1>1, <1>3, <3>1, ToStoredType DEF SessionInv, ClosingFits
      <3>4. /\ cache'[s] = new
            /\ created'[s] = created[s] /\ creating'[s] = NoSession /\ persisting'[s] = NoRow
            /\ granted'[s] = granted[s]
            /\ storage'[s] \in {storage[s], row}
            /\ storage[s] = NoRow => storage'[s] = NoRow
            /\ faults => faults'
            /\ ~faults' => storage'[s] \in {NoRow, row}
            /\ refunded'[s] = refunded[s] /\ overtaken' = overtaken /\ spent'[s] = spent[s]
        BY <1>2, <3>2, <3>3 DEF StorageInv, TypeOK
      <3>5. Fits(s, old)
        BY <1>3, <3>1 DEF SessionInv, CopiesFit
      <3>6. /\ created[s] # NoRequest
            /\ new.call_budget = created[s].call_budget
            /\ new.time_limit = created[s].time_limit
            /\ granted[s] <= new.calls_made + refunded[s]
            /\ new.calls_made <= new.call_budget
        BY <1>4, <3>5 DEF Fits, MadeFor
      <3>7. CopiesFit(s)'
        BY <1>5, <3>1, <3>4, <3>6 DEF SessionInv, CopiesFit, Fits, MadeFor
      <3>8. TableFits(s)'
        BY <1>3, <1>4, <1>5, <3>1, <3>4 DEF SessionInv, TableFits
      <3>9. ClosedInTable(s)'
        BY <1>4, <1>5, <3>4, <3>6 DEF ClosedInTable
      <3>10. StraysFit(s)'
        <4>1. MadeFor(row, created[s])
          BY <1>5, <3>6 DEF MadeFor
        <4>2. storage'[s] # NoRow =>
                /\ storage[s] # NoRow
                /\ storage'[s].created_at = storage[s].created_at
                /\ storage'[s].created_at = row.created_at
          BY <1>3, <1>4, <1>5, <3>1, <3>4 DEF SessionInv, TableFits
        <4>3. /\ cache[s] # NoSession /\ new.created_at = cache[s].created_at
              /\ new.created_at = row.created_at /\ new.status # "Active"
          BY <1>3, <1>4, <1>5
        <4>4. StraysFit(s)
          BY <3>1 DEF SessionInv
        <4> QED BY <1>2, <3>2, <3>4, <3>6, <4>1, <4>2, <4>3, <4>4, LeaveInv
      <3> QED
        BY <2>1, <3>1, <3>4, <3>6, <3>7, <3>8, <3>9, <3>10
           DEF SessionInv, CreatingAlone, ClosingFits, IssuedOrUnused, SpentFits
    <2>2. CASE x # s
      <3>1. /\ cache'[x] = cache[x] /\ storage'[x] = storage[x]
            /\ creating'[x] = creating[x] /\ persisting'[x] = persisting[x]
            /\ created'[x] = created[x] /\ granted'[x] = granted[x]
            /\ x \in closed' <=> x \in closed
            /\ faults => faults'
            /\ x \in overtaken' <=> x \in overtaken
            /\ refunded'[x] = refunded[x] /\ spent'[x] = spent[x]
        BY <1>2, <2>2 DEF StorageInv, TypeOK
      <3>2. \A q : q.id = x => (q \in stray' <=> q \in stray)
        BY <1>2, <2>2, LeaveOthers DEF UpdateOf
      <3> QED BY <3>1, <3>2, FrameInv DEF StorageInv
    <2> QED BY <2>1, <2>2
  <1> QED BY <1>6, <1>7 DEF StorageInv

(* create's second half moves the record into the cache.                   *)
LEMMA CreateCacheInv ==
    ASSUME StorageInv, NEW s \in SessionId, create_cache(s)
    PROVE  StorageInv'
  <1>1. TypeOK'
    BY DEF create_cache, StorageInv, TypeOK, lateVars
  <1>2. ASSUME NEW x \in SessionId PROVE SessionInv(x)'
    <2>1. CASE x = s
      <3>1. SessionInv(s) /\ creating[s] \in TaskSessions
        BY DEF create_cache, StorageInv, TypeOK
      <3>2. /\ cache'[s] = creating[s] /\ creating'[s] = NoSession
            /\ UNCHANGED <<storage, persisting, stray, created, granted, closed, faults,
                           spent, overtaken, refunded>>
        BY DEF create_cache, StorageInv, TypeOK, lateVars
      <3>3. /\ persisting[s] = NoRow /\ s \notin closed
            /\ storage[s] \in {NoRow, domain_to_stored(creating[s])}
            /\ Fits(s, creating[s])
        BY <3>1 DEF create_cache, SessionInv, CreatingAlone, CopiesFit
      <3>4. TableFits(s)'
        BY <3>1, <3>2, <3>3, ToStoredType DEF TableFits
      <3>5. CopiesFit(s)'
        BY <3>1, <3>2, <3>3 DEF SessionInv, CopiesFit, Fits, MadeFor
      <3>6. \A st \in stray : st.id # s
        BY <3>1, <3>3 DEF create_cache, SessionInv, StraysFit, StrayFits, Fits
      <3>7. StraysFit(s)'
        BY <3>2, <3>6 DEF StraysFit
      <3> QED
        BY <2>1, <3>1, <3>2, <3>3, <3>4, <3>5, <3>7
           DEF SessionInv, CreatingAlone, ClosingFits, ClosedInTable, IssuedOrUnused, SpentFits
    <2>2. CASE x # s
      BY <2>2, FrameInv DEF create_cache, StorageInv, TypeOK, lateVars
    <2> QED BY <2>1, <2>2
  <1> QED BY <1>1, <1>2 DEF StorageInv

(* close_sessions_for_agent: a session is either left alone, or was Active *)
(* and is now closed, its row set aside.                                   *)
LEMMA CloseAllInv ==
    ASSUME StorageInv, NEW a \in Agent, close_sessions_for_agent(a)
    PROVE  StorageInv'
  <1>1. ASSUME NEW x \in SessionId, x \notin ActiveOf(a)
        PROVE  cache'[x] = cache[x] /\ persisting'[x] = persisting[x]
    BY <1>1 DEF close_sessions_for_agent
  <1>2. ASSUME NEW x \in SessionId, x \in ActiveOf(a)
        PROVE  /\ cache[x] # NoSession /\ cache[x].status = "Active"
               /\ cache[x] \in TaskSessions
               /\ cache'[x] = [cache[x] EXCEPT !.status = "Closed"]
               /\ persisting'[x] = domain_to_stored(cache'[x])
    BY <1>2 DEF close_sessions_for_agent, ActiveOf, StorageInv, TypeOK
  <1>3. ASSUME NEW x \in SessionId, x \in ActiveOf(a)
        PROVE  /\ cache'[x] \in TaskSessions /\ cache'[x].status = "Closed"
               /\ cache'[x].calls_made = cache[x].calls_made
               /\ cache'[x].call_budget = cache[x].call_budget
               /\ cache'[x].time_limit = cache[x].time_limit
               /\ cache'[x].created_at = cache[x].created_at
    <2> DEFINE old == cache[x]
    <2>1. old \in TaskSessions /\ cache'[x] = [old EXCEPT !.status = "Closed"]
      BY <1>2, <1>3
    <2>2. "Closed" \in SessionStatus
      BY DEF SessionStatus
    <2> SUFFICES /\ cache'[x] \in TaskSessions /\ cache'[x].status = "Closed"
                 /\ cache'[x].calls_made = old.calls_made
                 /\ cache'[x].call_budget = old.call_budget
                 /\ cache'[x].time_limit = old.time_limit
                 /\ cache'[x].created_at = old.created_at
      OBVIOUS
    <2> HIDE DEF old
    <2> QED BY <2>1, <2>2, StatusType
  <1>4. ASSUME NEW x \in SessionId, x \in ActiveOf(a)
        PROVE  /\ persisting'[x] \in StoredSessions /\ persisting'[x] # NoRow
               /\ persisting'[x].status = "Closed"
               /\ persisting'[x].calls_made = cache[x].calls_made
               /\ persisting'[x].call_budget = cache[x].call_budget
               /\ persisting'[x].time_limit = cache[x].time_limit
               /\ persisting'[x].created_at = cache[x].created_at
    <2> DEFINE new == cache'[x]
    <2>1. new \in TaskSessions
      BY <1>3, <1>4
    <2>2. persisting'[x] = domain_to_stored(new)
      BY <1>2, <1>4
    <2>3. /\ new.status = "Closed" /\ new.calls_made = cache[x].calls_made
          /\ new.call_budget = cache[x].call_budget /\ new.time_limit = cache[x].time_limit
          /\ new.created_at = cache[x].created_at
      BY <1>3, <1>4
    <2> HIDE DEF new
    <2> QED BY <2>1, <2>2, <2>3, ToStoredType
  <1>5. TypeOK'
    <2>1. /\ DOMAIN cache' = SessionId /\ DOMAIN persisting' = SessionId
          /\ cache' = [x \in SessionId |-> cache'[x]]
          /\ persisting' = [x \in SessionId |-> persisting'[x]]
      BY DEF close_sessions_for_agent
    <2>2. ASSUME NEW x \in SessionId
          PROVE  /\ cache'[x] \in TaskSessions \cup {NoSession}
                 /\ persisting'[x] \in StoredSessions \cup {NoRow}
      <3>1. CASE x \in ActiveOf(a)
        BY <3>1, <1>3, <1>4
      <3>2. CASE x \notin ActiveOf(a)
        BY <3>2, <1>1 DEF StorageInv, TypeOK
      <3> QED BY <3>1, <3>2
    <2>3. /\ cache' \in [SessionId -> TaskSessions \cup {NoSession}]
          /\ persisting' \in [SessionId -> StoredSessions \cup {NoRow}]
      BY <2>1, <2>2
    <2> QED BY <2>3 DEF close_sessions_for_agent, StorageInv, TypeOK, lateVars
  <1>6. ASSUME NEW x \in SessionId PROVE SessionInv(x)'
    <2>0. /\ SessionInv(x)
          /\ UNCHANGED <<now, storage, creating, created, granted, closed, faults>>
          /\ UNCHANGED <<stray, spent, overtaken, refunded>>
      BY DEF StorageInv, close_sessions_for_agent, lateVars
    <2>1. CASE x \in ActiveOf(a)
      <3>1. creating[x] = NoSession
        BY <1>2, <2>0, <2>1 DEF SessionInv, CreatingAlone
      <3>2. CopiesFit(x)'
        BY <1>2, <1>3, <1>4, <2>0, <2>1, <3>1, ZenonT(30) DEF SessionInv, CopiesFit, Fits, MadeFor
      <3>3. TableFits(x)'
        BY <1>2, <1>3, <2>0, <2>1 DEF SessionInv, TableFits
      <3>4. ClosingFits(x)'
        BY <1>2, <1>3, <1>4, <2>0, <2>1 DEF ClosingFits, SessionInv, TableFits
      <3>5. ClosedInTable(x)'
        BY <1>2, <1>3, <2>0, <2>1 DEF SessionInv, ClosedInTable
      <3>6. StraysFit(x)'
        <4>1. /\ StraysFit(x)
              /\ cache[x] # NoSession /\ cache'[x].created_at = cache[x].created_at
              /\ cache'[x].status # "Active"
          BY <1>2, <1>3, <2>0, <2>1 DEF SessionInv
        <4> QED BY <2>0, <4>1, StraysStay
      <3> QED
        BY <2>0, <3>1, <3>2, <3>3, <3>4, <3>5, <3>6
           DEF SessionInv, CreatingAlone, IssuedOrUnused, SpentFits
    <2>2. CASE x \notin ActiveOf(a)
      BY <1>1, <2>0, <2>2, FrameInv
    <2> QED BY <2>1, <2>2
  <1> QED BY <1>5, <1>6 DEF StorageInv

(* A row set aside is written, or the write is lost.                       *)
LEMMA PersistClosureInv ==
    ASSUME StorageInv, NEW s \in SessionId, NEW persist \in Outcome,
           persist_closure(s, persist)
    PROVE  StorageInv'
  <1> DEFINE row == persisting[s]
  <1>1. /\ row # NoRow /\ row \in StoredSessions
        /\ storage' = IF storage[s] # NoRow /\ persist = "ok"
                      THEN [storage EXCEPT ![s] = row] ELSE storage
        /\ Leave(UpdateOf(s, row), persist)
        /\ persisting' = [persisting EXCEPT ![s] = NoRow]
        /\ closed' \in {closed, closed \cup {s}}
        /\ faults' = (faults \/ persist # "ok")
        /\ UNCHANGED <<now, cache, creating, created, granted, spent, overtaken, refunded>>
    BY DEF persist_closure, update_session, Note, StorageInv, TypeOK, lateVars
  <1>2. TypeOK'
    <2>1. stray' \subseteq Statements
      BY <1>1, UpdateOfType DEF Leave, StorageInv, TypeOK
    <2> QED BY <1>1, <2>1 DEF StorageInv, TypeOK
  <1>3. ASSUME NEW x \in SessionId PROVE SessionInv(x)'
    <2>1. CASE x = s
      <3>1. SessionInv(s)
        BY DEF StorageInv
      <3>2. /\ creating[s] = NoSession /\ row.status = "Closed" /\ Fits(s, row)
            /\ cache[s] # NoSession => row = domain_to_stored(cache[s])
        BY <1>1, <3>1 DEF SessionInv, CreatingAlone, ClosingFits, CopiesFit
      <3>3. /\ storage'[s] \in {storage[s], row} /\ persisting'[s] = NoRow
            /\ storage[s] = NoRow => storage'[s] = NoRow
            /\ ~faults' => storage'[s] \in {NoRow, row}
            /\ faults => faults'
        BY <1>1 DEF StorageInv, TypeOK
      <3>4. cache[s] # NoSession =>
              /\ cache[s] \in TaskSessions /\ cache[s].time_limit \in Nat
              /\ row.time_limit = cache[s].time_limit
              /\ row.created_at = cache[s].created_at
              /\ cache[s].status = "Closed"
        <4>1. cache[s] # NoSession => cache[s] \in TaskSessions
          BY DEF StorageInv, TypeOK
        <4>2. ASSUME cache[s] \in TaskSessions PROVE cache[s].time_limit \in Nat
          BY <4>2 DEF TaskSessions
        <4> QED BY <3>2, <4>1, <4>2, ToStoredType
      <3> HIDE DEF row
      <3>5. CopiesFit(s)'
        BY <1>1, <3>1, <3>2, <3>3 DEF SessionInv, CopiesFit, Fits, MadeFor
      <3>6. TableFits(s)'
        BY <1>1, <3>1, <3>3, <3>4 DEF SessionInv, TableFits
      <3>7. ClosedInTable(s)'
        BY <1>1, <3>2, <3>3, <3>4 DEF ClosedInTable, Fits, MadeFor
      <3>8. StraysFit(s)'
        <4>1. /\ MadeFor(row, created[s]) /\ created[s] # NoRequest /\ StraysFit(s)
          BY <3>1, <3>2 DEF Fits, SessionInv
        <4>2. storage'[s] # NoRow =>
                /\ storage[s] # NoRow
                /\ storage'[s].created_at = storage[s].created_at
                /\ storage'[s].created_at = row.created_at
          BY <1>1, <3>1, <3>3 DEF SessionInv, ClosingFits, row
        <4> QED BY <1>1, <3>2, <3>4, <4>1, <4>2, LeaveInv
      <3> QED
        BY <1>1, <2>1, <3>1, <3>2, <3>3, <3>5, <3>6, <3>7, <3>8
           DEF SessionInv, CreatingAlone, ClosingFits, IssuedOrUnused, SpentFits
    <2>2. CASE x # s
      <3>1. \A st : st.id = x => (st \in stray' <=> st \in stray)
        BY <1>1, <2>2, LeaveOthers DEF UpdateOf
      <3> QED BY <1>1, <2>2, <3>1, FrameInv DEF StorageInv, TypeOK
    <2> QED BY <2>1, <2>2
  <1> QED BY <1>2, <1>3 DEF StorageInv

(* cleanup_expired forgets records and rows, and changes none.             *)
LEMMA CleanupInv ==
    ASSUME StorageInv, NEW persist \in Outcome, cleanup_expired(persist)
    PROVE  StorageInv'
  <1>1. TypeOK'
    BY DEF cleanup_expired, delete_expired_sessions, Note, StorageInv, TypeOK, lateVars
  <1>2. ASSUME NEW x \in SessionId PROVE SessionInv(x)'
    <2>1. /\ cache'[x] \in {cache[x], NoSession}
          /\ storage'[x] \in {storage[x], NoRow}
          /\ faults => faults'
          /\ UNCHANGED <<creating, persisting, created, granted, closed>>
          /\ UNCHANGED <<stray, spent, overtaken, refunded>>
      BY DEF cleanup_expired, delete_expired_sessions, Note, StorageInv, TypeOK, lateVars
    <2>2. SessionInv(x)
      BY DEF StorageInv
    <2>3. StraysFit(x)'
      BY <2>1, <2>2, StraysStay DEF SessionInv
    <2> QED
      BY <2>1, <2>2, <2>3
         DEF SessionInv, CopiesFit, Fits, MadeFor, TableFits, CreatingAlone, ClosingFits,
             ClosedInTable, IssuedOrUnused, SpentFits
  <1> QED BY <1>1, <1>2 DEF StorageInv

(* A restart: the cache is the table reloaded, and nothing is in flight.   *)
LEMMA RestartInv ==
    ASSUME StorageInv, restart
    PROVE  StorageInv'
  <1>1. ASSUME NEW x \in SessionId, storage[x] # NoRow
        PROVE  /\ cache'[x] = stored_to_domain(storage[x])
               /\ storage[x] \in StoredSessions
               /\ storage[x].time_limit <= MaxTimeLimit
    <2>1. storage[x] \in StoredSessions /\ SessionInv(x)
      BY <1>1 DEF StorageInv, TypeOK
    <2>2. created[x] \in Requests /\ storage[x].time_limit = created[x].time_limit
      BY <1>1, <2>1 DEF SessionInv, CopiesFit, Fits, MadeFor, IssuedOrUnused
    <2> QED BY <1>1, <2>1, <2>2, LimitAssumption DEF restart
  <1>2. ASSUME NEW x \in SessionId, storage[x] # NoRow
        PROVE  /\ cache'[x] \in TaskSessions /\ cache'[x] # NoSession
               /\ cache'[x].call_budget = storage[x].call_budget
               /\ cache'[x].calls_made = storage[x].calls_made
               /\ cache'[x].time_limit = storage[x].time_limit
               /\ cache'[x].created_at = storage[x].created_at
               /\ cache'[x].status = storage[x].status
    <2>1. stored_to_domain(storage[x]).time_limit = storage[x].time_limit
      BY <1>1, <1>2, RoundTrip
    <2> QED BY <1>1, <1>2, <2>1, ToDomainType
  <1>3. ASSUME NEW x \in SessionId, storage[x] = NoRow
        PROVE  cache'[x] = NoSession
    BY <1>3 DEF restart
  <1>4. TypeOK'
    <2>1. cache' \in [SessionId -> TaskSessions \cup {NoSession}]
      BY <1>2, <1>3 DEF restart
    <2> QED BY <2>1 DEF restart, StorageInv, TypeOK, lateVars
  <1>5. ASSUME NEW x \in SessionId PROVE SessionInv(x)'
    <2>1. /\ SessionInv(x)
          /\ creating'[x] = NoSession /\ persisting'[x] = NoRow /\ stray' = {}
          /\ UNCHANGED <<storage, created, granted, closed, faults>>
          /\ UNCHANGED <<spent, overtaken, refunded>>
      BY DEF StorageInv, restart, lateVars
    <2>2. CASE storage[x] = NoRow
      BY <1>3, <2>1, <2>2
         DEF SessionInv, CopiesFit, Fits, MadeFor, TableFits, CreatingAlone, ClosingFits,
             ClosedInTable, IssuedOrUnused, StraysFit, SpentFits
    <2>3. CASE storage[x] # NoRow
      <3>1. CopiesFit(x)'
        BY <1>2, <2>1, <2>3 DEF SessionInv, CopiesFit, Fits, MadeFor
      <3>2. TableFits(x)' /\ ClosedInTable(x)'
        BY <1>2, <2>1, <2>3 DEF SessionInv, TableFits, ClosedInTable
      <3> QED
        BY <2>1, <3>1, <3>2
           DEF SessionInv, CreatingAlone, ClosingFits, IssuedOrUnused, StraysFit, SpentFits
    <2> QED BY <2>2, <2>3
  <1> QED BY <1>4, <1>5 DEF StorageInv

(* A stray INSERT lands: nothing else is known of its session.             *)
LEMMA StrayInsertInv ==
    ASSUME StorageInv, NEW ins \in stray, stray_insert(ins)
    PROVE  StorageInv'
  <1> DEFINE s == ins.id
  <1>1. /\ s \in SessionId /\ ins.row \in StoredSessions /\ ins.row # NoRow
        /\ ins.req \in CreateSessionRequest \cup {NoRequest}
    BY StorageAssumption DEF StorageInv, TypeOK, Statements
  <1>2. /\ ins.req # NoRequest
        /\ stray' = stray \ {ins}
        /\ created' = [created EXCEPT ![s] = ins.req]
        /\ storage' = [storage EXCEPT ![s] = ins.row]
        /\ UNCHANGED <<now, cache, creating, persisting, granted, closed, faults>>
        /\ UNCHANGED <<spent, overtaken, refunded>>
    BY DEF stray_insert, lateVars
  <1>3. SessionInv(s)
    BY <1>1 DEF StorageInv
  <1>4. /\ created[s] = NoRequest /\ ins.req \in Requests /\ MadeFor(ins.row, ins.req)
        /\ \A other \in stray : other.id = s => other = ins
    BY <1>2, <1>3 DEF SessionInv, StraysFit, StrayFits
  <1> HIDE DEF s
  <1>5. TypeOK'
    BY <1>1, <1>2 DEF StorageInv, TypeOK
  <1>6. ASSUME NEW x \in SessionId PROVE SessionInv(x)'
    <2>1. CASE x = s
      <3>1. /\ cache[s] = NoSession /\ creating[s] = NoSession /\ persisting[s] = NoRow
            /\ granted[s] = 0 /\ s \notin closed
        BY <1>3, <1>4, SessionAssumption
           DEF SessionInv, CopiesFit, Fits, ClosedInTable, IssuedOrUnused
      <3>2. /\ storage'[s] = ins.row /\ created'[s] = ins.req
            /\ cache'[s] = NoSession /\ creating'[s] = NoSession /\ persisting'[s] = NoRow
            /\ granted'[s] = 0 /\ s \notin closed'
            /\ refunded'[s] = refunded[s] /\ spent'[s] = spent[s] /\ overtaken' = overtaken
            /\ refunded[s] \in Nat
        BY <1>1, <1>2, <3>1 DEF StorageInv, TypeOK
      <3>3. StraysFit(s)'
        BY <1>2, <1>4 DEF StraysFit
      <3>4. Fits(s, storage[s])'
        <4>1. ins.row.calls_made \in Nat
          BY <1>1 DEF StoredSessions
        <4> QED BY <1>2, <1>4, <3>2, <4>1 DEF Fits, MadeFor
      <3>5. 0 <= ins.req.call_budget + refunded[s]
        <4>1. ins.req.call_budget \in Nat
          BY <1>4, SessionAssumption DEF CreateSessionRequest
        <4> QED BY <3>2, <4>1
      <3>6. SpentFits(s)'
        BY <1>2, <1>3, <3>1, <3>2 DEF SessionInv, SpentFits
      <3> QED
        BY <1>2, <1>4, <2>1, <3>2, <3>3, <3>4, <3>5, <3>6
           DEF SessionInv, CopiesFit, TableFits, CreatingAlone, ClosingFits,
               ClosedInTable, IssuedOrUnused
    <2>2. CASE x # s
      <3>1. \A st : st.id = x => (st \in stray' <=> st \in stray)
        BY <1>2, <2>2 DEF s
      <3> QED BY <1>2, <2>2, <3>1, FrameInv DEF StorageInv, TypeOK
    <2> QED BY <2>1, <2>2
  <1> QED BY <1>5, <1>6 DEF StorageInv

(* A stray UPDATE lands: what it takes off the row is refunded.            *)
LEMMA StrayUpdateInv ==
    ASSUME StorageInv, NEW upd \in stray, stray_update(upd)
    PROVE  StorageInv'
  <1> DEFINE s == upd.id
             old == storage[s]
             row == upd.row
  <1>1. s \in SessionId /\ row \in StoredSessions /\ row # NoRow
    BY StorageAssumption DEF StorageInv, TypeOK, Statements
  <1>2. /\ upd.req = NoRequest
        /\ stray' = stray \ {upd}
        /\ old # NoRow
        /\ storage' = [storage EXCEPT ![s] = row]
        /\ overtaken' = IF SetsBack(old, row) THEN overtaken \cup {s} ELSE overtaken
        /\ refunded' = IF row.calls_made < old.calls_made
                       THEN [refunded EXCEPT ![s] = refunded[s] + (old.calls_made - row.calls_made)]
                       ELSE refunded
        /\ UNCHANGED <<now, cache, creating, persisting, created, granted, closed, faults>>
        /\ UNCHANGED spent
    BY DEF stray_update
  <1>3. SessionInv(s) /\ old \in StoredSessions
    BY <1>1, <1>2 DEF StorageInv, TypeOK
  <1>4. faults /\ StrayFits(s, upd)
    BY <1>3 DEF SessionInv, StraysFit
  <1>5. /\ row.calls_made \in Nat /\ old.calls_made \in Nat
        /\ refunded[s] \in Nat /\ granted[s] \in Nat
    BY <1>1, <1>3 DEF StoredSessions, StorageInv, TypeOK
  <1>6. /\ created[s] # NoRequest /\ MadeFor(row, created[s])
        /\ creating[s] = NoSession
        /\ row.created_at = old.created_at
        /\ cache[s] # NoSession =>
              /\ row.created_at = cache[s].created_at
              /\ cache[s].status = "Active" => row.status = "Active"
    BY <1>2, <1>4 DEF StrayFits
  <1>7. old = storage[s]
    OBVIOUS
  <1> HIDE DEF s, old, row
  <1>8. /\ refunded'[s] \in Nat /\ refunded[s] <= refunded'[s]
        /\ old.calls_made + refunded[s] <= row.calls_made + refunded'[s]
        /\ ~SetsBack(old, row) => refunded'[s] = refunded[s]
    <2>1. CASE row.calls_made < old.calls_made
      <3>1. refunded'[s] = refunded[s] + (old.calls_made - row.calls_made)
        BY <1>1, <1>2, <2>1 DEF StorageInv, TypeOK
      <3> QED BY <1>5, <2>1, <3>1 DEF SetsBack
    <2>2. CASE ~(row.calls_made < old.calls_made)
      BY <1>2, <1>5, <2>2
    <2> QED BY <2>1, <2>2
  <1>9. ASSUME NEW x \in SessionId, x # s
        PROVE  refunded'[x] = refunded[x] /\ (x \in overtaken' <=> x \in overtaken)
    BY <1>2, <1>9 DEF StorageInv, TypeOK
  <1>10. TypeOK'
    <2>1. refunded' \in [SessionId -> Nat]
      <3>1. CASE row.calls_made < old.calls_made
        <4>1. refunded[s] + (old.calls_made - row.calls_made) \in Nat
          BY <1>5, <3>1
        <4> QED BY <1>2, <3>1, <4>1 DEF StorageInv, TypeOK
      <3>2. CASE ~(row.calls_made < old.calls_made)
        BY <1>2, <3>2 DEF StorageInv, TypeOK
      <3> QED BY <3>1, <3>2
    <2>2. overtaken' \subseteq SessionId
      BY <1>1, <1>2 DEF StorageInv, TypeOK
    <2> QED BY <1>1, <1>2, <2>1, <2>2 DEF StorageInv, TypeOK
  <1>11. ASSUME NEW x \in SessionId PROVE SessionInv(x)'
    <2>1. CASE x = s
      <3>1. /\ storage'[s] = row
            /\ UNCHANGED <<cache, creating, persisting, created, granted, closed, faults>>
            /\ UNCHANGED spent
        BY <1>1, <1>2 DEF StorageInv, TypeOK
      <3>2. ASSUME NEW copy, Fits(s, copy), copy.calls_made \in Nat
            PROVE  Fits(s, copy)'
        BY <1>5, <1>8, <3>1, <3>2 DEF Fits, MadeFor
      <3>3. /\ cache[s] # NoSession => cache[s].calls_made \in Nat
            /\ persisting[s] # NoRow => persisting[s].calls_made \in Nat
        BY <1>1 DEF StorageInv, TypeOK, TaskSessions, StoredSessions
      <3>4. Fits(s, storage[s])'
        <4>1. granted[s] <= old.calls_made + refunded[s]
          BY <1>2, <1>3, <1>7 DEF SessionInv, CopiesFit, Fits
        <4>2. granted[s] <= row.calls_made + refunded'[s]
          BY <1>5, <1>8, <4>1
        <4> QED BY <1>6, <3>1, <4>2 DEF Fits, MadeFor
      <3>5. CopiesFit(s)'
        BY <1>3, <1>6, <3>1, <3>2, <3>3, <3>4 DEF SessionInv, CopiesFit
      <3>6. TableFits(s)'
        BY <1>6, <3>1 DEF TableFits
      <3>7. StraysFit(s)'
        <4>1. StraysFit(s)
          BY <1>3 DEF SessionInv
        <4> QED BY <1>2, <1>6, <1>7, <3>1, <4>1, StraysStay
      <3>8. SpentFits(s)'
        BY <1>2, <1>3, <1>8, <3>1 DEF SessionInv, SpentFits
      <3>9. ClosingFits(s)'
        BY <1>2, <1>3, <1>6, <1>7, <3>1 DEF SessionInv, ClosingFits
      <3>10. created[s] # NoRequest => granted[s] <= created[s].call_budget + refunded'[s]
        <4>1. created[s].call_budget \in Nat
          BY <1>1, <1>6 DEF StorageInv, TypeOK, CreateSessionRequest
        <4>2. granted[s] <= created[s].call_budget + refunded[s]
          BY <1>3, <1>6 DEF SessionInv
        <4> QED BY <1>5, <1>8, <4>1, <4>2
      <3> QED
        BY <1>3, <1>4, <1>6, <2>1, <3>1, <3>5, <3>6, <3>7, <3>8, <3>9, <3>10
           DEF SessionInv, CreatingAlone, ClosedInTable, IssuedOrUnused
    <2>2. CASE x # s
      <3>1. \A st : st.id = x => (st \in stray' <=> st \in stray)
        BY <1>2, <2>2 DEF s
      <3> QED BY <1>2, <1>9, <2>2, <3>1, FrameInv DEF StorageInv, TypeOK
    <2> QED BY <2>1, <2>2
  <1> QED BY <1>10, <1>11 DEF StorageInv

(* A stray statement comes to nothing.                                     *)
LEMMA StrayFailsInv ==
    ASSUME StorageInv, NEW old \in stray, stray_fails(old)
    PROVE  StorageInv'
  <1>1. /\ stray' = stray \ {old}
        /\ UNCHANGED <<now, cache, storage, creating, persisting, created, granted, closed, faults>>
        /\ UNCHANGED <<spent, overtaken, refunded>>
    BY DEF stray_fails, lateVars
  <1>2. TypeOK'
    BY <1>1 DEF StorageInv, TypeOK
  <1>3. ASSUME NEW x \in SessionId PROVE SessionInv(x)'
    <2>1. SessionInv(x)
      BY DEF StorageInv
    <2>2. StraysFit(x)'
      BY <1>1, <2>1, StraysStay DEF SessionInv
    <2> QED
      BY <1>1, <2>1, <2>2
         DEF SessionInv, CopiesFit, Fits, MadeFor, TableFits, CreatingAlone, ClosingFits,
             ClosedInTable, IssuedOrUnused, SpentFits
  <1> QED BY <1>2, <1>3 DEF StorageInv

(* A session a use lets through is Active, and is charged for calls it has *)
(* room for.                                                               *)
LEMMA UseCharges ==
    ASSUME StorageInv, NEW s \in SessionId, NEW persist \in Outcome,
           NEW caller \in Agent \cup {NoAgent},
           \/ \E tool \in Tool : use_session(s, tool, caller, persist)
           \/ \E tools \in Batches : use_session_batch(s, tools, caller, persist)
    PROVE  \E n \in Nat \ {0} :
              /\ cache[s] # NoSession
              /\ cache[s].status = "Active"
              /\ ~is_expired(cache[s], now)
              /\ cache[s].calls_made + n <= cache[s].call_budget
              /\ Charge(s, n, persist)
  <1>1. ASSUME cache[s] # NoSession
        PROVE  /\ cache[s].calls_made \in Nat /\ cache[s].call_budget \in Nat
               /\ cache[s].status \in SessionStatus
    BY <1>1 DEF StorageInv, TypeOK, TaskSessions
  <1>2. CASE \E tool \in Tool : use_session(s, tool, caller, persist)
    <2>1. /\ cache[s] # NoSession /\ cache[s].status # "Closed"
          /\ ~is_expired(cache[s], now) /\ ~is_budget_exceeded(cache[s])
          /\ Charge(s, 1, persist)
      BY <1>2 DEF use_session, Accepts, Reachable
    <2>2. cache[s].calls_made + 1 <= cache[s].call_budget
      BY <1>1, <2>1 DEF is_budget_exceeded
    <2>3. cache[s].status = "Active"
      BY <1>1, <2>1 DEF is_expired, SessionStatus
    <2> QED BY <2>1, <2>2, <2>3
  <1>3. CASE \E tools \in Batches : use_session_batch(s, tools, caller, persist)
    <2>1. PICK tools \in Batches : use_session_batch(s, tools, caller, persist)
      BY <1>3
    <2>2. Len(tools) \in Nat \ {0}
      BY SessionAssumption
    <2>3. /\ cache[s] # NoSession /\ cache[s].status # "Closed"
          /\ ~is_expired(cache[s], now)
          /\ cache[s].calls_made + Len(tools) <= cache[s].call_budget
          /\ Charge(s, Len(tools), persist)
      BY <2>1 DEF use_session_batch, AcceptsBatch, Reachable
    <2>4. cache[s].status = "Active"
      BY <1>1, <2>3 DEF is_expired, SessionStatus
    <2> QED BY <2>2, <2>3, <2>4
  <1> QED BY <1>2, <1>3

(* The ways an operation can move the store, one disjunct of Next each.    *)
LEMMA NextStorageInv == StorageInv /\ [Next]_vars => StorageInv'
  <1> SUFFICES ASSUME StorageInv, [Next]_vars PROVE StorageInv'
    OBVIOUS
  <1>1. CASE Tick
    <2>1. TypeOK'
      BY <1>1 DEF Tick, StorageInv, TypeOK, lateVars
    <2>2. ASSUME NEW x \in SessionId PROVE SessionInv(x)'
      BY <1>1, FrameInv DEF Tick, StorageInv, lateVars
    <2> QED BY <2>1, <2>2 DEF StorageInv
  <1>2. CASE restart
    BY <1>2, RestartInv
  <1>3. ASSUME NEW s \in SessionId, create_cache(s) PROVE StorageInv'
    BY <1>3, CreateCacheInv
  <1>4. ASSUME NEW a \in Agent, close_sessions_for_agent(a) PROVE StorageInv'
    BY <1>4, CloseAllInv
  <1>5. ASSUME NEW persist \in Outcome, NEW s \in SessionId, NEW req \in Requests,
               create_insert(s, req, persist) \/ create_if_under_cap(s, req, persist)
        PROVE  StorageInv'
    BY <1>5, InsertInv
  <1>6. ASSUME NEW persist \in Outcome, NEW s \in SessionId,
               NEW caller \in Agent \cup {NoAgent},
               \/ \E tool \in Tool : use_session(s, tool, caller, persist)
               \/ \E tools \in Batches : use_session_batch(s, tools, caller, persist)
        PROVE  StorageInv'
    BY <1>6, UseCharges, ChargeInv
  <1>7. ASSUME NEW persist \in Outcome, NEW s \in SessionId,
               NEW caller \in Agent \cup {NoAgent}, use_expired(s, caller, persist)
        PROVE  StorageInv'
    BY <1>7, SetStatusInv DEF use_expired, Overdue, Reachable
  <1>8. ASSUME NEW persist \in Outcome, NEW s \in SessionId, close(s, persist)
        PROVE  StorageInv'
    BY <1>8, SetStatusInv DEF close
  <1>9. ASSUME NEW persist \in Outcome, NEW s \in SessionId, persist_closure(s, persist)
        PROVE  StorageInv'
    BY <1>9, PersistClosureInv
  <1>10. ASSUME NEW persist \in Outcome, cleanup_expired(persist) PROVE StorageInv'
    BY <1>10, CleanupInv
  <1>11. CASE UNCHANGED vars
    <2>1. TypeOK'
      BY <1>11 DEF vars, StorageInv, TypeOK
    <2>2. ASSUME NEW x \in SessionId PROVE SessionInv(x)'
      BY <1>11, FrameInv DEF vars, StorageInv
    <2> QED BY <2>1, <2>2 DEF StorageInv
  <1>12. ASSUME NEW st \in stray, stray_insert(st) \/ stray_update(st) \/ stray_fails(st)
         PROVE  StorageInv'
    BY <1>12, StrayInsertInv, StrayUpdateInv, StrayFailsInv
  <1>13. {"ok", "failed"} \subseteq Outcome
    BY DEF Outcome
  <1> QED
    BY <1>1, <1>2, <1>3, <1>4, <1>5, <1>6, <1>7, <1>8, <1>9, <1>10, <1>11, <1>12, <1>13
       DEF Next

(* StorageInv is an invariant of every instance of the store.              *)
THEOREM StorageInvariant == Spec => []StorageInv
  BY InitStorageInv, NextStorageInv, PTL DEF Spec

(* Over any failures, dropped requests and restarts, a session is granted  *)
(* no more calls than the budget it was created with and those that late   *)
(* writes took off its row.                                                *)
THEOREM StorageBudgetSafety == Spec => []BudgetRespected
  <1>1. StorageInv => BudgetRespected
    BY DEF StorageInv, SessionInv, BudgetRespected
  <1> QED BY <1>1, StorageInvariant, PTL

(* Short of a fault, a session whose closing was answered is not Active    *)
(* again, however often the process restarts.                              *)
THEOREM ClosureSafety == Spec => []ClosedSurvivesRestart
  <1>1. StorageInv => ClosedSurvivesRestart
    BY DEF StorageInv, TypeOK, SessionInv, ClosedInTable, ClosedSurvivesRestart, ClosedStaysClosed
  <1> QED BY <1>1, StorageInvariant, PTL

-----------------------------------------------------------------------------
(* Durability: DurableInv is inductive relative to StorageInv.             *)

(* Time only brings deadlines closer.                                      *)
LEMMA ExpiryMonotone ==
    ASSUME NEW copy, copy.created_at \in Nat, copy.time_limit \in Nat,
           NEW t \in Nat, NEW u \in Nat, t <= u, ~is_expired(copy, u)
    PROVE  ~is_expired(copy, t)
  BY DEF is_expired

(* What RowPresent says of a session an operation does not touch.          *)
LEMMA FrameRow ==
    ASSUME StorageInv, NEW x \in SessionId, RowPresent(x),
           cache'[x] = cache[x], storage'[x] = storage[x], creating'[x] = creating[x],
           persisting'[x] = persisting[x],
           now' \in Nat, now <= now'
    PROVE  RowPresent(x)'
  <1>1. /\ now \in Nat
        /\ cache[x] # NoSession => cache[x].created_at \in Nat /\ cache[x].time_limit \in Nat
        /\ creating[x] # NoSession => creating[x].created_at \in Nat /\ creating[x].time_limit \in Nat
    BY DEF StorageInv, TypeOK, TaskSessions
  <1> QED BY <1>1, ExpiryMonotone DEF RowPresent

(* The operations that say Expired, and the ones that carry it along.      *)
LEMMA NextExpired ==
    ASSUME StorageInv, DurableInv, [Next]_vars, NEW x \in SessionId
    PROVE  ExpiredIsOverdue(x)'
  <1>0. /\ now \in Nat
        /\ cache[x] \in TaskSessions \cup {NoSession}
        /\ creating[x] \in TaskSessions \cup {NoSession}
        /\ storage[x] \in StoredSessions \cup {NoRow}
        /\ SessionInv(x) /\ ExpiredIsOverdue(x)
    BY DEF StorageInv, TypeOK, DurableInv
  <1>a. /\ cache[x] # NoSession => cache[x].created_at \in Nat /\ cache[x].time_limit \in Nat
        /\ storage[x] # NoRow => storage[x].created_at \in Nat /\ storage[x].time_limit \in Nat
        /\ \A st \in stray : st.row.created_at \in Nat /\ st.row.time_limit \in Nat
    BY <1>0 DEF TaskSessions, StoredSessions, StorageInv, TypeOK, Statements
  <1>b. ASSUME cache'[x] = cache[x], storage'[x] = storage[x], creating'[x] = creating[x],
               now' \in Nat, now <= now', stray' \subseteq stray
        PROVE  ExpiredIsOverdue(x)'
    BY <1>0, <1>a, <1>b DEF ExpiredIsOverdue
  <1>c. ASSUME NEW row, NEW req, NEW s, NEW persist, now' = now,
               Leave([id |-> s, row |-> row, req |-> req], persist),
               row.status = "Expired" => now - row.created_at > row.time_limit
        PROVE  \A st \in stray' : (st.id = x /\ st.row.status = "Expired") =>
                  now' - st.row.created_at > st.row.time_limit
    <2> SUFFICES ASSUME NEW st \in stray', st.id = x, st.row.status = "Expired"
                 PROVE  now' - st.row.created_at > st.row.time_limit
      OBVIOUS
    <2>1. CASE st \in stray
      BY <1>0, <1>c, <2>1 DEF ExpiredIsOverdue
    <2>2. CASE st \notin stray
      <3>1. st.row = row
        BY <1>c, <2>2 DEF Leave
      <3> QED BY <1>c, <3>1
    <2> QED BY <2>1, <2>2
  <1>1. CASE Tick
    BY <1>0, <1>1, <1>b DEF Tick
  <1>2. CASE restart
    <2>1. creating'[x] = NoSession /\ storage' = storage /\ now' = now /\ stray' = {}
      BY <1>2 DEF restart
    <2>2. CASE storage[x] = NoRow
      BY <1>2, <2>1, <2>2 DEF restart, ExpiredIsOverdue
    <2>3. CASE storage[x] # NoRow
      <3>1. cache'[x] = stored_to_domain(storage[x]) /\ storage[x] \in StoredSessions
        BY <1>0, <1>2, <2>3 DEF restart
      <3>2. /\ cache'[x].created_at = storage[x].created_at
            /\ cache'[x].time_limit <= storage[x].time_limit
            /\ cache'[x].status = storage[x].status
            /\ cache'[x].time_limit \in Nat
        <4>1. stored_to_domain(storage[x]).time_limit \in Nat
          BY <3>1, ToDomainType DEF TaskSessions
        <4> QED BY <3>1, <4>1, ToDomainType
      <3> QED BY <1>0, <1>a, <2>1, <2>3, <3>2 DEF ExpiredIsOverdue
    <2> QED BY <2>2, <2>3
  <1>3. ASSUME NEW s \in SessionId, create_cache(s) PROVE ExpiredIsOverdue(x)'
    BY <1>0, <1>3 DEF create_cache, StorageInv, TypeOK, ExpiredIsOverdue
  <1>4. ASSUME NEW a \in Agent, close_sessions_for_agent(a) PROVE ExpiredIsOverdue(x)'
    <2>1. CASE x \in ActiveOf(a)
      <3>1. cache[x] \in TaskSessions
        BY <1>0, <2>1 DEF ActiveOf
      <3>2. cache'[x].status = "Closed"
        BY <1>4, <2>1, <3>1 DEF close_sessions_for_agent, TaskSessions
      <3> QED BY <1>0, <1>4, <3>2 DEF close_sessions_for_agent, ExpiredIsOverdue
    <2>2. CASE x \notin ActiveOf(a)
      BY <1>0, <1>4, <1>b, <2>2 DEF close_sessions_for_agent
    <2> QED BY <2>1, <2>2
  <1>5. ASSUME NEW persist \in Outcome, NEW s \in SessionId, NEW req \in Requests,
               create_insert(s, req, persist) \/ create_if_under_cap(s, req, persist)
        PROVE  ExpiredIsOverdue(x)'
    <2> DEFINE new == NewSession(req, req.time_limit, now)
    <2>1. new.status = "Active" /\ domain_to_stored(new).status = "Active"
      BY DEF NewSession, domain_to_stored
    <2>2. /\ storage' \in {storage, [storage EXCEPT ![s] = domain_to_stored(new)]}
          /\ cache' \in {cache, [cache EXCEPT ![s] = new]}
          /\ creating' \in {creating, [creating EXCEPT ![s] = new]}
          /\ now' = now
          /\ Leave([id |-> s, row |-> domain_to_stored(new), req |-> req], persist)
      BY <1>5 DEF create_insert, create_if_under_cap, insert_session
    <2> HIDE DEF new
    <2>4. \A st \in stray' : (st.id = x /\ st.row.status = "Expired") =>
             now' - st.row.created_at > st.row.time_limit
      BY <1>c, <2>1, <2>2
    <2>3. /\ storage'[x] \in {storage[x], domain_to_stored(new)}
          /\ cache'[x] \in {cache[x], new}
          /\ creating'[x] \in {creating[x], new}
      BY <2>2 DEF StorageInv, TypeOK
    <2> QED BY <1>0, <2>1, <2>2, <2>3, <2>4 DEF ExpiredIsOverdue
  <1>6. ASSUME NEW persist \in Outcome, NEW s \in SessionId,
               NEW caller \in Agent \cup {NoAgent},
               \/ \E tool \in Tool : use_session(s, tool, caller, persist)
               \/ \E tools \in Batches : use_session_batch(s, tools, caller, persist)
        PROVE  ExpiredIsOverdue(x)'
    <2>1. PICK n \in Nat \ {0} :
             cache[s] # NoSession /\ cache[s].status = "Active" /\ Charge(s, n, persist)
      BY <1>6, UseCharges
    <2> DEFINE new == Charged(cache[s], n, now)
    <2>2. /\ cache' = [cache EXCEPT ![s] = new]
          /\ storage' \in {storage, [storage EXCEPT ![s] = domain_to_stored(new)]}
          /\ UNCHANGED <<now, creating>>
          /\ Leave([id |-> s, row |-> domain_to_stored(new), req |-> NoRequest], persist)
      BY <2>1 DEF Charge, update_session, UpdateOf
    <2>3. new.status = "Active" /\ domain_to_stored(new).status = "Active"
      <3>1. cache[s] \in TaskSessions
        BY <2>1 DEF StorageInv, TypeOK
      <3>2. new \in TaskSessions /\ new.status = cache[s].status
        BY <1>0, <3>1, ChargedType, SMTT(30)
      <3> QED BY <2>1, <3>2, ToStoredType
    <2> HIDE DEF new
    <2>4. cache'[x] \in {cache[x], new} /\ storage'[x] \in {storage[x], domain_to_stored(new)}
      BY <2>2 DEF StorageInv, TypeOK
    <2>5. \A st \in stray' : (st.id = x /\ st.row.status = "Expired") =>
             now' - st.row.created_at > st.row.time_limit
      BY <1>c, <2>2, <2>3
    <2> QED BY <1>0, <2>2, <2>3, <2>4, <2>5 DEF ExpiredIsOverdue
  <1>7. ASSUME NEW persist \in Outcome, NEW s \in SessionId, NEW st \in {"Expired", "Closed"},
               cache[s] # NoSession, SetStatus(s, st, persist),
               st = "Expired" => is_expired(cache[s], now)
        PROVE  ExpiredIsOverdue(x)'
    <2> DEFINE new == [cache[s] EXCEPT !.status = st]
    <2>1. /\ cache' = [cache EXCEPT ![s] = new]
          /\ storage' \in {storage, [storage EXCEPT ![s] = domain_to_stored(new)]}
          /\ UNCHANGED <<now, creating>>
          /\ Leave([id |-> s, row |-> domain_to_stored(new), req |-> NoRequest], persist)
      BY <1>7 DEF SetStatus, update_session, UpdateOf
    <2>2. cache[s] \in TaskSessions
      BY <1>7 DEF StorageInv, TypeOK
    <2>3. /\ new.status = st /\ new.created_at = cache[s].created_at
          /\ new.time_limit = cache[s].time_limit
      BY <2>2 DEF TaskSessions
    <2>4. st = "Expired" => now - new.created_at > new.time_limit
      BY <1>7, <2>3 DEF is_expired, DurableInv, ExpiredIsOverdue
    <2>5. /\ domain_to_stored(new).status = st
          /\ domain_to_stored(new).created_at = new.created_at
          /\ domain_to_stored(new).time_limit = new.time_limit
      BY <2>3 DEF domain_to_stored
    <2> HIDE DEF new
    <2>6. cache'[x] \in {cache[x], new} /\ storage'[x] \in {storage[x], domain_to_stored(new)}
      BY <2>1 DEF StorageInv, TypeOK
    <2>7. \A st0 \in stray' : (st0.id = x /\ st0.row.status = "Expired") =>
             now' - st0.row.created_at > st0.row.time_limit
      BY <1>c, <2>1, <2>4, <2>5
    <2> QED BY <1>0, <2>1, <2>3, <2>4, <2>5, <2>6, <2>7 DEF ExpiredIsOverdue
  <1>8. ASSUME NEW persist \in Outcome, NEW s \in SessionId, persist_closure(s, persist)
        PROVE  ExpiredIsOverdue(x)'
    <2>1. /\ storage' \in {storage, [storage EXCEPT ![s] = persisting[s]]}
          /\ persisting[s].status = "Closed"
          /\ UNCHANGED <<now, cache, creating>>
          /\ Leave([id |-> s, row |-> persisting[s], req |-> NoRequest], persist)
      BY <1>8 DEF persist_closure, update_session, StorageInv, SessionInv, ClosingFits, UpdateOf
    <2>2. storage'[x] = storage[x] \/ storage'[x].status = "Closed"
      BY <2>1 DEF StorageInv, TypeOK
    <2>3. \A st \in stray' : (st.id = x /\ st.row.status = "Expired") =>
             now' - st.row.created_at > st.row.time_limit
      BY <1>c, <2>1
    <2> QED BY <1>0, <2>1, <2>2, <2>3 DEF ExpiredIsOverdue
  <1>9. ASSUME NEW persist \in Outcome, cleanup_expired(persist)
        PROVE  ExpiredIsOverdue(x)'
    <2>1. /\ cache'[x] \in {cache[x], NoSession} /\ storage'[x] \in {storage[x], NoRow}
          /\ UNCHANGED <<now, creating, stray>>
      BY <1>9 DEF cleanup_expired, delete_expired_sessions
    <2> QED BY <1>0, <2>1 DEF ExpiredIsOverdue
  <1>10. CASE UNCHANGED vars
    BY <1>0, <1>10, <1>b DEF vars
  <1>11. ASSUME NEW st \in stray, stray_insert(st) \/ stray_update(st) \/ stray_fails(st)
         PROVE  ExpiredIsOverdue(x)'
    <2>1. CASE stray_fails(st)
      BY <1>0, <1>b, <2>1 DEF stray_fails
    <2>2. CASE stray_insert(st) \/ stray_update(st)
      <3>1. /\ storage' = [storage EXCEPT ![st.id] = st.row]
            /\ stray' \subseteq stray
            /\ UNCHANGED <<now, cache, creating>>
        BY <2>2 DEF stray_insert, stray_update
      <3>2. storage'[x] = storage[x] \/ (st.id = x /\ storage'[x] = st.row)
        BY <3>1 DEF StorageInv, TypeOK
      <3> QED BY <1>0, <3>1, <3>2 DEF ExpiredIsOverdue
    <2> QED BY <1>11, <2>1, <2>2
  <1>12. {"ok", "failed"} \subseteq Outcome
    BY DEF Outcome
  <1> QED
    <2>1. ASSUME NEW persist \in Outcome, NEW s \in SessionId,
                 NEW caller \in Agent \cup {NoAgent}, use_expired(s, caller, persist)
          PROVE  ExpiredIsOverdue(x)'
      BY <1>7, <2>1 DEF use_expired, Overdue, Reachable
    <2>2. ASSUME NEW persist \in Outcome, NEW s \in SessionId, close(s, persist)
          PROVE  ExpiredIsOverdue(x)'
      BY <1>7, <2>2 DEF close
    <2> QED
      BY <1>1, <1>2, <1>3, <1>4, <1>5, <1>6, <1>8, <1>9, <1>10, <1>11, <1>12, <2>1, <2>2
         DEF Next

(* Each operation keeps the row of a session within its time.              *)
LEMMA NextRowPresent ==
    ASSUME StorageInv, DurableInv, [Next]_vars, ~faults', NEW x \in SessionId
    PROVE  RowPresent(x)'
  <1> USE DEF Outcome
  <1>0. /\ now \in Nat
        /\ cache[x] \in TaskSessions \cup {NoSession}
        /\ creating[x] \in TaskSessions \cup {NoSession}
        /\ storage[x] \in StoredSessions \cup {NoRow}
        /\ SessionInv(x)
    BY DEF StorageInv, TypeOK
  <1>1. CASE Tick
    <2>1. ~faults /\ now' \in Nat /\ now <= now'
      BY <1>0, <1>1 DEF Tick
    <2> QED BY <1>1, <2>1, FrameRow DEF Tick, DurableInv
  <1>2. CASE restart
    <2>1. creating'[x] = NoSession /\ persisting'[x] = NoRow /\ storage' = storage
      BY <1>2 DEF restart
    <2>2. CASE storage[x] = NoRow
      BY <1>2, <2>1, <2>2 DEF restart, RowPresent
    <2>3. CASE storage[x] # NoRow
      <3>1. cache'[x] = stored_to_domain(storage[x]) /\ storage[x] \in StoredSessions
        BY <1>0, <1>2, <2>3 DEF restart
      <3>2. storage[x].time_limit <= MaxTimeLimit
        <4>1. /\ created[x] \in Requests
              /\ storage[x].time_limit = created[x].time_limit
          BY <1>0, <2>3 DEF SessionInv, CopiesFit, Fits, MadeFor, IssuedOrUnused
        <4>2. /\ created[x].time_limit <= MaxTimeLimit
              /\ created[x].time_limit \in Nat /\ storage[x].time_limit \in Nat
          BY <3>1, <4>1, LimitAssumption, SessionAssumption DEF CreateSessionRequest, StoredSessions
        <4> QED BY <4>1, <4>2, StorageAssumption
      <3> QED BY <2>1, <3>1, <3>2, RoundTrip DEF RowPresent
    <2> QED BY <2>2, <2>3
  <1>3. ASSUME NEW s \in SessionId, create_cache(s) PROVE RowPresent(x)'
    <2>1. ~faults /\ now' = now
      BY <1>3 DEF create_cache
    <2>2. CASE x = s
      <3>1. /\ cache'[x] = creating[x] /\ creating'[x] = NoSession
            /\ creating[x] # NoSession /\ UNCHANGED <<storage, persisting, now>>
        BY <1>3, <2>2 DEF create_cache, StorageInv, TypeOK
      <3>2. persisting[x] = NoRow /\ storage[x] \in {NoRow, domain_to_stored(creating[x])}
        BY <1>0, <3>1 DEF SessionInv, CreatingAlone
      <3> QED BY <2>1, <3>1, <3>2 DEF RowPresent, DurableInv
    <2>3. CASE x # s
      BY <1>0, <1>3, <2>1, <2>3, FrameRow DEF create_cache, StorageInv, TypeOK, DurableInv
    <2> QED BY <2>2, <2>3
  <1>4. ASSUME NEW a \in Agent, close_sessions_for_agent(a) PROVE RowPresent(x)'
    <2>1. ~faults /\ UNCHANGED <<now, storage, creating>>
      BY <1>4 DEF close_sessions_for_agent
    <2>2. CASE x \in ActiveOf(a)
      <3>1. cache[x] # NoSession /\ cache[x] \in TaskSessions /\ cache[x].status = "Active"
        BY <1>0, <2>2 DEF ActiveOf
      <3>2. /\ cache'[x] = [cache[x] EXCEPT !.status = "Closed"]
            /\ persisting'[x] = domain_to_stored(cache'[x])
        BY <1>4, <2>2 DEF close_sessions_for_agent
      <3>3. creating[x] = NoSession /\ persisting[x] = NoRow
        BY <1>0, <3>1, ToStoredType DEF SessionInv, CreatingAlone, ClosingFits
      <3>4. ~is_expired(cache'[x], now) =>
              storage[x] = domain_to_stored(cache[x])
        <4>1. /\ cache'[x].created_at = cache[x].created_at
              /\ cache'[x].time_limit = cache[x].time_limit
          BY <3>1, <3>2 DEF TaskSessions
        <4>2. ~is_expired(cache'[x], now) => ~is_expired(cache[x], now)
          BY <3>1, <4>1 DEF is_expired
        <4> QED BY <2>1, <3>1, <3>3, <4>2 DEF RowPresent, DurableInv
      <3>5. domain_to_stored(cache[x]) # NoRow /\ domain_to_stored(cache[x]).status = "Active"
        BY <3>1, ToStoredType
      <3>6. persisting'[x] # NoRow
        <4>1. [cache[x] EXCEPT !.status = "Closed"] \in TaskSessions
          BY <3>1, StatusType DEF SessionStatus
        <4> QED BY <3>2, <4>1, ToStoredType
      <3> QED BY <2>1, <3>3, <3>4, <3>5, <3>6 DEF RowPresent
    <2>3. CASE x \notin ActiveOf(a)
      <3>1. cache'[x] = cache[x] /\ persisting'[x] = persisting[x]
        BY <1>4, <2>3 DEF close_sessions_for_agent
      <3> QED BY <1>0, <2>1, <3>1, FrameRow DEF DurableInv
    <2> QED BY <2>2, <2>3
  <1>5. ASSUME NEW persist \in Outcome, NEW s \in SessionId, NEW req \in Requests,
               create_insert(s, req, persist) \/ create_if_under_cap(s, req, persist)
        PROVE  RowPresent(x)'
    <2> DEFINE row == domain_to_stored(NewSession(req, req.time_limit, now))
    <2>1. /\ persist = "ok" /\ ~faults /\ created[s] = NoRequest
          /\ storage' = [storage EXCEPT ![s] = row]
          /\ UNCHANGED <<now, persisting>>
      BY <1>5 DEF create_insert, create_if_under_cap, insert_session, Note
    <2>2. CASE x = s
      <3>1. cache[x] = NoSession /\ creating[x] = NoSession /\ persisting[x] = NoRow
        BY <1>0, <2>1, <2>2 DEF SessionInv, CopiesFit, Fits, MadeFor
      <3>2. storage'[x] = row /\ persisting'[x] = NoRow
        BY <2>1, <2>2, <3>1 DEF StorageInv, TypeOK
      <3>3. row # NoRow
        <4>1. /\ req \in CreateSessionRequest /\ req.time_limit \in Nat
          BY SessionAssumption DEF CreateSessionRequest
        <4>2. NewSession(req, req.time_limit, now) \in TaskSessions
          BY <1>0, <4>1, NewSessionType
        <4> QED BY <4>2, ToStoredType
      <3>4. \/ cache'[x] = NoSession
            \/ cache'[x] = NewSession(req, req.time_limit, now)
        BY <1>5, <2>2, <3>1 DEF create_insert, create_if_under_cap, StorageInv, TypeOK
      <3> QED BY <3>2, <3>3, <3>4 DEF RowPresent
    <2>3. CASE x # s
      <3>1. cache'[x] = cache[x] /\ creating'[x] = creating[x]
        BY <1>5, <2>3 DEF create_insert, create_if_under_cap, StorageInv, TypeOK
      <3>2. storage'[x] = storage[x] /\ persisting'[x] = persisting[x] /\ now' = now
        BY <2>1, <2>3 DEF StorageInv, TypeOK
      <3> QED BY <1>0, <2>1, <3>1, <3>2, FrameRow DEF DurableInv
    <2> QED BY <2>2, <2>3
  <1>6. ASSUME NEW persist \in Outcome, NEW s \in SessionId,
               NEW caller \in Agent \cup {NoAgent},
               \/ \E tool \in Tool : use_session(s, tool, caller, persist)
               \/ \E tools \in Batches : use_session_batch(s, tools, caller, persist)
        PROVE  RowPresent(x)'
    <2>1. PICK n \in Nat \ {0} :
             /\ cache[s] # NoSession
             /\ cache[s].status = "Active"
             /\ ~is_expired(cache[s], now)
             /\ Charge(s, n, persist)
      BY <1>6, UseCharges
    <2>2. /\ persist = "ok" /\ ~faults /\ UNCHANGED <<now, creating, persisting>>
          /\ cache' = [cache EXCEPT ![s] = Charged(cache[s], n, now)]
          /\ storage' = IF storage[s] # NoRow
                        THEN [storage EXCEPT ![s] = domain_to_stored(Charged(cache[s], n, now))]
                        ELSE storage
      BY <2>1 DEF Charge, update_session, Note
    <2>3. CASE x = s
      <3>1. creating[x] = NoSession /\ persisting[x] = NoRow
        BY <1>0, <2>1, <2>3, ToStoredType DEF SessionInv, CreatingAlone, ClosingFits
      <3>2. storage[x] = domain_to_stored(cache[x]) /\ storage[x] # NoRow
        BY <1>0, <2>1, <2>2, <2>3, <3>1, ToStoredType DEF RowPresent, DurableInv
      <3>3. storage'[x] = domain_to_stored(cache'[x])
        BY <2>2, <2>3, <3>2 DEF StorageInv, TypeOK
      <3> QED BY <2>2, <3>1, <3>3 DEF RowPresent
    <2>4. CASE x # s
      BY <1>0, <2>2, <2>4, FrameRow DEF StorageInv, TypeOK, DurableInv
    <2> QED BY <2>3, <2>4
  <1>7. ASSUME NEW persist \in Outcome, NEW s \in SessionId, NEW st \in {"Expired", "Closed"},
               cache[s] # NoSession, cache[s].status # "Closed", SetStatus(s, st, persist)
        PROVE  RowPresent(x)'
    <2> DEFINE new == [cache[s] EXCEPT !.status = st]
    <2>1. /\ persist = "ok" /\ ~faults /\ UNCHANGED <<now, creating, persisting>>
          /\ cache' = [cache EXCEPT ![s] = new]
          /\ storage' = IF storage[s] # NoRow
                        THEN [storage EXCEPT ![s] = domain_to_stored(new)] ELSE storage
      BY <1>7 DEF SetStatus, update_session, Note
    <2>2. CASE x = s
      <3>1. creating[x] = NoSession /\ persisting[x] = NoRow
        BY <1>0, <1>7, <2>2, ToStoredType DEF SessionInv, CreatingAlone, ClosingFits
      <3>2. cache'[x] = new /\ cache[x] \in TaskSessions
        BY <1>0, <1>7, <2>1, <2>2 DEF StorageInv, TypeOK
      <3>3. /\ new.created_at = cache[x].created_at /\ new.time_limit = cache[x].time_limit
            /\ new.status = st
        BY <2>2, <3>2 DEF TaskSessions
      <3>4. ASSUME ~is_expired(new, now) PROVE storage'[x] = domain_to_stored(new)
        <4>1. ~is_expired(cache[x], now)
          BY <1>7, <2>2, <3>3, <3>4 DEF is_expired, DurableInv, ExpiredIsOverdue
        <4>2. storage[x] = domain_to_stored(cache[x]) /\ storage[x] # NoRow
          BY <1>7, <2>1, <2>2, <3>1, <3>2, <4>1, ToStoredType DEF RowPresent, DurableInv
        <4> QED BY <2>1, <2>2, <4>2 DEF StorageInv, TypeOK
      <3> QED BY <2>1, <3>1, <3>2, <3>4 DEF RowPresent
    <2>3. CASE x # s
      BY <1>0, <2>1, <2>3, FrameRow DEF StorageInv, TypeOK, DurableInv
    <2> QED BY <2>2, <2>3
  <1>8. ASSUME NEW persist \in Outcome, NEW s \in SessionId, persist_closure(s, persist)
        PROVE  RowPresent(x)'
    <2>1. /\ persist = "ok" /\ ~faults /\ UNCHANGED <<now, cache, creating>>
          /\ persisting[s] # NoRow
          /\ persisting' = [persisting EXCEPT ![s] = NoRow]
          /\ storage' = IF storage[s] # NoRow
                        THEN [storage EXCEPT ![s] = persisting[s]] ELSE storage
      BY <1>8 DEF persist_closure, update_session, Note
    <2>2. CASE x = s
      <3>1. /\ creating[x] = NoSession
            /\ cache[x] # NoSession => persisting[x] = domain_to_stored(cache[x])
        BY <1>0, <2>1, <2>2 DEF SessionInv, CreatingAlone, ClosingFits
      <3> QED BY <2>1, <2>2, <3>1 DEF RowPresent, DurableInv, StorageInv, TypeOK
    <2>3. CASE x # s
      BY <1>0, <2>1, <2>3, FrameRow DEF StorageInv, TypeOK, DurableInv
    <2> QED BY <2>2, <2>3
  <1>9. ASSUME NEW persist \in Outcome, cleanup_expired(persist)
        PROVE  RowPresent(x)'
    <2>1. /\ persist = "ok" /\ ~faults /\ UNCHANGED <<now, creating, persisting>>
          /\ cache'[x] = IF cache[x] # NoSession /\ is_expired(cache[x], now)
                         THEN NoSession ELSE cache[x]
          /\ storage'[x] = IF /\ storage[x] # NoRow
                              /\ \/ storage[x].status = "Expired"
                                 \/ storage[x].status = "Active" /\ is_expired(storage[x], now)
                           THEN NoRow ELSE storage[x]
      BY <1>9 DEF cleanup_expired, delete_expired_sessions, Note
    <2>2. ASSUME NEW copy \in TaskSessions, ~is_expired(copy, now),
                 storage[x] # NoRow, storage[x].created_at = copy.created_at,
                 copy.time_limit = storage[x].time_limit, storage[x].status # "Expired"
          PROVE  storage'[x] = storage[x]
      <3>1. /\ copy.created_at \in Nat /\ copy.time_limit \in Nat
            /\ storage[x].time_limit \in Nat
        BY <1>0, <2>2 DEF TaskSessions, StoredSessions
      <3>2. ~is_expired(storage[x], now)
        BY <1>0, <2>2, <3>1 DEF is_expired
      <3> QED BY <2>1, <2>2, <3>2
    <2>3. ASSUME creating[x] # NoSession, ~is_expired(creating[x], now)
          PROVE  storage'[x] # NoRow
      <3>1. /\ creating[x] \in TaskSessions /\ storage[x] # NoRow
            /\ storage[x] = domain_to_stored(creating[x])
        BY <1>0, <2>1, <2>3 DEF RowPresent, DurableInv, SessionInv, CreatingAlone
      <3>2. creating[x].time_limit \in Nat /\ creating[x].status # "Expired"
        BY <1>0, <2>3, <3>1 DEF TaskSessions, is_expired
      <3> QED BY <2>2, <2>3, <3>1, <3>2, ToStoredType
    <2>4. ASSUME cache[x] # NoSession, ~is_expired(cache[x], now)
          PROVE  storage'[x] = storage[x]
      <3>1. storage[x] # NoRow /\ storage[x].status # "Expired"
        <4>1. CASE persisting[x] = NoRow
          <5>1. storage[x] = domain_to_stored(cache[x]) /\ cache[x] \in TaskSessions
            BY <1>0, <2>1, <2>4, <4>1 DEF RowPresent, DurableInv
          <5> QED BY <2>4, <5>1, ToStoredType DEF is_expired
        <4>2. CASE persisting[x] # NoRow
          BY <2>1, <2>4, <4>2 DEF RowPresent, DurableInv
        <4> QED BY <4>1, <4>2
      <3>2. storage[x].time_limit = cache[x].time_limit
        BY <1>0, <2>4, <3>1 DEF SessionInv, CopiesFit, Fits, MadeFor
      <3> QED BY <1>0, <2>2, <2>4, <3>1, <3>2 DEF SessionInv, TableFits
    <2> QED BY <2>1, <2>3, <2>4 DEF RowPresent, DurableInv
  <1>10. CASE UNCHANGED vars
    BY <1>0, <1>10, FrameRow DEF vars, DurableInv
  <1>11. ASSUME NEW st \in stray, stray_insert(st) \/ stray_update(st) \/ stray_fails(st)
         PROVE  FALSE
    <2>1. faults' = faults
      BY <1>11 DEF stray_insert, stray_update, stray_fails
    <2>2. st.id \in SessionId /\ SessionInv(st.id)
      BY DEF StorageInv, TypeOK, Statements
    <2> QED BY <2>1, <2>2 DEF SessionInv, StraysFit
  <1> QED
    <2>1. ASSUME NEW persist \in Outcome, NEW s \in SessionId,
                 NEW caller \in Agent \cup {NoAgent}, use_expired(s, caller, persist)
          PROVE  RowPresent(x)'
      BY <1>7, <2>1 DEF use_expired, Overdue, Reachable
    <2>2. ASSUME NEW persist \in Outcome, NEW s \in SessionId, close(s, persist)
          PROVE  RowPresent(x)'
      BY <1>7, <2>2 DEF close
    <2> QED
      BY <1>1, <1>2, <1>3, <1>4, <1>5, <1>6, <1>8, <1>9, <1>10, <1>11, <2>1, <2>2 DEF Next

(* REQ-001: as long as no storage call has gone wrong, a restart would     *)
(* reload what the cache says of every session still within its time; a    *)
(* closure being written is the one exception.                             *)
THEOREM Durability == Spec => []DurableWhileUsable
  <1>1. Init => DurableInv
    BY DEF Init, DurableInv, ExpiredIsOverdue, RowPresent
  <1>2. StorageInv /\ DurableInv /\ [Next]_vars => DurableInv'
    BY NextExpired, NextRowPresent DEF DurableInv
  <1>3. DurableInv => DurableWhileUsable
    BY DEF DurableInv, RowPresent, DurableWhileUsable
  <1> QED BY <1>1, <1>2, <1>3, StorageInvariant, PTL DEF Spec

-----------------------------------------------------------------------------
(* The refinement.  Contract!ContractNext is about Phase, Budget and spent, *)
(* and Phase looks at the table and at what late writes did to it; each     *)
(* operation is an Issue, a Grant or a Shut of those.                       *)

(* A session that was not issued is: its row is there or not.              *)
LEMMA Issues ==
    ASSUME NEW s \in SessionId, NEW req \in Requests, created[s] = NoRequest,
           created \in [SessionId -> CreateSessionRequest \cup {NoRequest}],
           created' = [created EXCEPT ![s] = req],
           \A x \in SessionId : x # s => (Usable(x)' <=> Usable(x)),
           spent' = spent
    PROVE  Contract!Issue(s)
  <1>1. req \in CreateSessionRequest /\ req # NoRequest /\ req.call_budget \in Nat
    BY SessionAssumption DEF CreateSessionRequest
  <1>2. created'[s] = req /\ \A x \in SessionId : x # s => created'[x] = created[x]
    OBVIOUS
  <1>3. ASSUME NEW x \in SessionId, x # s
        PROVE  Phase'[x] = Phase[x] /\ Budget'[x] = Budget[x]
    BY <1>2, <1>3 DEF Phase, Budget
  <1>4. Phase[s] = "none" /\ Phase'[s] \in {"open", "shut"}
    BY <1>1, <1>2 DEF Phase
  <1>5. Budget'[s] = req.call_budget
    BY <1>1, <1>2 DEF Budget
  <1>6. Phase' = [Phase EXCEPT ![s] = Phase'[s]] /\ Budget' = [Budget EXCEPT ![s] = Budget'[s]]
    BY <1>3, ZenonT(30) DEF Phase, Budget
  <1> QED
    BY <1>1, <1>4, <1>5, <1>6 DEF Contract!Issue

(* Nothing is granted, and no row comes back to life.                      *)
LEMMA EndShuts ==
    ASSUME UNCHANGED <<created, spent>>,
           \A x \in SessionId : Usable(x)' => Usable(x)
    PROVE  \E S \in SUBSET SessionId : Contract!Shut(S)
  <1> DEFINE S == {x \in SessionId : Phase[x] = "open" /\ Phase'[x] = "shut"}
  <1>1. Budget' = Budget
    BY DEF Budget
  <1>2. ASSUME NEW x \in SessionId
        PROVE  Phase'[x] = IF x \in S THEN "shut" ELSE Phase[x]
    <2>1. Usable(x)' => Usable(x)
      OBVIOUS
    <2> QED BY <2>1 DEF Phase
  <1>3. Phase' = [x \in SessionId |-> IF x \in S THEN "shut" ELSE Phase[x]]
    BY <1>2 DEF Phase
  <1>4. Contract!Shut(S)
    BY <1>1, <1>3 DEF Contract!Shut
  <1> QED BY <1>4

(* A new session is issued with its row or without; a dropped INSERT       *)
(* changes nothing the contract sees.                                      *)
LEMMA InsertIssues ==
    ASSUME StorageInv, NEW s \in SessionId, NEW req \in Requests, NEW persist \in Outcome,
           create_insert(s, req, persist) \/ create_if_under_cap(s, req, persist)
    PROVE  Contract!ContractNext
  <1>1. /\ created[s] = NoRequest
        /\ created' = IF persist = "dropped" THEN created ELSE [created EXCEPT ![s] = req]
        /\ \E row : storage' = IF persist = "ok" THEN [storage EXCEPT ![s] = row] ELSE storage
        /\ UNCHANGED <<now, spent, overtaken>>
    BY DEF create_insert, create_if_under_cap, insert_session, lateVars
  <1>2. CASE persist = "dropped"
    <2>1. UNCHANGED <<created, spent, storage, now, overtaken>>
      BY <1>1, <1>2
    <2> QED BY <2>1, EndShuts DEF Usable, Contract!ContractNext
  <1>3. CASE persist # "dropped"
    <2>1. ASSUME NEW x \in SessionId, x # s PROVE Usable(x)' <=> Usable(x)
      <3>1. storage'[x] = storage[x]
        BY <1>1, <2>1 DEF StorageInv, TypeOK
      <3> QED BY <1>1, <3>1 DEF Usable
    <2>2. created \in [SessionId -> CreateSessionRequest \cup {NoRequest}]
      BY DEF StorageInv, TypeOK
    <2> QED BY <1>1, <1>3, <2>1, <2>2, Issues DEF Contract!ContractNext
  <1> QED BY <1>2, <1>3

(* A charge leaves the phase of every session as it was; if the row was    *)
(* updated, the caller is there to hear of it and no late write has set    *)
(* the row back, it is a Grant.                                            *)
LEMMA ChargeGrants ==
    ASSUME StorageInv, NEW s \in SessionId, NEW n \in Nat \ {0}, NEW persist \in Outcome,
           cache[s] # NoSession,
           cache[s].status = "Active",
           ~is_expired(cache[s], now),
           cache[s].calls_made + n <= cache[s].call_budget,
           Charge(s, n, persist)
    PROVE  Contract!ContractNext
  <1> DEFINE old == cache[s]
             new == Charged(old, n, now)
             row == domain_to_stored(new)
  <1>1. /\ old \in TaskSessions /\ now \in Nat /\ granted[s] \in Nat /\ SessionInv(s)
        /\ n \in Nat /\ spent \in [SessionId -> Nat]
    BY DEF StorageInv, TypeOK
  <1>2. /\ storage' = IF storage[s] # NoRow /\ persist = "ok"
                      THEN [storage EXCEPT ![s] = row] ELSE storage
        /\ granted' = IF storage[s] # NoRow /\ persist = "ok"
                      THEN [granted EXCEPT ![s] = granted[s] + n] ELSE granted
        /\ spent' = IF s \in overtaken THEN spent ELSE [spent EXCEPT ![s] = granted'[s]]
        /\ UNCHANGED <<now, created, overtaken>>
    BY DEF Charge, update_session, Updated, lateVars
  <1>3. old = cache[s]
    OBVIOUS
  <1> HIDE DEF old
  <1>4. /\ row # NoRow /\ row.status = old.status
        /\ row.created_at = old.created_at /\ row.time_limit = old.time_limit
    <2>1. /\ new \in TaskSessions /\ new.status = old.status
          /\ new.created_at = old.created_at /\ new.time_limit = old.time_limit
      BY <1>1, ChargedType
    <2> HIDE DEF new
    <2> QED BY <2>1, ToStoredType
  <1> HIDE DEF row
  <1>5. ASSUME storage[s] # NoRow, s \notin overtaken PROVE Usable(s) /\ Usable(s)'
    <2>1. /\ storage[s].created_at = old.created_at
          /\ storage[s].time_limit = old.time_limit
          /\ storage[s].status = "Active"
      BY <1>1, <1>3, <1>5 DEF SessionInv, TableFits, CopiesFit, Fits, MadeFor
    <2>2. Usable(s)
      BY <1>1, <1>3, <1>5, <2>1 DEF Usable, is_expired
    <2>3. storage'[s] \in {storage[s], row} /\ now' = now /\ overtaken' = overtaken
      BY <1>2 DEF StorageInv, TypeOK
    <2>4. CASE storage'[s] = row
      BY <1>1, <1>3, <1>4, <1>5, <2>2, <2>3, <2>4 DEF Usable, is_expired
    <2> QED BY <2>2, <2>3, <2>4 DEF Usable
  <1>6. ASSUME NEW x \in SessionId PROVE Usable(x)' <=> Usable(x)
    <2>1. CASE x = s /\ storage[s] # NoRow /\ s \notin overtaken
      BY <1>5, <2>1
    <2>2. CASE x = s /\ s \in overtaken
      BY <1>2, <2>2 DEF Usable
    <2>3. CASE x # s \/ storage[s] = NoRow
      BY <1>2, <2>3 DEF Usable, StorageInv, TypeOK
    <2> QED BY <2>1, <2>2, <2>3
  <1>7. CASE storage[s] # NoRow /\ persist = "ok" /\ s \notin overtaken
    <2>1. Phase' = Phase /\ Budget' = Budget
      <3>1. ASSUME NEW x \in SessionId PROVE Phase'[x] = Phase[x]
        BY <1>2, <1>6 DEF Phase
      <3> QED BY <1>2, <3>1 DEF Phase, Budget
    <2>2. Fits(s, old) /\ spent[s] = granted[s] /\ refunded[s] = 0
      BY <1>1, <1>3, <1>7 DEF SessionInv, CopiesFit, SpentFits
    <2>3. old.call_budget \in Nat /\ old.calls_made \in Nat
      BY <1>1 DEF TaskSessions
    <2>4. Phase[s] = "open" /\ Budget[s] = old.call_budget
      BY <1>5, <1>7, <2>2 DEF Phase, Budget, Fits, MadeFor
    <2>5. spent[s] + n <= Budget[s] /\ n \in 1..Budget[s]
      BY <1>1, <1>3, <2>2, <2>3, <2>4 DEF Fits, MadeFor
    <2>6. spent' = [spent EXCEPT ![s] = spent[s] + n]
      <3>1. granted'[s] = granted[s] + n
        BY <1>2, <1>7 DEF StorageInv, TypeOK
      <3> QED BY <1>2, <1>7, <2>2, <3>1
    <2>7. Contract!Grant(s, n)
      BY <2>1, <2>4, <2>5, <2>6 DEF Contract!Grant
    <2> QED BY <2>5, <2>7 DEF Contract!ContractNext
  <1>8. CASE ~(storage[s] # NoRow /\ persist = "ok" /\ s \notin overtaken)
    <2>1. spent' = spent
      <3>1. CASE s \in overtaken
        BY <1>2, <3>1
      <3>2. CASE s \notin overtaken
        <4>1. granted' = granted /\ spent[s] = granted[s]
          BY <1>1, <1>2, <1>8, <3>2 DEF SessionInv, SpentFits
        <4> QED BY <1>1, <1>2, <3>2, <4>1
      <3> QED BY <3>1, <3>2
    <2> QED BY <1>2, <1>6, <2>1, EndShuts DEF Contract!ContractNext
  <1> QED BY <1>7, <1>8

(* A stray INSERT issues its session; a stray UPDATE that sets no row back *)
(* revives none, and one that does ends the session for the contract.      *)
LEMMA StrayContract ==
    ASSUME StorageInv, NEW st \in stray,
           stray_insert(st) \/ stray_update(st) \/ stray_fails(st)
    PROVE  Contract!ContractNext
  <1>1. /\ st.id \in SessionId /\ SessionInv(st.id) /\ StrayFits(st.id, st)
        /\ created \in [SessionId -> CreateSessionRequest \cup {NoRequest}]
    BY DEF StorageInv, TypeOK, Statements, SessionInv, StraysFit
  <1>2. CASE stray_insert(st)
    <2>1. /\ created' = [created EXCEPT ![st.id] = st.req]
          /\ storage' = [storage EXCEPT ![st.id] = st.row]
          /\ created[st.id] = NoRequest /\ st.req \in Requests
          /\ UNCHANGED <<now, spent, overtaken>>
      BY <1>1, <1>2 DEF stray_insert, StrayFits, lateVars
    <2>2. ASSUME NEW x \in SessionId, x # st.id PROVE Usable(x)' <=> Usable(x)
      BY <2>1, <2>2 DEF Usable, StorageInv, TypeOK
    <2>3. Contract!Issue(st.id)
      BY <1>1, <2>1, <2>2, Issues
    <2> QED BY <1>1, <2>3 DEF Contract!ContractNext
  <1>3. CASE stray_update(st)
    <2> DEFINE old == storage[st.id]
    <2>1. /\ st.req = NoRequest /\ old # NoRow
          /\ storage' = [storage EXCEPT ![st.id] = st.row]
          /\ overtaken' = IF SetsBack(old, st.row) THEN overtaken \cup {st.id} ELSE overtaken
          /\ UNCHANGED <<now, created, spent>>
      BY <1>3 DEF stray_update
    <2>2. ASSUME NEW x \in SessionId PROVE Usable(x)' => Usable(x)
      <3>1. CASE x = st.id /\ ~SetsBack(old, st.row)
        <4>1. /\ st.row.created_at = old.created_at /\ st.row.time_limit = old.time_limit
              /\ st.row.status = "Active" => old.status = "Active"
          BY <1>1, <2>1, <3>1 DEF StrayFits, SessionInv, CopiesFit, Fits, MadeFor, SetsBack
        <4>2. storage'[x] = st.row
          BY <1>1, <2>1, <3>1 DEF StorageInv, TypeOK
        <4> QED BY <2>1, <3>1, <4>1, <4>2 DEF Usable, is_expired
      <3>2. CASE x = st.id /\ SetsBack(old, st.row)
        BY <2>1, <3>2 DEF Usable
      <3>3. CASE x # st.id
        BY <2>1, <3>3 DEF Usable, StorageInv, TypeOK
      <3> QED BY <3>1, <3>2, <3>3
    <2> QED BY <2>1, <2>2, EndShuts DEF Contract!ContractNext
  <1>4. CASE stray_fails(st)
    BY <1>4, EndShuts DEF stray_fails, lateVars, Usable, Contract!ContractNext
  <1> QED BY <1>2, <1>3, <1>4

LEMMA NextContract == StorageInv /\ [Next]_vars => [Contract!ContractNext]_(Contract!contractVars)
  <1> SUFFICES ASSUME StorageInv, [Next]_vars
               PROVE  Contract!ContractNext \/ UNCHANGED <<Phase, Budget, spent>>
    BY DEF Contract!contractVars
  <1> USE DEF lateVars
  <1>0. ASSUME UNCHANGED <<created, spent>>,
               \A x \in SessionId : Usable(x)' => Usable(x)
        PROVE  Contract!ContractNext
    BY <1>0, EndShuts DEF Contract!ContractNext
  <1>1. CASE Tick
    <2>1. ASSUME NEW x \in SessionId PROVE Usable(x)' => Usable(x)
      <3>1. storage[x] # NoRow => storage[x].created_at \in Nat /\ storage[x].time_limit \in Nat
        BY DEF StorageInv, TypeOK, StoredSessions
      <3> QED BY <1>1, <3>1 DEF Tick, Usable, is_expired, StorageInv, TypeOK
    <2> QED BY <1>0, <1>1, <2>1 DEF Tick
  <1>2. CASE restart
    BY <1>0, <1>2 DEF restart, Usable
  <1>3. ASSUME NEW s \in SessionId, create_cache(s) PROVE Contract!ContractNext
    BY <1>0, <1>3 DEF create_cache, Usable
  <1>4. ASSUME NEW a \in Agent, close_sessions_for_agent(a) PROVE Contract!ContractNext
    BY <1>0, <1>4 DEF close_sessions_for_agent, Usable
  <1>5. ASSUME NEW persist \in Outcome, NEW s \in SessionId, NEW req \in Requests,
               create_insert(s, req, persist) \/ create_if_under_cap(s, req, persist)
        PROVE  Contract!ContractNext
    BY <1>5, InsertIssues
  <1>6. ASSUME NEW persist \in Outcome, NEW s \in SessionId,
               NEW caller \in Agent \cup {NoAgent},
               \/ \E tool \in Tool : use_session(s, tool, caller, persist)
               \/ \E tools \in Batches : use_session_batch(s, tools, caller, persist)
        PROVE  Contract!ContractNext
    BY <1>6, UseCharges, ChargeGrants
  <1>7. ASSUME NEW persist \in Outcome, NEW s \in SessionId, NEW st \in {"Expired", "Closed"},
               cache[s] # NoSession, SetStatus(s, st, persist)
        PROVE  Contract!ContractNext
    <2> DEFINE new == [cache[s] EXCEPT !.status = st]
    <2>1. /\ storage' \in {storage, [storage EXCEPT ![s] = domain_to_stored(new)]}
          /\ UNCHANGED <<now, created, spent, overtaken>>
      BY <1>7 DEF SetStatus, update_session
    <2>2. domain_to_stored(new).status = st
      BY <1>7 DEF domain_to_stored, StorageInv, TypeOK, TaskSessions
    <2> HIDE DEF new
    <2>3. ASSUME NEW x \in SessionId PROVE Usable(x)' => Usable(x)
      BY <2>1, <2>2 DEF Usable, StorageInv, TypeOK
    <2> QED BY <1>0, <2>1, <2>3
  <1>8. ASSUME NEW persist \in Outcome, NEW s \in SessionId, persist_closure(s, persist)
        PROVE  Contract!ContractNext
    <2>1. /\ storage' \in {storage, [storage EXCEPT ![s] = persisting[s]]}
          /\ persisting[s].status = "Closed"
          /\ UNCHANGED <<now, created, spent, overtaken>>
      BY <1>8 DEF persist_closure, update_session, StorageInv, SessionInv, ClosingFits
    <2>2. ASSUME NEW x \in SessionId PROVE Usable(x)' => Usable(x)
      BY <2>1 DEF Usable, StorageInv, TypeOK
    <2> QED BY <1>0, <2>1, <2>2
  <1>9. ASSUME NEW persist \in Outcome, cleanup_expired(persist)
        PROVE  Contract!ContractNext
    <2>1. ASSUME NEW x \in SessionId PROVE Usable(x)' => Usable(x)
      <3>1. storage'[x] \in {storage[x], NoRow} /\ now' = now /\ overtaken' = overtaken
        BY <1>9 DEF cleanup_expired, delete_expired_sessions
      <3> QED BY <3>1 DEF Usable
    <2> QED BY <1>0, <1>9, <2>1 DEF cleanup_expired
  <1>10. CASE UNCHANGED vars
    BY <1>10 DEF vars, Phase, Budget, Usable
  <1>11. ASSUME NEW st \in stray, stray_insert(st) \/ stray_update(st) \/ stray_fails(st)
         PROVE  Contract!ContractNext
    BY <1>11, StrayContract
  <1>12. {"ok", "failed"} \subseteq Outcome
    BY DEF Outcome
  <1> QED
    <2>1. ASSUME NEW persist \in Outcome, NEW s \in SessionId,
                 NEW caller \in Agent \cup {NoAgent}, use_expired(s, caller, persist)
          PROVE  Contract!ContractNext
      BY <1>7, <2>1 DEF use_expired, Overdue, Reachable
    <2>2. ASSUME NEW persist \in Outcome, NEW s \in SessionId, close(s, persist)
          PROVE  Contract!ContractNext
      BY <1>7, <2>2 DEF close
    <2> QED
      BY <1>1, <1>2, <1>3, <1>4, <1>5, <1>6, <1>8, <1>9, <1>10, <1>11, <1>12, <2>1, <2>2
         DEF Next

(* The write-through store implements the session contract across storage  *)
(* failures, dropped requests and restarts, for every session until a late *)
(* write of a dropped request sets its row back: until then a session      *)
(* whose row has ended is never granted another call.                      *)
THEOREM StorageImplementsContract == Spec => ImplementsContract
  <1>1. Init => Contract!ContractInit
    BY DEF Init, Contract!ContractInit, Phase, Budget
  <1> QED
    BY <1>1, StorageInvariant, NextContract, PTL DEF Spec, ImplementsContract, Contract!ContractSpec
=============================================================================
