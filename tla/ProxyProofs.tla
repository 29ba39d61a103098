---------------------------- MODULE ProxyProofs -----------------------------
(***************************************************************************)
(* For any connections, sessions, requests and number of entries and       *)
(* restarts: what the audit sink says of its file holds under the proxy    *)
(* that drives it, nobody is answered unaudited, and a failed or dropped   *)
(* write spoils at most one acknowledged record.                           *)
(***************************************************************************)
EXTENDS Proxy, FiniteSetTheorems, TLAPS

-----------------------------------------------------------------------------
(* The file and the writers.                                               *)

LEMMA DiskType ==
    ASSUME SinkTypeOK, NEW i \in OnDisk
    PROVE  i \in 1..Len(file) /\ file[i] \in Records
  BY DEF SinkTypeOK, OnDisk

LEMMA DiskFinite ==
    ASSUME SinkTypeOK, NEW S \in SUBSET OnDisk
    PROVE  IsFiniteSet(S) /\ Cardinality(S) \in Nat
  <1>1. S \in SUBSET (1..Len(file)) /\ Len(file) \in Nat
    BY DEF SinkTypeOK, OnDisk
  <1>2. IsFiniteSet(1..Len(file))
    BY <1>1, FS_Interval
  <1> QED BY <1>1, <1>2, FS_Subset, FS_CardinalityType

(* What is appended is the last piece, and all others stay.                *)
Appends(x) == file' = Append(file, x)

LEMMA Appended ==
    ASSUME SinkTypeOK, NEW x \in Records \cup {Newline, Torn}, Appends(x)
    PROVE  /\ file' \in Seq(Records \cup {Newline, Torn})
           /\ \A i \in OnDisk : i \in OnDisk' /\ file'[i] = file[i]
           /\ \A i \in OnDisk' : \/ i \in OnDisk /\ file'[i] = file[i]
                                 \/ i = Len(file) + 1 /\ file'[i] = x /\ x \in Records
           /\ x \in Records => Len(file) + 1 \in OnDisk' /\ file'[Len(file) + 1] = x
           /\ \A i \in OnDisk : i < Len(file) + 1
           /\ Len(file) \in Nat
  BY SentinelAssumption DEF SinkTypeOK, OnDisk, Appends

SameDisk == OnDisk' = OnDisk /\ \A i \in OnDisk : file'[i] = file[i]

LEMMA InHandType ==
    ASSUME SinkTypeOK, NEW w \in Writer
    PROVE  /\ InHand(w) => /\ writing[w].step \in {"record", "newline", "sync", "lookup", "count"}
                           /\ writing[w].rec \in Records
                           /\ writing[w] \in [step: {"record", "newline", "sync", "lookup", "count"},
                                              rec: Records]
           /\ At(w, "queued") => writing[w].entry \in Entries
  BY DEF SinkTypeOK, Writing, InHand, NotWriting, At

LEMMA RecordType ==
    ASSUME NEW rec \in Records
    PROVE  /\ rec.id \in Nat \X Nat /\ rec.entry \in Entries
           /\ rec.id[1] \in Nat /\ rec.id[2] \in Nat /\ rec.id = <<rec.id[1], rec.id[2]>>
           /\ rec # Newline /\ rec # Torn
  BY SentinelAssumption DEF Records

LEMMA StepType ==
    ASSUME SinkTypeOK, NEW w \in Writer, InHand(w),
           NEW step \in {"record", "newline", "sync", "lookup", "count"}, Step(w, step)
    PROVE  /\ writing' \in [Writer -> Writing]
           /\ writing'[w].step = step /\ writing'[w].rec = writing[w].rec
           /\ \A v \in Writer \ {w} : writing'[v] = writing[v]
  <1> DEFINE new == [writing[w] EXCEPT !.step = step]
  <1>1. new \in [step: {"record", "newline", "sync", "lookup", "count"}, rec: Records]
        /\ new.step = step /\ new.rec = writing[w].rec
    BY InHandType
  <1>2. writing' = [writing EXCEPT ![w] = new] /\ writing \in [Writer -> Writing]
    BY DEF Step, SinkTypeOK
  <1> HIDE DEF new
  <1> QED BY <1>1, <1>2 DEF Writing

(* Every record in hand is the holder's.                                   *)
LEMMA PendingIs ==
    /\ \A w \in Writer : InHand(w) => writing[w].rec.id \in Pending
    /\ \A h \in Pending : \E w \in Writer : InHand(w) /\ h = writing[w].rec.id
  BY DEF Pending, InHand

LEMMA PendingThen ==
    /\ \A w \in Writer : InHand(w)' => writing'[w].rec.id \in Pending'
    /\ \A h \in Pending' : \E w \in Writer : InHand(w)' /\ h = writing'[w].rec.id
  BY DEF Pending, InHand

LEMMA PendingLast ==
    ASSUME SinkTypeOK, HolderIsLast, NEW h \in Pending
    PROVE  h = <<boot, chain>> /\ Numbered(h)
  <1>1. h = <<boot, chain>> /\ chain \in Nat
    BY PendingIs DEF HolderIsLast, SinkTypeOK
  <1> QED BY <1>1 DEF Numbered

(* A step that puts no record on disk, takes none in hand and acknowledges *)
(* none.                                                                   *)
LEMMA QuietStep ==
    ASSUME SinkInv, SinkTypeOK', UNCHANGED <<boot, chain, acked>>, SameDisk,
           \A v \in Writer : InHand(v)' =>
              /\ InHand(v) /\ lock' = lock
              /\ writing'[v].rec = writing[v].rec
              /\ At(v, "record")' <=> At(v, "record"),
           \A p \in stray' \ stray : p.piece # Newline =>
              Numbered(p.piece.id) /\ p.piece.id \notin AckedIds \cup Pending',
           \A k \in SessionKey : stats'[k] \in {stats[k], None, Zero}
    PROVE  SinkInv'
  <1>1. Pending' \subseteq Pending
    BY PendingIs, PendingThen
  <1>2. AckedIds' = AckedIds
    BY DEF AckedIds
  <1>3. HolderIsLast'
    BY DEF SinkInv, HolderIsLast
  <1>4. NumberedOnly'
    BY DEF SinkInv, NumberedOnly, Numbered, SameDisk
  <1>5. InHandIsNew'
    BY <1>2 DEF SinkInv, InHandIsNew, SameDisk
  <1>6. StrayIsLost'
    BY <1>1, <1>2 DEF SinkInv, StrayIsLost, Numbered
  <1>7. SequenceOrder'
    BY <1>1, <1>2 DEF SinkInv, SequenceOrder, SameDisk
  <1>8. AckedOnDisk'
    BY DEF SinkInv, AckedOnDisk, SameDisk
  <1>9. CountedIsSettled'
    <2> SUFFICES ASSUME NEW k \in SessionKey, stats'[k] # None
                 PROVE  stats'[k].denied <= Cardinality(Settled(k)')
      BY DEF CountedIsSettled
    <2>1. Settled(k) \subseteq Settled(k)' /\ Settled(k)' \subseteq OnDisk
      BY <1>1 DEF Settled, SameDisk
    <2>2. /\ IsFiniteSet(Settled(k)') /\ Cardinality(Settled(k)) \in Nat
          /\ Cardinality(Settled(k)') \in Nat
          /\ Cardinality(Settled(k)) <= Cardinality(Settled(k)')
      BY <2>1, DiskFinite, FS_Subset DEF SinkInv
    <2>3. CASE stats'[k] = Zero
      BY <2>2, <2>3 DEF Zero
    <2>4. CASE stats'[k] = stats[k]
      <3>1. stats[k].denied \in Nat /\ stats[k].denied <= Cardinality(Settled(k))
        BY <2>4 DEF SinkInv, SinkTypeOK, CountedIsSettled, Counters
      <3> QED BY <2>2, <2>4, <3>1
    <2> QED BY <2>3, <2>4
  <1> QED BY <1>3, <1>4, <1>5, <1>6, <1>7, <1>8, <1>9 DEF SinkInv

(* w's write returns Ok: its record, on disk, is acknowledged, and at most *)
(* one denial of its session is counted.                                   *)
LEMMA AckStep ==
    ASSUME SinkInv, SinkTypeOK', NEW w \in Writer, InHand(w), ~At(w, "record"),
           UNCHANGED <<boot, chain, file, stray>>,
           lock' = Nobody, writing' = [writing EXCEPT ![w] = NotWriting],
           acked' = acked \cup {writing[w].rec},
           \A k \in SessionKey :
              \/ stats'[k] = stats[k]
              \/ /\ writing[w].rec.entry.session = k /\ stats[k] # None
                 /\ stats'[k] = Bump(stats[k], writing[w].rec.entry)
    PROVE  SinkInv'
  <1> DEFINE rec == writing[w].rec
  <1>1. rec \in Records /\ rec.id \in Pending /\ rec.id = <<boot, chain>> /\ lock = w
    BY InHandType, PendingIs DEF SinkInv, HolderIsLast
  <1>2. /\ \A v \in Writer : ~InHand(v)'
        /\ Pending' = {}
    <2>1. \A v \in Writer : InHand(v) => v = w
      BY <1>1 DEF SinkInv, HolderIsLast
    <2>2. \A v \in Writer : ~InHand(v)'
      BY <2>1 DEF InHand, SinkInv, SinkTypeOK, NotWriting
    <2> QED BY <2>2, PendingThen
  <1>3. AckedIds' = AckedIds \cup {rec.id} /\ OnDisk' = OnDisk
    BY DEF AckedIds, OnDisk
  <1>4. HolderIsLast' /\ InHandIsNew'
    BY <1>2 DEF HolderIsLast, InHandIsNew
  <1>5. NumberedOnly'
    BY <1>1, <1>3, PendingLast DEF SinkInv, NumberedOnly, Numbered
  <1>6. StrayIsLost'
    BY <1>1, <1>2, <1>3 DEF SinkInv, StrayIsLost, Numbered
  <1>7. SequenceOrder'
    BY <1>1, <1>2, <1>3 DEF SinkInv, SequenceOrder
  <1>8. AckedOnDisk'
    BY <1>3 DEF SinkInv, AckedOnDisk, InHandIsNew
  <1>9. CountedIsSettled'
    <2> SUFFICES ASSUME NEW k \in SessionKey, stats'[k] # None
                 PROVE  stats'[k].denied <= Cardinality(Settled(k)')
      BY DEF CountedIsSettled
    <2>1. Settled(k) \subseteq Settled(k)' /\ Settled(k)' \subseteq OnDisk
      BY <1>2, <1>3 DEF Settled
    <2>2. /\ IsFiniteSet(Settled(k)') /\ IsFiniteSet(Settled(k)) /\ Cardinality(Settled(k)) \in Nat
          /\ Cardinality(Settled(k)') \in Nat
          /\ Cardinality(Settled(k)) <= Cardinality(Settled(k)')
      BY <2>1, DiskFinite, FS_Subset DEF SinkInv
    <2>3. stats[k] # None /\ stats[k].denied \in Nat /\ stats[k].denied <= Cardinality(Settled(k))
      BY DEF SinkInv, SinkTypeOK, CountedIsSettled, Counters
    <2>4. CASE stats'[k] = stats[k]
      BY <2>2, <2>3, <2>4
    <2>5. CASE rec.entry.session = k /\ stats'[k] = Bump(stats[k], rec.entry)
      <3>1. CASE rec.entry.decision = "deny"
        <4>1. PICK i \in OnDisk : file[i] = rec
          BY DEF SinkInv, InHandIsNew
        <4>2. i \in Settled(k)' /\ i \notin Settled(k)
          BY <1>1, <1>2, <1>3, <2>5, <3>1, <4>1 DEF Settled
        <4>3. /\ Settled(k) \cup {i} \subseteq Settled(k)'
              /\ Cardinality(Settled(k) \cup {i}) = Cardinality(Settled(k)) + 1
          BY <2>1, <2>2, <4>2, FS_AddElement
        <4>4. Cardinality(Settled(k)) + 1 <= Cardinality(Settled(k)')
          BY <2>2, <4>3, FS_Subset
        <4>5. stats'[k].denied = stats[k].denied + 1
          BY <2>5, <3>1 DEF Bump
        <4> QED BY <2>2, <2>3, <4>4, <4>5
      <3>2. CASE rec.entry.decision # "deny"
        <4>1. stats'[k].denied = stats[k].denied
          BY <2>3, <2>5, <3>2 DEF Bump
        <4> QED BY <2>2, <2>3, <4>1
      <3> QED BY <3>1, <3>2
    <2> QED BY <2>4, <2>5
  <1> QED BY <1>4, <1>5, <1>6, <1>7, <1>8, <1>9 DEF SinkInv

-----------------------------------------------------------------------------
(* The sink's actions.                                                     *)

(* A record is numbered: no other has its number.                          *)
LEMMA AssignInv ==
    ASSUME SinkInv, NEW w \in Writer, assign(w)
    PROVE  SinkInv'
  <1> DEFINE rec == NextRecord(w)
  <1>1. /\ At(w, "queued") /\ lock = Nobody /\ lock' = w /\ chain' = chain + 1
        /\ writing' = [writing EXCEPT ![w] = [step |-> "record", rec |-> rec]]
        /\ numbered' = numbered + 1
        /\ UNCHANGED <<boot, failures, recovery, stats, file, stray, acked, outcomes>>
    BY DEF assign, healthVars, historyVars
  <1>2. SinkTypeOK /\ boot \in Nat /\ chain \in Nat /\ writing \in [Writer -> Writing]
    BY SinkAssumption DEF SinkInv, SinkTypeOK
  <1>3. rec \in Records /\ rec.id = <<boot, chain + 1>>
    <2>1. writing[w].entry \in Entries
      BY <1>1, <1>2, InHandType
    <2> QED BY <1>2, <2>1 DEF NextRecord, Records
  <1> HIDE DEF rec
  <1>4. SinkTypeOK'
    <2>1. writing' \in [Writer -> Writing]
      BY <1>1, <1>2, <1>3 DEF Writing
    <2> QED BY <1>1, <1>2, <2>1 DEF SinkTypeOK
  <1>5. /\ \A v \in Writer : ~InHand(v)
        /\ \A v \in Writer : InHand(v)' => v = w
        /\ writing'[w].step = "record" /\ writing'[w].rec = rec /\ InHand(w)'
    <2>1. \A v \in Writer : ~InHand(v)
      BY <1>1, SentinelAssumption DEF SinkInv, HolderIsLast
    <2> QED BY <1>1, <1>2, <2>1 DEF InHand
  <1>6. Pending = {} /\ Pending' = {rec.id}
    BY <1>5, PendingIs, PendingThen
  <1>7. OnDisk' = OnDisk /\ AckedIds' = AckedIds
    BY <1>1 DEF OnDisk, AckedIds
  <1>8. /\ ~Numbered(rec.id)
        /\ \A x \in Records : Numbered(x.id) => Numbered(x.id)'
    <2>1. ~Numbered(rec.id)
      BY <1>2, <1>3 DEF Numbered
    <2>2. ASSUME NEW x \in Records, Numbered(x.id) PROVE Numbered(x.id)'
      BY <1>1, <1>2, <2>2, RecordType DEF Numbered
    <2> QED BY <2>1, <2>2
  <1>9. HolderIsLast'
    BY <1>1, <1>3, <1>5 DEF HolderIsLast
  <1>10. NumberedOnly'
    BY <1>1, <1>2, <1>7, <1>8, DiskType DEF SinkInv, NumberedOnly, SinkTypeOK
  <1>11. InHandIsNew'
    <2>1. rec.id \notin AckedIds
      BY <1>8 DEF SinkInv, NumberedOnly, AckedIds
    <2>2. \A i \in OnDisk : file[i].id # rec.id
      BY <1>8 DEF SinkInv, NumberedOnly
    <2> QED BY <1>1, <1>5, <1>7, <2>1, <2>2 DEF InHandIsNew, At
  <1>12. StrayIsLost'
    <2> SUFFICES ASSUME NEW p \in stray, p.piece # Newline
                 PROVE  Numbered(p.piece.id)' /\ p.piece.id \notin AckedIds' \cup Pending'
      BY <1>1 DEF StrayIsLost
    <2>1. p.piece \in Records /\ Numbered(p.piece.id) /\ p.piece.id \notin AckedIds
      BY <1>2 DEF SinkInv, SinkTypeOK, StrayIsLost
    <2> QED BY <1>6, <1>7, <1>8, <2>1
  <1>13. SequenceOrder'
    <2> SUFFICES ASSUME NEW i \in OnDisk, NEW j \in OnDisk, i < j, file[i].id[1] = file[j].id[1],
                        file[j].id \in AckedIds \cup {rec.id}
                 PROVE  file[i].id[2] < file[j].id[2]
      BY <1>1, <1>6, <1>7 DEF SequenceOrder
    <2>1. file[j].id # rec.id
      BY <1>8 DEF SinkInv, NumberedOnly
    <2> QED BY <2>1 DEF SinkInv, SequenceOrder
  <1>14. AckedOnDisk'
    BY <1>1, <1>7 DEF SinkInv, AckedOnDisk
  <1>15. CountedIsSettled'
    <2>1. ASSUME NEW k \in SessionKey PROVE Settled(k)' = Settled(k)
      BY <1>1, <1>6, <1>7, <1>8 DEF Settled, SinkInv, NumberedOnly
    <2> QED BY <1>1, <2>1 DEF SinkInv, CountedIsSettled
  <1> QED BY <1>4, <1>9, <1>10, <1>11, <1>12, <1>13, <1>14, <1>15 DEF SinkInv

(* The record reaches the file, behind every record numbered before it.    *)
LEMMA AppendInv ==
    ASSUME SinkInv, NEW w \in Writer, append_record(w)
    PROVE  SinkInv'
  <1> DEFINE rec == writing[w].rec
             last == Len(file) + 1
  <1>1. /\ At(w, "record") /\ InHand(w) /\ file' = Append(file, rec) /\ Step(w, "newline")
        /\ UNCHANGED <<boot, chain, lock, failures, recovery, stats, stray, acked, numbered,
                       outcomes>>
    BY DEF append_record, healthVars, historyVars, At, InHand
  <1>2. SinkTypeOK /\ boot \in Nat /\ chain \in Nat
    BY SinkAssumption DEF SinkInv, SinkTypeOK
  <1>3. rec \in Records /\ rec.id = <<boot, chain>> /\ lock = w /\ rec.id \in Pending
    BY <1>1, <1>2, InHandType, PendingIs DEF SinkInv, HolderIsLast
  <1>4. /\ writing' \in [Writer -> Writing]
        /\ writing'[w].step = "newline" /\ writing'[w].rec = rec
        /\ \A v \in Writer \ {w} : writing'[v] = writing[v]
    BY <1>1, <1>2, StepType
  <1>5. /\ file' \in Seq(Records \cup {Newline, Torn})
        /\ \A i \in OnDisk : i \in OnDisk' /\ file'[i] = file[i]
        /\ \A i \in OnDisk' : \/ i \in OnDisk /\ file'[i] = file[i]
                              \/ i = last /\ file'[i] = rec
        /\ last \in OnDisk' /\ file'[last] = rec
        /\ \A i \in OnDisk : i < last
        /\ last \in Nat
    <2> HIDE DEF rec
    <2>1. rec \in Records \cup {Newline, Torn} /\ Appends(rec)
      BY <1>1, <1>3 DEF Appends
    <2> QED BY <1>2, <1>3, <2>1, Appended
  <1> HIDE DEF rec, last
  <1>6. SinkTypeOK'
    BY <1>1, <1>2, <1>4, <1>5 DEF SinkTypeOK
  <1>7. /\ \A v \in Writer : InHand(v)' <=> v = w
        /\ \A v \in Writer : InHand(v) => v = w
        /\ Pending' = {rec.id} /\ AckedIds' = AckedIds
    <2>1. \A v \in Writer : InHand(v) => v = w
      BY <1>3 DEF SinkInv, HolderIsLast
    <2>2. \A v \in Writer : InHand(v)' <=> v = w
      BY <1>4, <2>1 DEF InHand
    <2>3. Pending' = {rec.id}
      BY <1>4, <2>2, PendingThen
    <2> QED BY <1>1, <2>1, <2>2, <2>3 DEF AckedIds
  <1>8. rec.id \notin AckedIds /\ \A i \in OnDisk : file[i].id # rec.id
    BY <1>1, <1>2 DEF SinkInv, InHandIsNew, rec
  <1>9. HolderIsLast'
    BY <1>1, <1>3, <1>4, <1>7 DEF HolderIsLast
  <1>10. NumberedOnly'
    <2>1. Numbered(rec.id)
      BY <1>2, <1>3 DEF Numbered
    <2> QED BY <1>1, <1>5, <2>1 DEF SinkInv, NumberedOnly, Numbered
  <1>11. InHandIsNew'
    BY <1>4, <1>5, <1>7, <1>8 DEF InHandIsNew, At
  <1>12. StrayIsLost'
    BY <1>1, <1>3, <1>7 DEF SinkInv, StrayIsLost, Numbered
  <1>13. SequenceOrder'
    <2> SUFFICES ASSUME NEW i \in OnDisk', NEW j \in OnDisk', i < j,
                        file'[i].id[1] = file'[j].id[1],
                        file'[j].id \in AckedIds \cup {rec.id}
                 PROVE  file'[i].id[2] < file'[j].id[2]
      BY <1>7 DEF SequenceOrder
    <2>1. CASE j \in OnDisk
      <3>1. i \in OnDisk /\ file'[i] = file[i] /\ file'[j] = file[j]
        <4>1. j < last /\ j \in Nat
          BY <1>2, <1>5, <2>1, DiskType
        <4>2. i # last
          BY <1>5, <4>1
        <4> QED BY <1>5, <2>1, <4>2
      <3> QED BY <1>3, <2>1, <3>1 DEF SinkInv, SequenceOrder
    <2>2. CASE j = last
      <3>1. file'[j] = rec
        BY <1>5, <2>2
      <3>2. i \in OnDisk /\ file'[i] = file[i]
        BY <1>5, <2>2
      <3>3. file[i] \in Records /\ Numbered(file[i].id) /\ file[i].id # rec.id
        BY <1>2, <1>8, <3>2, DiskType DEF SinkInv, NumberedOnly
      <3>4. file[i].id[1] = boot /\ file[i].id[2] <= chain /\ file[i].id[2] # chain
        BY <1>2, <1>3, <3>1, <3>2, <3>3, RecordType DEF Numbered
      <3> QED BY <1>2, <1>3, <3>1, <3>2, <3>3, <3>4, RecordType
    <2> QED BY <1>5, <2>1, <2>2
  <1>14. AckedOnDisk'
    BY <1>1, <1>5 DEF SinkInv, AckedOnDisk
  <1>15. CountedIsSettled'
    <2>1. ASSUME NEW k \in SessionKey PROVE Settled(k)' = Settled(k)
      <3>1. Pending = {rec.id}
        BY <1>2, <1>3, PendingLast DEF SinkInv
      <3> QED BY <1>5, <1>7, <1>8, <3>1 DEF Settled
    <2> QED BY <1>1, <2>1 DEF SinkInv, CountedIsSettled
  <1> QED BY <1>6, <1>9, <1>10, <1>11, <1>12, <1>13, <1>14, <1>15 DEF SinkInv

(* A newline, or a part of a record, is no record.                         *)
LEMMA NoRecordAppended ==
    ASSUME SinkTypeOK, NEW x \in {Newline, Torn}, file' = Append(file, x)
    PROVE  SameDisk /\ file' \in Seq(Records \cup {Newline, Torn})
  <1>1. x \notin Records
    BY SentinelAssumption
  <1> QED BY <1>1, Appended DEF SameDisk, Appends

LEMMA NewlineInv ==
    ASSUME SinkInv, NEW w \in Writer, append_newline(w)
    PROVE  SinkInv'
  <1>1. /\ At(w, "newline") /\ InHand(w) /\ file' = Append(file, Newline) /\ Step(w, "sync")
        /\ UNCHANGED <<boot, chain, lock, failures, recovery, stats, stray, acked, numbered,
                       outcomes>>
    BY DEF append_newline, healthVars, historyVars, At, InHand
  <1>2. SinkTypeOK
    BY DEF SinkInv
  <1>3. SameDisk /\ file' \in Seq(Records \cup {Newline, Torn})
    BY <1>1, <1>2, NoRecordAppended
  <1>4. /\ writing' \in [Writer -> Writing]
        /\ writing'[w].step = "sync" /\ writing'[w].rec = writing[w].rec
        /\ \A v \in Writer \ {w} : writing'[v] = writing[v]
    BY <1>1, <1>2, StepType
  <1>5. SinkTypeOK'
    BY <1>1, <1>2, <1>3, <1>4 DEF SinkTypeOK
  <1>6. \A v \in Writer : InHand(v)' =>
           /\ InHand(v) /\ lock' = lock
           /\ writing'[v].rec = writing[v].rec
           /\ At(v, "record")' <=> At(v, "record")
    BY <1>1, <1>4 DEF InHand, At
  <1> QED BY <1>1, <1>3, <1>5, <1>6, QuietStep

(* The writer lets go of its record.                                       *)
LEMMA LetGo ==
    ASSUME SinkInv, NEW w \in Writer, InHand(w),
           writing' = [writing EXCEPT ![w] = NotWriting]
    PROVE  (\A v \in Writer : ~InHand(v)') /\ Pending' = {} /\ writing' \in [Writer -> Writing]
  <1>1. \A v \in Writer : InHand(v) => v = w
    BY DEF SinkInv, HolderIsLast
  <1>2. writing \in [Writer -> Writing]
    BY DEF SinkInv, SinkTypeOK
  <1>3. \A v \in Writer : ~InHand(v)'
    BY <1>1, <1>2 DEF InHand, NotWriting
  <1> QED BY <1>2, <1>3, PendingThen DEF Writing

LEMMA FailInv ==
    ASSUME SinkInv, NEW w \in Writer, write_fails(w)
    PROVE  SinkInv'
  <1>1. /\ InHand(w) /\ lock' = Nobody
        /\ writing' = [writing EXCEPT ![w] = NotWriting]
        /\ failures' = failures + 1 /\ recovery' = 0
        /\ outcomes' = Append(outcomes, FALSE)
        /\ file' = file \/ file' = Append(file, Torn)
        /\ UNCHANGED <<boot, chain, stats, stray, acked, numbered>>
    BY DEF write_fails, InHand, AfterFailure
  <1>2. SinkTypeOK
    BY DEF SinkInv
  <1>3. SameDisk /\ file' \in Seq(Records \cup {Newline, Torn})
    <2>1. CASE file' = file
      BY <1>2, <2>1 DEF SameDisk, OnDisk, SinkTypeOK
    <2>2. CASE file' = Append(file, Torn)
      BY <1>2, <2>2, NoRecordAppended
    <2> QED BY <1>1, <2>1, <2>2
  <1>4. (\A v \in Writer : ~InHand(v)') /\ writing' \in [Writer -> Writing]
    BY <1>1, LetGo
  <1>5. SinkTypeOK'
    BY <1>1, <1>2, <1>3, <1>4 DEF SinkTypeOK
  <1> QED BY <1>1, <1>3, <1>4, <1>5, QuietStep

LEMMA HealthType ==
    ASSUME SinkTypeOK, AfterSuccess
    PROVE  failures' \in Nat /\ recovery' \in Nat
  BY DEF SinkTypeOK, AfterSuccess, healthVars

LEMMA SyncedInv ==
    ASSUME SinkInv, NEW w \in Writer, synced(w)
    PROVE  SinkInv'
  <1>1. /\ At(w, "sync") /\ InHand(w) /\ Step(w, "lookup") /\ AfterSuccess
        /\ outcomes' = Append(outcomes, TRUE)
        /\ UNCHANGED <<boot, chain, lock, stats, file, stray, acked, numbered>>
    BY DEF synced, InHand, At
  <1>2. SinkTypeOK /\ SameDisk
    BY <1>1 DEF SinkInv, SameDisk, OnDisk
  <1>3. /\ writing' \in [Writer -> Writing]
        /\ writing'[w].step = "lookup" /\ writing'[w].rec = writing[w].rec
        /\ \A v \in Writer \ {w} : writing'[v] = writing[v]
    BY <1>1, <1>2, StepType
  <1>4. SinkTypeOK'
    <2>1. failures' \in Nat /\ recovery' \in Nat
      BY <1>1, <1>2, HealthType
    <2> QED BY <1>1, <1>2, <1>3, <2>1 DEF SinkTypeOK
  <1>5. \A v \in Writer : InHand(v)' =>
           /\ InHand(v) /\ lock' = lock
           /\ writing'[v].rec = writing[v].rec
           /\ At(v, "record")' <=> At(v, "record")
    BY <1>1, <1>3 DEF InHand, At
  <1> QED BY <1>1, <1>2, <1>4, <1>5, QuietStep

LEMMA LookupInv ==
    ASSUME SinkInv, NEW w \in Writer, stats_lookup(w)
    PROVE  SinkInv'
  <1> DEFINE rec == writing[w].rec
             k == rec.entry.session
  <1>1. /\ At(w, "lookup") /\ InHand(w) /\ ~At(w, "record")
        /\ UNCHANGED <<boot, chain, failures, recovery, file, stray, numbered, outcomes>>
    BY DEF stats_lookup, healthVars, InHand, At
  <1>2. SinkTypeOK /\ SameDisk /\ rec \in Records
    BY <1>1, InHandType DEF SinkInv, SameDisk, OnDisk
  <1>3. CASE k = NoKey
    <2>1. /\ lock' = Nobody /\ writing' = [writing EXCEPT ![w] = NotWriting]
          /\ acked' = acked \cup {rec} /\ UNCHANGED stats
      BY <1>3 DEF stats_lookup
    <2>2. SinkTypeOK'
      BY <1>1, <1>2, <2>1, LetGo DEF SinkTypeOK
    <2> QED BY <1>1, <2>1, <2>2, AckStep
  <1>4. CASE k # NoKey
    <2>1. /\ Step(w, "count") /\ UNCHANGED <<lock, acked>>
          /\ stats' = IF stats[k] = None THEN [stats EXCEPT ![k] = Zero] ELSE stats
      BY <1>4 DEF stats_lookup
    <2>2. /\ writing' \in [Writer -> Writing]
          /\ writing'[w].step = "count" /\ writing'[w].rec = rec
          /\ \A v \in Writer \ {w} : writing'[v] = writing[v]
      BY <1>1, <1>2, <2>1, StepType
    <2> HIDE DEF rec, k
    <2>3. /\ stats' \in [SessionKey -> Counters \cup {None}]
          /\ \A s \in SessionKey : stats'[s] \in {stats[s], None, Zero}
      BY <1>2, <2>1 DEF SinkTypeOK, Counters, Zero
    <2>4. SinkTypeOK'
      BY <1>1, <1>2, <2>1, <2>2, <2>3 DEF SinkTypeOK
    <2>5. \A v \in Writer : InHand(v)' =>
             /\ InHand(v) /\ lock' = lock
             /\ writing'[v].rec = writing[v].rec
             /\ At(v, "record")' <=> At(v, "record")
      BY <1>1, <2>1, <2>2 DEF InHand, At, rec
    <2> QED BY <1>1, <1>2, <2>1, <2>3, <2>4, <2>5, QuietStep
  <1> QED BY <1>3, <1>4

LEMMA CountInv ==
    ASSUME SinkInv, NEW w \in Writer, stats_count(w)
    PROVE  SinkInv'
  <1> DEFINE rec == writing[w].rec
             k == rec.entry.session
  <1>1. /\ At(w, "count") /\ InHand(w) /\ ~At(w, "record")
        /\ stats' = IF stats[k] = None THEN stats
                    ELSE [stats EXCEPT ![k] = Bump(stats[k], rec.entry)]
        /\ lock' = Nobody /\ writing' = [writing EXCEPT ![w] = NotWriting]
        /\ acked' = acked \cup {rec}
        /\ UNCHANGED <<boot, chain, failures, recovery, file, stray, numbered, outcomes>>
    BY DEF stats_count, healthVars, InHand, At
  <1>2. SinkTypeOK /\ rec \in Records
    BY <1>1, InHandType DEF SinkInv
  <1>3. /\ stats' \in [SessionKey -> Counters \cup {None}]
        /\ \A s \in SessionKey : \/ stats'[s] = stats[s]
                                 \/ /\ k = s /\ stats[s] # None
                                    /\ stats'[s] = Bump(stats[s], rec.entry)
    <2>1. CASE k \notin SessionKey \/ stats[k] = None
      BY <1>1, <1>2, <2>1 DEF SinkTypeOK
    <2>2. CASE k \in SessionKey /\ stats[k] # None
      <3>1. stats[k] \in Counters
        BY <1>2, <2>2 DEF SinkTypeOK
      <3>2. Bump(stats[k], rec.entry) \in Counters
        BY <3>1 DEF Bump, Counters
      <3> HIDE DEF k, rec
      <3> QED BY <1>1, <1>2, <2>2, <3>2 DEF SinkTypeOK
    <2> QED BY <2>1, <2>2
  <1>4. writing' \in [Writer -> Writing]
    BY <1>1, LetGo
  <1>5. SinkTypeOK'
    BY <1>1, <1>2, <1>3, <1>4 DEF SinkTypeOK
  <1> QED BY <1>1, <1>3, <1>5, AckStep

LEMMA RemoveInv ==
    ASSUME SinkInv, NEW k \in SessionKey, remove_session(k)
    PROVE  SinkInv'
  <1>1. /\ stats' = [stats EXCEPT ![k] = None]
        /\ UNCHANGED <<boot, chain, lock, writing, failures, recovery, file, stray, acked, numbered,
                       outcomes>>
    BY DEF remove_session, healthVars, historyVars
  <1>2. SinkTypeOK /\ SameDisk
    BY <1>1 DEF SinkInv, SameDisk, OnDisk
  <1>3. SinkTypeOK' /\ \A s \in SessionKey : stats'[s] \in {stats[s], None, Zero}
    BY <1>1, <1>2 DEF SinkTypeOK
  <1>4. \A v \in Writer : InHand(v)' =>
           /\ InHand(v) /\ lock' = lock
           /\ writing'[v].rec = writing[v].rec
           /\ At(v, "record")' <=> At(v, "record")
    BY <1>1 DEF InHand, At
  <1> QED BY <1>1, <1>2, <1>3, <1>4, QuietStep

(* write is called: the task had nothing in hand.                          *)
LEMMA CallInv ==
    ASSUME SinkInv, NEW c \in Writer, NEW entry \in Entries, writing[c] = NotWriting,
           Call(c, entry),
           UNCHANGED <<boot, chain, lock, failures, recovery, stats, file, stray, acked, numbered,
                       outcomes>>
    PROVE  SinkInv'
  <1> DEFINE new == [step |-> "queued", entry |-> entry]
  <1>1. new \in Writing /\ new.step = "queued"
    BY DEF Writing
  <1>2. writing' = [writing EXCEPT ![c] = new] /\ writing \in [Writer -> Writing]
    BY DEF Call, SinkInv, SinkTypeOK
  <1> HIDE DEF new
  <1>3. SinkTypeOK' /\ SameDisk
    BY <1>1, <1>2 DEF SinkInv, SinkTypeOK, SameDisk, OnDisk
  <1>4. \A v \in Writer : InHand(v)' =>
           /\ InHand(v) /\ lock' = lock
           /\ writing'[v].rec = writing[v].rec
           /\ At(v, "record")' <=> At(v, "record")
    BY <1>1, <1>2 DEF InHand, At
  <1> QED BY <1>3, <1>4, QuietStep

(* A write is dropped: what it leaves behind is never acknowledged.        *)
LEMMA DropInv ==
    ASSUME SinkInv, NEW w \in Writer, DropWrite(w)
    PROVE  SinkInv'
  <1>1. /\ lock' = IF lock = w THEN Nobody ELSE lock
        /\ writing' = [writing EXCEPT ![w] = NotWriting]
        /\ UNCHANGED <<boot, chain, failures, recovery, stats, file, acked, numbered, outcomes>>
    BY DEF DropWrite, healthVars, historyVars
  <1>2. SinkTypeOK /\ SameDisk /\ writing \in [Writer -> Writing]
    BY <1>1 DEF SinkInv, SinkTypeOK, SameDisk, OnDisk
  <1>3. \A v \in Writer : InHand(v)' =>
           /\ v # w /\ InHand(v) /\ lock' = lock
           /\ writing'[v] = writing[v]
    <2>1. \A v \in Writer : InHand(v)' => v # w /\ writing'[v] = writing[v]
      BY <1>1, <1>2 DEF InHand, NotWriting
    <2>2. \A v \in Writer : InHand(v) => lock = v
      BY DEF SinkInv, HolderIsLast
    <2> QED BY <1>1, <2>1, <2>2 DEF InHand
  <1>4. PICK left \in LeftBehind(w) : stray' = stray \cup left
    BY DEF DropWrite
  <1>5. ASSUME NEW p \in left
        PROVE  /\ p \in [piece: Records \cup {Newline}, by: Nat \X Nat]
               /\ p.piece # Newline =>
                     Numbered(p.piece.id) /\ p.piece.id \notin AckedIds \cup Pending'
    <2>1. CASE At(w, "record")
      <3>1. InHand(w) /\ p = [piece |-> writing[w].rec, by |-> writing[w].rec.id]
        BY <1>4, <1>5, <2>1 DEF LeftBehind, At, InHand
      <3>2. writing[w].rec \in Records /\ writing[w].rec.id \in Nat \X Nat
        BY <1>2, <3>1, InHandType, RecordType
      <3>3. writing[w].rec.id \in Pending /\ writing[w].rec.id \notin AckedIds
        BY <3>1, PendingIs DEF SinkInv, InHandIsNew
      <3>4. Pending' = {}
        BY <1>1, <3>1, LetGo
      <3>5. Numbered(writing[w].rec.id)
        BY <1>2, <3>3, PendingLast DEF SinkInv
      <3> QED BY <3>1, <3>2, <3>3, <3>4, <3>5
    <2>2. CASE At(w, "newline")
      <3>1. InHand(w) /\ p = [piece |-> Newline, by |-> writing[w].rec.id]
        BY <1>4, <1>5, <2>2 DEF LeftBehind, At, InHand
      <3>2. writing[w].rec.id \in Nat \X Nat
        BY <1>2, <3>1, InHandType, RecordType
      <3> QED BY <3>1, <3>2
    <2>3. CASE ~At(w, "record") /\ ~At(w, "newline")
      BY <1>4, <1>5, <2>3 DEF LeftBehind
    <2> QED BY <2>1, <2>2, <2>3
  <1>6. SinkTypeOK'
    <2>1. stray' \subseteq [piece: Records \cup {Newline}, by: Nat \X Nat]
      BY <1>2, <1>4, <1>5 DEF SinkTypeOK
    <2>2. writing' \in [Writer -> Writing]
      BY <1>1, <1>2 DEF Writing
    <2> QED BY <1>1, <1>2, <2>1, <2>2 DEF SinkTypeOK
  <1>7. \A v \in Writer : InHand(v)' =>
           /\ InHand(v) /\ lock' = lock
           /\ writing'[v].rec = writing[v].rec
           /\ At(v, "record")' <=> At(v, "record")
    BY <1>3 DEF At
  <1>8. \A p \in stray' \ stray : p.piece # Newline =>
           Numbered(p.piece.id) /\ p.piece.id \notin AckedIds \cup Pending'
    BY <1>4, <1>5
  <1> QED BY <1>1, <1>2, <1>6, <1>7, <1>8, QuietStep

(* A stray piece lands, out of its order.                                  *)
LEMMA StrayInv ==
    ASSUME SinkInv, stray_lands
    PROVE  SinkInv'
  <1>1. PICK p \in stray : /\ file' = Append(file, p.piece)
                           /\ stray' = stray \ {p}
                           /\ UNCHANGED <<boot, chain, lock, writing, failures, recovery, stats,
                                          acked, numbered, outcomes>>
    BY DEF stray_lands, healthVars, historyVars
  <1> DEFINE x == p.piece
             last == Len(file) + 1
  <1>2. SinkTypeOK /\ x \in Records \cup {Newline}
    BY DEF SinkInv, SinkTypeOK
  <1>3. /\ \A v \in Writer : InHand(v)' <=> InHand(v)
        /\ Pending' = Pending /\ AckedIds' = AckedIds
    BY <1>1 DEF InHand, Pending, AckedIds
  <1>4. CASE x = Newline
    <2>1. SameDisk /\ file' \in Seq(Records \cup {Newline, Torn})
      BY <1>1, <1>2, <1>4, NoRecordAppended
    <2>2. SinkTypeOK'
      BY <1>1, <1>2, <2>1 DEF SinkTypeOK
    <2>3. \A v \in Writer : InHand(v)' =>
             /\ InHand(v) /\ lock' = lock
             /\ writing'[v].rec = writing[v].rec
             /\ At(v, "record")' <=> At(v, "record")
      BY <1>1, <1>3 DEF At
    <2> QED BY <1>1, <2>1, <2>2, <2>3, QuietStep
  <1>5. CASE x # Newline
    <2>1. x \in Records /\ Numbered(x.id) /\ x.id \notin AckedIds \cup Pending
      BY <1>2, <1>5 DEF SinkInv, StrayIsLost
    <2>2. x \in Records \cup {Newline, Torn} /\ Appends(x)
      BY <1>1, <2>1 DEF Appends
    <2> HIDE DEF x
    <2>3. /\ file' \in Seq(Records \cup {Newline, Torn})
          /\ \A i \in OnDisk : i \in OnDisk' /\ file'[i] = file[i]
          /\ \A i \in OnDisk' : \/ i \in OnDisk /\ file'[i] = file[i]
                                \/ i = last /\ file'[i] = x
          /\ \A i \in OnDisk : i < last
          /\ last \in Nat
      BY <1>2, <2>1, <2>2, Appended
    <2> HIDE DEF last
    <2>4. SinkTypeOK'
      BY <1>1, <1>2, <2>3 DEF SinkTypeOK
    <2>5. HolderIsLast'
      BY <1>1, <1>3 DEF SinkInv, HolderIsLast
    <2>6. NumberedOnly'
      BY <1>1, <2>1, <2>3 DEF SinkInv, NumberedOnly, Numbered
    <2>7. InHandIsNew'
      <3> SUFFICES ASSUME NEW w \in Writer, InHand(w)
                   PROVE  /\ writing[w].rec.id \notin AckedIds
                          /\ At(w, "record") => \A i \in OnDisk' : file'[i].id # writing[w].rec.id
                          /\ ~At(w, "record") => \E i \in OnDisk' : file'[i] = writing[w].rec
        BY <1>1, <1>3 DEF InHandIsNew, At
      <3>1. writing[w].rec.id \in Pending
        BY PendingIs
      <3> QED BY <2>1, <2>3, <3>1 DEF SinkInv, InHandIsNew
    <2>8. StrayIsLost'
      BY <1>1, <1>3 DEF SinkInv, StrayIsLost, Numbered
    <2>9. SequenceOrder'
      <3> SUFFICES ASSUME NEW i \in OnDisk', NEW j \in OnDisk', i < j,
                          file'[i].id[1] = file'[j].id[1],
                          file'[j].id \in AckedIds \cup Pending
                   PROVE  file'[i].id[2] < file'[j].id[2]
        BY <1>3 DEF SequenceOrder
      <3>1. j \in OnDisk /\ file'[j] = file[j]
        BY <2>1, <2>3
      <3>2. j < last /\ j \in Nat
        BY <1>2, <2>3, <3>1, DiskType
      <3>3. i # last
        BY <2>3, <3>2
      <3>4. i \in OnDisk /\ file'[i] = file[i]
        BY <2>3, <3>3
      <3> QED BY <3>1, <3>4 DEF SinkInv, SequenceOrder
    <2>10. AckedOnDisk'
      BY <1>1, <2>3 DEF SinkInv, AckedOnDisk
    <2>11. CountedIsSettled'
      <3> SUFFICES ASSUME NEW k \in SessionKey, stats[k] # None
                   PROVE  stats[k].denied <= Cardinality(Settled(k)')
        BY <1>1 DEF CountedIsSettled
      <3>1. Settled(k) \subseteq Settled(k)' /\ Settled(k)' \subseteq OnDisk'
        BY <1>3, <2>3 DEF Settled
      <3>2. IsFiniteSet(OnDisk')
        <4>1. OnDisk' \subseteq 1..Len(file') /\ Len(file') \in Nat
          BY <2>4 DEF SinkTypeOK, OnDisk
        <4>2. IsFiniteSet(1..Len(file'))
          BY <4>1, FS_Interval
        <4> QED BY <4>1, <4>2, FS_Subset
      <3>3. /\ Cardinality(Settled(k)) \in Nat /\ Cardinality(Settled(k)') \in Nat
            /\ Cardinality(Settled(k)) <= Cardinality(Settled(k)')
        BY <3>1, <3>2, FS_Subset, FS_CardinalityType
      <3>4. stats[k].denied \in Nat /\ stats[k].denied <= Cardinality(Settled(k))
        BY DEF SinkInv, SinkTypeOK, CountedIsSettled, Counters
      <3> QED BY <3>3, <3>4
    <2> QED BY <2>4, <2>5, <2>6, <2>7, <2>8, <2>9, <2>10, <2>11 DEF SinkInv
  <1> QED BY <1>4, <1>5

(* The chain begins anew, under a number no record on disk has.            *)
LEMMA RestartInv ==
    ASSUME SinkInv, sink_restart
    PROVE  SinkInv'
  <1>1. /\ boot < MaxBoots /\ boot' = boot + 1 /\ chain' = 0 /\ lock' = Nobody
        /\ writing' = [w \in Writer |-> NotWriting] /\ failures' = 0 /\ recovery' = 0
        /\ stats' = [k \in SessionKey |-> None] /\ stray' = {} /\ outcomes' = <<>>
        /\ UNCHANGED <<file, acked, numbered>>
    BY DEF sink_restart
  <1>2. SinkTypeOK /\ boot \in Nat /\ chain \in Nat /\ OnDisk' = OnDisk
    BY <1>1, SinkAssumption DEF SinkInv, SinkTypeOK, OnDisk
  <1>3. SinkTypeOK'
    BY <1>1, <1>2, SinkAssumption DEF SinkTypeOK, Writing
  <1>4. (\A v \in Writer : ~InHand(v)') /\ Pending' = {} /\ AckedIds' = AckedIds
    <2>1. \A v \in Writer : ~InHand(v)'
      BY <1>1 DEF InHand, NotWriting
    <2> QED BY <1>1, <2>1, PendingThen DEF AckedIds
  <1>5. HolderIsLast' /\ InHandIsNew'
    BY <1>4 DEF HolderIsLast, InHandIsNew
  <1>6. NumberedOnly'
    <2>1. ASSUME NEW x \in Records, Numbered(x.id) PROVE Numbered(x.id)'
      BY <1>1, <1>2, <2>1, RecordType DEF Numbered
    <2> QED BY <1>1, <1>2, <2>1, DiskType DEF SinkInv, NumberedOnly, SinkTypeOK
  <1>7. StrayIsLost'
    BY <1>1 DEF StrayIsLost
  <1>8. SequenceOrder'
    BY <1>1, <1>2, <1>4 DEF SinkInv, SequenceOrder
  <1>9. AckedOnDisk'
    BY <1>1, <1>2 DEF SinkInv, AckedOnDisk
  <1>10. CountedIsSettled'
    BY <1>1 DEF CountedIsSettled
  <1> QED BY <1>3, <1>5, <1>6, <1>7, <1>8, <1>9, <1>10 DEF SinkInv

LEMMA SinkUnchanged ==
    ASSUME SinkInv, UNCHANGED sinkVars
    PROVE  SinkInv'
  <1>1. UNCHANGED <<boot, chain, lock, writing, failures, recovery, stats, file, stray, acked,
                    numbered, outcomes>>
    BY DEF sinkVars
  <1>2. SameDisk /\ SinkTypeOK'
    BY <1>1 DEF SinkInv, SinkTypeOK, SameDisk, OnDisk
  <1>3. \A v \in Writer : InHand(v)' =>
           /\ InHand(v) /\ lock' = lock
           /\ writing'[v].rec = writing[v].rec
           /\ At(v, "record")' <=> At(v, "record")
    BY <1>1 DEF InHand, At
  <1> QED BY <1>1, <1>2, <1>3, QuietStep

LEMMA SinkStep ==
    ASSUME SinkInv, SinkNext
    PROVE  SinkInv'
  BY AssignInv, AppendInv, NewlineInv, FailInv, SyncedInv, LookupInv, CountInv, RemoveInv,
     StrayInv DEF SinkNext

-----------------------------------------------------------------------------
(* Connections and answers.                                                *)

LEMMA EndedCounts ==
    ASSUME NEW S \in SUBSET Writer
    PROVE  IsFiniteSet(S) /\ Cardinality(S) \in Nat
  BY SinkAssumption, FS_Subset, FS_CardinalityType

LEMMA EndedType ==
    /\ Ended \in SUBSET Writer /\ Ended' \in SUBSET Writer
  BY DEF Ended

(* No further write has ended, and nobody is answered, ...                 *)
LEMMA EndedKeeps ==
    ASSUME ProxyInv, Ended' \subseteq Ended, UNCHANGED <<answers, outcomes>>
    PROVE  AnswersFollowOutcomes'
  <1>1. Cardinality(Ended') <= Cardinality(Ended)
    BY EndedType, EndedCounts, FS_Subset
  <1>2. Cardinality(Ended') \in Nat /\ Cardinality(Ended) \in Nat
    BY EndedType, EndedCounts
  <1>3. answers \in Nat /\ Len(outcomes) \in Nat /\ answers + Cardinality(Ended) <= Len(outcomes)
    BY DEF ProxyInv, TypeOK, SinkTypeOK, AnswersFollowOutcomes
  <1> QED BY <1>1, <1>2, <1>3 DEF AnswersFollowOutcomes

(* ... or a write has ended and its outcome is noted, ...                  *)
LEMMA EndedGains ==
    ASSUME ProxyInv, NEW w \in Writer, Ended' \subseteq Ended \cup {w},
           NEW ok \in BOOLEAN, outcomes' = Append(outcomes, ok), UNCHANGED answers
    PROVE  AnswersFollowOutcomes'
  <1>1. Ended \cup {w} \in SUBSET Writer
    BY EndedType
  <1>2. /\ Cardinality(Ended') \in Nat /\ Cardinality(Ended) \in Nat
        /\ Cardinality(Ended \cup {w}) \in Nat
        /\ IsFiniteSet(Ended) /\ IsFiniteSet(Ended \cup {w})
    BY <1>1, EndedType, EndedCounts
  <1>3. Cardinality(Ended') <= Cardinality(Ended \cup {w})
    BY <1>2, FS_Subset
  <1>4. Cardinality(Ended \cup {w}) <= Cardinality(Ended) + 1
    <2>1. CASE w \in Ended
      <3> DEFINE both == Ended \cup {w}
      <3>1. both = Ended
        BY <2>1
      <3> HIDE DEF both
      <3>2. Cardinality(both) = Cardinality(Ended)
        BY <3>1
      <3>3. Cardinality(both) <= Cardinality(Ended) + 1
        BY <1>2, <3>2
      <3> QED BY <3>3 DEF both
    <2>2. CASE w \notin Ended
      <3>1. Cardinality(Ended \cup {w}) = Cardinality(Ended) + 1
        BY <1>2, <2>2, FS_AddElement
      <3> QED BY <1>2, <3>1
    <2> QED BY <2>1, <2>2
  <1>5. answers \in Nat /\ outcomes \in Seq(BOOLEAN)
        /\ answers + Cardinality(Ended) <= Len(outcomes)
    BY DEF ProxyInv, TypeOK, SinkTypeOK, AnswersFollowOutcomes
  <1>6. Len(outcomes') = Len(outcomes) + 1 /\ Len(outcomes) \in Nat
    BY <1>5
  <1>7. answers' + Cardinality(Ended') <= Len(outcomes')
    BY <1>2, <1>3, <1>4, <1>5, <1>6
  <1> QED BY <1>7 DEF AnswersFollowOutcomes

(* ... or one that has is answered.                                        *)
LEMMA EndedAnswered ==
    ASSUME ProxyInv, NEW c \in Ended, Ended' = Ended \ {c}, answers' = answers + 1,
           UNCHANGED outcomes
    PROVE  AnswersFollowOutcomes'
  <1>1. IsFiniteSet(Ended) /\ Cardinality(Ended) \in Nat /\ Cardinality(Ended') = Cardinality(Ended) - 1
    BY EndedType, EndedCounts, FS_RemoveElement
  <1>2. answers \in Nat /\ Len(outcomes) \in Nat /\ answers + Cardinality(Ended) <= Len(outcomes)
    BY DEF ProxyInv, TypeOK, SinkTypeOK, AnswersFollowOutcomes
  <1> QED BY <1>1, <1>2 DEF AnswersFollowOutcomes

(* Steps of the sink, the connections standing still.                      *)
LEMMA SinkMoves ==
    ASSUME ProxyInv, SinkNext, UNCHANGED proxyVars
    PROVE  ProxyInv'
  <1>1. SinkInv' /\ UNCHANGED <<conn, issued, answers>>
    BY SinkStep DEF ProxyInv, proxyVars
  <1>2. TypeOK'
    BY <1>1 DEF ProxyInv, TypeOK, SinkInv
  <1>3. writing \in [Writer -> Writing]
    BY DEF ProxyInv, TypeOK, SinkTypeOK
  <1>4. ASSUME NEW w \in Writer, NEW new, writing[w] # NotWriting,
               writing' = [writing EXCEPT ![w] = new]
        PROVE  /\ WritesWhileAuditing'
               /\ Ended' \subseteq Ended \cup {w}
               /\ \/ new.step \notin {"none", "lookup", "count"}
                  \/ writing[w].step \in {"lookup", "count"}
                  => Ended' \subseteq Ended
    <2>1. writing'[w] = new /\ \A v \in Writer \ {w} : writing'[v] = writing[v]
      BY <1>3, <1>4
    <2>2. conn[w].step = "audit"
      BY <1>4 DEF ProxyInv, WritesWhileAuditing
    <2> QED BY <1>1, <2>1, <2>2 DEF ProxyInv, WritesWhileAuditing, Ended
  <1>5. ASSUME NEW w \in Writer,
               \/ assign(w) \/ append_record(w) \/ append_newline(w)
               \/ stats_lookup(w) \/ stats_count(w)
        PROVE  WritesWhileAuditing' /\ AnswersFollowOutcomes'
    <2>1. UNCHANGED outcomes /\ writing[w] # NotWriting
      BY <1>5 DEF assign, append_record, append_newline, stats_lookup, stats_count, historyVars,
                  At, NotWriting
    <2>2. /\ WritesWhileAuditing' /\ Ended' \subseteq Ended
      <3>1. CASE assign(w)
        <4> DEFINE new == [step |-> "record", rec |-> NextRecord(w)]
        <4>1. writing' = [writing EXCEPT ![w] = new] /\ new.step = "record"
          BY <3>1 DEF assign
        <4> HIDE DEF new
        <4> QED BY <1>4, <2>1, <4>1
      <3>2. ASSUME NEW step, Step(w, step),
                   \/ step \in {"newline", "sync"}
                   \/ writing[w].step \in {"lookup", "count"}
            PROVE  WritesWhileAuditing' /\ Ended' \subseteq Ended
        <4> DEFINE new == [writing[w] EXCEPT !.step = step]
        <4>1. writing' = [writing EXCEPT ![w] = new]
          BY <3>2 DEF Step
        <4>2. new.step \notin {"none", "lookup", "count"} \/ writing[w].step \in {"lookup", "count"}
          <5>1. CASE step \in {"newline", "sync"}
            <6>1. writing[w] \in Writing
              BY <1>3
            <6>2. new.step = step
              BY <6>1 DEF Writing, NotWriting
            <6> QED BY <5>1, <6>2
          <5> QED BY <3>2, <5>1
        <4> HIDE DEF new
        <4> QED BY <1>4, <2>1, <4>1, <4>2
      <3>3. CASE append_record(w) \/ append_newline(w)
        <4>1. Step(w, "newline") \/ Step(w, "sync")
          BY <3>3 DEF append_record, append_newline
        <4> QED BY <3>2, <4>1
      <3>4. CASE stats_lookup(w) \/ stats_count(w)
        <4>1. /\ writing[w].step \in {"lookup", "count"}
              /\ Step(w, "count") \/ writing' = [writing EXCEPT ![w] = NotWriting]
          BY <3>4 DEF stats_lookup, stats_count, At
        <4>2. CASE Step(w, "count")
          BY <3>2, <4>1, <4>2
        <4>3. CASE writing' = [writing EXCEPT ![w] = NotWriting]
          BY <1>4, <2>1, <4>1, <4>3
        <4> QED BY <4>1, <4>2, <4>3
      <3> QED BY <1>5, <3>1, <3>3, <3>4
    <2> QED BY <1>1, <2>1, <2>2, EndedKeeps
  <1>6. ASSUME NEW w \in Writer, write_fails(w) \/ synced(w)
        PROVE  WritesWhileAuditing' /\ AnswersFollowOutcomes'
    <2> DEFINE looked == [writing[w] EXCEPT !.step = "lookup"]
    <2>1. writing[w] # NotWriting
      <3>1. writing[w].step \in {"record", "newline", "sync"}
        BY <1>6 DEF write_fails, synced, At
      <3> QED BY <3>1 DEF NotWriting
    <2>2. \/ writing' = [writing EXCEPT ![w] = NotWriting]
          \/ writing' = [writing EXCEPT ![w] = looked]
      <3>1. CASE write_fails(w)
        BY <3>1 DEF write_fails
      <3>2. CASE synced(w)
        <4>1. Step(w, "lookup")
          BY <3>2 DEF synced
        <4>2. writing' = [writing EXCEPT ![w] = looked]
          BY <4>1 DEF Step
        <4> QED BY <4>2
      <3> QED BY <1>6, <3>1, <3>2
    <2>3. \E ok \in BOOLEAN : outcomes' = Append(outcomes, ok)
      BY <1>6 DEF write_fails, synced
    <2> HIDE DEF looked
    <2>4. WritesWhileAuditing' /\ Ended' \subseteq Ended \cup {w}
      BY <1>4, <2>1, <2>2
    <2> QED BY <1>1, <2>3, <2>4, EndedGains
  <1>7. CASE (\E k \in SessionKey : remove_session(k)) \/ stray_lands
    <2>1. UNCHANGED <<writing, outcomes>>
      BY <1>7 DEF remove_session, stray_lands, historyVars
    <2>2. WritesWhileAuditing' /\ Ended' = Ended
      BY <1>1, <2>1 DEF ProxyInv, WritesWhileAuditing, Ended
    <2> QED BY <1>1, <1>2, <2>1, <2>2, EndedKeeps DEF ProxyInv
  <1> QED BY <1>1, <1>2, <1>5, <1>6, <1>7 DEF ProxyInv, SinkNext

(* A connection takes a step; the sink's part is done.                     *)
LEMMA ConnMoves ==
    ASSUME ProxyInv, SinkInv', NEW c \in Writer, NEW to \in Conns, Go(c, to),
           issued' \in 0..MaxWrites, UNCHANGED <<answers, outcomes>>,
           \A v \in Writer \ {c} : writing'[v] = writing[v],
           to.step # "audit" => writing'[c] = NotWriting,
           to.step = "audit" => writing'[c].step = "queued"
    PROVE  ProxyInv'
  <1>1. conn \in [Writer -> Conns] /\ conn' = [conn EXCEPT ![c] = to]
    BY DEF ProxyInv, TypeOK, Go
  <1>2. conn' \in [Writer -> Conns] /\ conn'[c] = to /\ \A v \in Writer \ {c} : conn'[v] = conn[v]
    BY <1>1
  <1>3. TypeOK'
    BY <1>2 DEF ProxyInv, TypeOK, SinkInv
  <1>4. WritesWhileAuditing'
    BY <1>2 DEF ProxyInv, WritesWhileAuditing
  <1>5. Ended' \subseteq Ended
    BY <1>2 DEF Ended
  <1>6. AnswersFollowOutcomes'
    BY <1>5, EndedKeeps
  <1> QED BY <1>3, <1>4, <1>6 DEF ProxyInv

(* An entry is handed to the sink.                                         *)
LEMMA AuditMoves ==
    ASSUME ProxyInv, NEW c \in Writer, NEW q \in Requests,
           NEW decision \in {"allow", "deny"}, conn[c].step # "audit", Audit(c, q, decision),
           issued' \in 0..MaxWrites
    PROVE  ProxyInv'
  <1> DEFINE entry == [session |-> q.session, decision |-> decision, flagged |-> FALSE]
             to == [step |-> "audit"]
  <1>1. entry \in Entries
    BY ProxyAssumption DEF Entries, HttpRequests
  <1>2. to \in Conns /\ to.step = "audit"
    BY DEF Conns
  <1>3. /\ Go(c, to) /\ Call(c, entry)
        /\ UNCHANGED <<boot, chain, lock, failures, recovery, stats, file, stray, acked, numbered,
                       outcomes>>
        /\ UNCHANGED <<answers, outcomes>>
    BY DEF Audit, healthVars, historyVars
  <1>4. writing[c] = NotWriting /\ writing \in [Writer -> Writing]
    BY DEF ProxyInv, WritesWhileAuditing, TypeOK, SinkTypeOK
  <1> HIDE DEF entry, to
  <1>5. SinkInv'
    BY <1>1, <1>3, <1>4, CallInv DEF ProxyInv
  <1>6. writing'[c].step = "queued" /\ \A v \in Writer \ {c} : writing'[v] = writing[v]
    BY <1>3, <1>4 DEF Call
  <1> QED BY <1>2, <1>3, <1>5, <1>6, ConnMoves

LEMMA ClosedType == Closed \in Conns /\ Closed.step = "closed" /\ [step |-> "idle"] \in Conns
  BY DEF Closed, Conns

LEMMA AcceptInv ==
    ASSUME ProxyInv, NEW c \in Writer, accept(c)
    PROVE  ProxyInv'
  <1> DEFINE to == [step |-> "idle"]
  <1>1. conn[c] = Closed /\ Go(c, to) /\ UNCHANGED <<sinkVars, issued, answers>>
    BY DEF accept
  <1>2. to \in Conns /\ to.step = "idle"
    BY ClosedType
  <1>3. writing[c] = NotWriting /\ issued \in 0..MaxWrites
    BY <1>1, ClosedType DEF ProxyInv, WritesWhileAuditing, TypeOK
  <1>4. SinkInv' /\ UNCHANGED <<writing, answers, outcomes>>
    BY <1>1, SinkUnchanged DEF ProxyInv, sinkVars
  <1> HIDE DEF to
  <1> QED BY <1>1, <1>2, <1>3, <1>4, ConnMoves

LEMMA ForwardInv ==
    ASSUME ProxyInv, NEW c \in Writer, NEW q \in Requests, forward(c, q)
    PROVE  ProxyInv'
  <1> DEFINE to == [step |-> "upstream", req |-> q]
  <1>1. /\ conn[c].step = "idle" /\ issued < MaxWrites /\ issued' = issued + 1
        /\ Go(c, to) /\ UNCHANGED <<sinkVars, answers>>
    BY DEF forward, Arrives
  <1>2. to \in Conns /\ to.step = "upstream"
    BY DEF Conns
  <1>3. writing[c] = NotWriting /\ issued' \in 0..MaxWrites
    BY <1>1, SinkAssumption DEF ProxyInv, WritesWhileAuditing, TypeOK
  <1>4. SinkInv' /\ UNCHANGED <<writing, answers, outcomes>>
    BY <1>1, SinkUnchanged DEF ProxyInv, sinkVars
  <1> HIDE DEF to
  <1> QED BY <1>1, <1>2, <1>3, <1>4, ConnMoves

LEMMA ParseFailsInv ==
    ASSUME ProxyInv, NEW c \in Writer, NEW q \in Requests, parse_fails(c, q)
    PROVE  ProxyInv'
  <1>1. /\ conn[c].step = "idle" /\ issued < MaxWrites /\ issued' = issued + 1
        /\ Go(c, Closed) /\ UNCHANGED <<sinkVars, answers>>
    BY DEF parse_fails, Arrives
  <1>2. writing[c] = NotWriting /\ issued' \in 0..MaxWrites
    BY <1>1, SinkAssumption DEF ProxyInv, WritesWhileAuditing, TypeOK
  <1>3. SinkInv' /\ UNCHANGED <<writing, answers, outcomes>>
    BY <1>1, SinkUnchanged DEF ProxyInv, sinkVars
  <1> QED BY <1>1, <1>2, <1>3, ClosedType, ConnMoves

LEMMA RejectInv ==
    ASSUME ProxyInv, NEW c \in Writer, NEW q \in Requests, reject(c, q)
    PROVE  ProxyInv'
  <1>1. conn[c].step # "audit" /\ Audit(c, q, "deny") /\ issued' \in 0..MaxWrites
    BY SinkAssumption DEF reject, Arrives, ProxyInv, TypeOK
  <1> QED BY <1>1, AuditMoves

LEMMA DoneInv ==
    ASSUME ProxyInv, NEW c \in Writer, upstream_done(c)
    PROVE  ProxyInv'
  <1>1. /\ conn[c].step = "upstream" /\ Audit(c, conn[c].req, "allow") /\ issued' \in 0..MaxWrites
    BY DEF upstream_done, ProxyInv, TypeOK
  <1>2. conn[c].req \in Requests
    BY <1>1 DEF ProxyInv, TypeOK, Conns
  <1> QED BY <1>1, <1>2, AuditMoves

(* write has returned, so its outcome is noted.                            *)
LEMMA AnswerInv ==
    ASSUME ProxyInv, NEW c \in Writer, answer(c)
    PROVE  ProxyInv'
  <1> DEFINE to == [step |-> "idle"]
  <1>1. /\ conn[c].step = "audit" /\ writing[c].step = "none" /\ conn' = [conn EXCEPT ![c] = to]
        /\ answers' = answers + 1 /\ UNCHANGED <<sinkVars, issued>>
    BY DEF answer, At, Go
  <1>2. SinkInv' /\ UNCHANGED <<writing, outcomes>> /\ issued' = issued
    BY <1>1, SinkUnchanged DEF ProxyInv, sinkVars
  <1>3. writing[c] = NotWriting
    BY <1>1 DEF ProxyInv, TypeOK, SinkTypeOK, Writing
  <1>4. conn \in [Writer -> Conns] /\ to \in Conns /\ to.step = "idle"
    BY ClosedType DEF ProxyInv, TypeOK
  <1> HIDE DEF to
  <1>5. conn' \in [Writer -> Conns] /\ conn'[c] = to /\ \A v \in Writer \ {c} : conn'[v] = conn[v]
    BY <1>1, <1>4
  <1>6. TypeOK'
    BY <1>1, <1>2, <1>5 DEF ProxyInv, TypeOK, SinkInv
  <1>7. WritesWhileAuditing'
    BY <1>2, <1>3, <1>5 DEF ProxyInv, WritesWhileAuditing
  <1>8. c \in Ended /\ Ended' = Ended \ {c}
    BY <1>1, <1>2, <1>4, <1>5 DEF Ended
  <1>9. AnswersFollowOutcomes'
    BY <1>1, <1>2, <1>8, EndedAnswered
  <1> QED BY <1>2, <1>6, <1>7, <1>9 DEF ProxyInv

LEMMA GoneInv ==
    ASSUME ProxyInv, NEW c \in Writer, client_gone(c)
    PROVE  ProxyInv'
  <1>1. Go(c, Closed) /\ DropWrite(c) /\ UNCHANGED <<issued, answers>>
    BY DEF client_gone
  <1>2. SinkInv' /\ UNCHANGED outcomes
    BY <1>1, DropInv DEF ProxyInv, DropWrite, historyVars
  <1>3. writing'[c] = NotWriting /\ \A v \in Writer \ {c} : writing'[v] = writing[v]
    BY <1>1 DEF DropWrite, ProxyInv, TypeOK, SinkTypeOK
  <1>4. issued' \in 0..MaxWrites
    BY <1>1 DEF ProxyInv, TypeOK
  <1> QED BY <1>1, <1>2, <1>3, <1>4, ClosedType, ConnMoves

LEMMA ProxyRestartInv ==
    ASSUME ProxyInv, restart
    PROVE  ProxyInv'
  <1>1. /\ conn' = [c \in Writer |-> Closed] /\ sink_restart /\ answers' = 0 /\ issued' = issued
        /\ writing' = [w \in Writer |-> NotWriting] /\ outcomes' = <<>>
    BY DEF restart, sink_restart
  <1>2. SinkInv'
    BY <1>1, RestartInv DEF ProxyInv
  <1>3. TypeOK'
    BY <1>1, <1>2, ClosedType DEF ProxyInv, TypeOK, SinkInv
  <1>4. WritesWhileAuditing'
    BY <1>1 DEF WritesWhileAuditing
  <1>5. AnswersFollowOutcomes'
    <2>1. Ended' = {}
      BY <1>1, ClosedType DEF Ended
    <2>2. Cardinality(Ended') = 0
      BY <2>1, FS_EmptySet
    <2> QED BY <1>1, <2>2 DEF AnswersFollowOutcomes
  <1> QED BY <1>2, <1>3, <1>4, <1>5 DEF ProxyInv

LEMMA StillInv ==
    ASSUME ProxyInv, UNCHANGED allVars
    PROVE  ProxyInv'
  <1>1. UNCHANGED sinkVars /\ UNCHANGED <<conn, issued, answers>> /\ UNCHANGED <<writing, outcomes>>
    BY DEF allVars, proxyVars, sinkVars
  <1>2. SinkInv'
    BY <1>1, SinkUnchanged DEF ProxyInv
  <1>3. TypeOK' /\ WritesWhileAuditing' /\ Ended' = Ended
    BY <1>1, <1>2 DEF ProxyInv, TypeOK, SinkInv, WritesWhileAuditing, Ended
  <1> QED BY <1>1, <1>2, <1>3, EndedKeeps DEF ProxyInv

-----------------------------------------------------------------------------
LEMMA InitProxyInv == Init => ProxyInv
  <1> SUFFICES ASSUME Init PROVE ProxyInv
    OBVIOUS
  <1>1. /\ boot = 1 /\ chain = 0 /\ lock = Nobody /\ writing = [w \in Writer |-> NotWriting]
        /\ failures = 0 /\ recovery = 0 /\ stats = [k \in SessionKey |-> None] /\ file = <<>>
        /\ stray = {} /\ acked = {} /\ numbered = 0 /\ outcomes = <<>>
        /\ conn = [c \in Writer |-> Closed] /\ issued = 0 /\ answers = 0
    BY DEF Init, SinkInit
  <1>2. SinkTypeOK
    BY <1>1, SinkAssumption DEF SinkTypeOK, Writing
  <1>3. OnDisk = {} /\ \A w \in Writer : ~InHand(w)
    BY <1>1 DEF OnDisk, InHand, NotWriting
  <1>4. SinkInv
    BY <1>1, <1>2, <1>3 DEF SinkInv, HolderIsLast, NumberedOnly, InHandIsNew, StrayIsLost,
                            SequenceOrder, AckedOnDisk, CountedIsSettled
  <1>5. TypeOK
    BY <1>1, <1>2, ClosedType, SinkAssumption DEF TypeOK
  <1>6. WritesWhileAuditing
    BY <1>1 DEF WritesWhileAuditing
  <1>7. Ended = {}
    BY <1>1, ClosedType DEF Ended
  <1>8. Cardinality(Ended) = 0
    BY <1>7, FS_EmptySet
  <1>9. AnswersFollowOutcomes
    BY <1>1, <1>8 DEF AnswersFollowOutcomes
  <1> QED BY <1>4, <1>5, <1>6, <1>9 DEF ProxyInv

LEMMA NextProxyInv == ProxyInv /\ [Next]_allVars => ProxyInv'
  <1> SUFFICES ASSUME ProxyInv, [Next]_allVars PROVE ProxyInv'
    OBVIOUS
  <1>1. ASSUME NEW c \in Writer, accept(c) \/ ConnNext(c) PROVE ProxyInv'
    BY <1>1, AcceptInv, StillInv, RejectInv, ForwardInv, ParseFailsInv, DoneInv, AnswerInv, GoneInv
       DEF ConnNext, health
  <1>2. CASE SinkNext /\ UNCHANGED proxyVars
    BY <1>2, SinkMoves
  <1>3. CASE restart
    BY <1>3, ProxyRestartInv
  <1>4. CASE UNCHANGED allVars
    BY <1>4, StillInv
  <1> QED BY <1>1, <1>2, <1>3, <1>4 DEF Next

(* The types, who holds the chain lock and with which record, what is on   *)
(* disk, in hand and stray, and the answers hold in every reachable state. *)
THEOREM ProxyInvariant == Spec => []ProxyInv
  BY InitProxyInv, NextProxyInv, PTL DEF Spec

(* AuditSink::write: the chain lock held across the file write keeps the   *)
(* records in the order of their numbers, but for those of dropped writes. *)
THEOREM OrderSafety == Spec => []SequenceOrder
  <1>1. ProxyInv => SequenceOrder
    BY DEF ProxyInv, SinkInv
  <1> QED BY <1>1, ProxyInvariant, PTL

(* AuditSink::write: nothing it acknowledged is ever missing from the      *)
(* file.                                                                   *)
THEOREM AckSafety == Spec => []AckedOnDisk
  <1>1. ProxyInv => AckedOnDisk
    BY DEF ProxyInv, SinkInv
  <1> QED BY <1>1, ProxyInvariant, PTL

(* AuditStats::record: no session's counters run ahead of the file.        *)
THEOREM StatsSafety == Spec => []StatsBackedByFile
  <1>1. ProxyInv => StatsBackedByFile
    <2> SUFFICES ASSUME ProxyInv, NEW k \in SessionKey, stats[k] # None
                 PROVE  stats[k].denied <=
                            Cardinality({i \in OnDisk : file[i].entry.session = k
                                                        /\ file[i].entry.decision = "deny"})
      BY DEF StatsBackedByFile
    <2> DEFINE all == {i \in OnDisk : file[i].entry.session = k /\ file[i].entry.decision = "deny"}
    <2>1. Settled(k) \subseteq all /\ all \in SUBSET OnDisk /\ Settled(k) \in SUBSET OnDisk
      BY DEF Settled
    <2> HIDE DEF all
    <2>2. /\ Cardinality(all) \in Nat /\ Cardinality(Settled(k)) \in Nat
          /\ Cardinality(Settled(k)) <= Cardinality(all)
      BY <2>1, DiskFinite, FS_Subset DEF ProxyInv, SinkInv
    <2>3. stats[k].denied \in Nat /\ stats[k].denied <= Cardinality(Settled(k))
      BY DEF ProxyInv, SinkInv, SinkTypeOK, CountedIsSettled, Counters
    <2>4. stats[k].denied <= Cardinality(all)
      BY <2>2, <2>3
    <2> QED BY <2>4 DEF all
  <1> QED BY <1>1, ProxyInvariant, PTL

(* handle_request: nobody is answered before the write of its entry has    *)
(* ended.                                                                  *)
THEOREM AnswerSafety == Spec => []EveryAnswerAudited
  <1>1. ProxyInv => EveryAnswerAudited
    <2> SUFFICES ASSUME ProxyInv PROVE answers <= Len(outcomes)
      BY DEF EveryAnswerAudited
    <2>1. Cardinality(Ended) \in Nat
      BY EndedType, EndedCounts
    <2>2. answers \in Nat /\ Len(outcomes) \in Nat /\ answers + Cardinality(Ended) <= Len(outcomes)
      BY DEF ProxyInv, TypeOK, SinkTypeOK, AnswersFollowOutcomes
    <2> QED BY <2>1, <2>2
  <1> QED BY <1>1, ProxyInvariant, PTL

-----------------------------------------------------------------------------
(* The lines of the file.                                                  *)

LEMMA Counted ==
    ASSUME NEW S, IsFiniteSet(S), NEW T, T \subseteq S
    PROVE  /\ IsFiniteSet(T) /\ Cardinality(S) \in Nat /\ Cardinality(T) \in Nat
           /\ Cardinality(T) <= Cardinality(S)
  BY FS_Subset, FS_CardinalityType

LEMMA OneMore ==
    ASSUME NEW S, IsFiniteSet(S), NEW x, NEW T, T \subseteq S \cup {x}
    PROVE  IsFiniteSet(T) /\ Cardinality(T) <= Cardinality(S) + 1
  <1> DEFINE all == S \cup {x}
  <1>1. IsFiniteSet(all) /\ Cardinality(all) = IF x \in S THEN Cardinality(S) ELSE Cardinality(S) + 1
    BY FS_AddElement
  <1> HIDE DEF all
  <1>2. T \subseteq all
    BY DEF all
  <1>3. IsFiniteSet(T) /\ Cardinality(T) <= Cardinality(all) /\ Cardinality(T) \in Nat
        /\ Cardinality(S) \in Nat
    BY <1>1, <1>2, FS_Subset, FS_CardinalityType
  <1> QED BY <1>1, <1>3

LEMMA OneLess ==
    ASSUME NEW S, IsFiniteSet(S), NEW x \in S, NEW T, T \subseteq S \ {x}
    PROVE  IsFiniteSet(T) /\ Cardinality(T) + 1 <= Cardinality(S)
  <1> DEFINE rest == S \ {x}
  <1>1. IsFiniteSet(rest) /\ Cardinality(rest) = Cardinality(S) - 1
    BY FS_RemoveElement
  <1> HIDE DEF rest
  <1>2. T \subseteq rest
    BY DEF rest
  <1>3. IsFiniteSet(T) /\ Cardinality(T) <= Cardinality(rest) /\ Cardinality(T) \in Nat
        /\ Cardinality(S) \in Nat
    BY <1>1, <1>2, FS_Subset, FS_CardinalityType
  <1> QED BY <1>1, <1>3

LEMMA PiecesFinite ==
    ASSUME NEW X, NEW f \in Seq(X), NEW D \in SUBSET DOMAIN f
    PROVE  IsFiniteSet(D)
  <1>1. D \in SUBSET (1..Len(f)) /\ Len(f) \in Nat
    OBVIOUS
  <1> QED BY <1>1, FS_Interval, FS_Subset

(* The four places an entry that was numbered may be in are finite.        *)
LEMMA PlacesFinite ==
    ASSUME SinkTypeOK, IsFiniteSet(stray)
    PROVE  /\ IsFiniteSet(OnDisk) /\ IsFiniteSet(TornAt)
           /\ IsFiniteSet(StrayRecords) /\ IsFiniteSet(Unwritten)
           /\ Cardinality(OnDisk) \in Nat /\ Cardinality(TornAt) \in Nat
           /\ Cardinality(StrayRecords) \in Nat /\ Cardinality(Unwritten) \in Nat
           /\ numbered \in Nat
  <1>1. IsFiniteSet(OnDisk) /\ IsFiniteSet(TornAt)
    <2>1. file \in Seq(Records \cup {Newline, Torn})
      BY DEF SinkTypeOK
    <2>2. OnDisk \in SUBSET DOMAIN file /\ TornAt \in SUBSET DOMAIN file
      BY DEF OnDisk, TornAt
    <2> QED BY <2>1, <2>2, PiecesFinite
  <1>2. IsFiniteSet(StrayRecords) /\ IsFiniteSet(Unwritten)
    BY SinkAssumption, FS_Subset DEF StrayRecords, Unwritten
  <1> QED BY <1>1, <1>2, FS_CardinalityType DEF SinkTypeOK

(* Nothing new is anywhere, ...                                            *)
LEMMA NumberedKeep ==
    ASSUME SinkTypeOK, IsFiniteSet(stray), AllNumbered, numbered' = numbered,
           OnDisk' \subseteq OnDisk, TornAt' \subseteq TornAt,
           StrayRecords' \subseteq StrayRecords, Unwritten' \subseteq Unwritten
    PROVE  AllNumbered'
  <1> DEFINE d == Cardinality(OnDisk)         d1 == Cardinality(OnDisk')
             t == Cardinality(TornAt)         t1 == Cardinality(TornAt')
             s == Cardinality(StrayRecords)   s1 == Cardinality(StrayRecords')
             u == Cardinality(Unwritten)      u1 == Cardinality(Unwritten')
  <1>1. d \in Nat /\ t \in Nat /\ s \in Nat /\ u \in Nat /\ numbered \in Nat
    BY PlacesFinite
  <1>2. /\ d1 \in Nat /\ t1 \in Nat /\ s1 \in Nat /\ u1 \in Nat
        /\ d1 <= d /\ t1 <= t /\ s1 <= s /\ u1 <= u
    BY PlacesFinite, Counted
  <1>3. d + t + s + u <= numbered
    BY DEF AllNumbered
  <1> HIDE DEF d, t, s, u, d1, t1, s1, u1
  <1>4. d1 + t1 + s1 + u1 <= numbered'
    BY <1>1, <1>2, <1>3
  <1> QED BY <1>4 DEF AllNumbered, d1, t1, s1, u1

(* ... or the record of w goes to one of the other places, ...             *)
LEMMA NumberedMoves ==
    ASSUME SinkTypeOK, IsFiniteSet(stray), AllNumbered, numbered' = numbered,
           NEW w \in Unwritten, Unwritten' \subseteq Unwritten \ {w}, NEW x,
           \/ /\ OnDisk' \subseteq OnDisk \cup {x}
              /\ TornAt' \subseteq TornAt /\ StrayRecords' \subseteq StrayRecords
           \/ /\ TornAt' \subseteq TornAt \cup {x}
              /\ OnDisk' \subseteq OnDisk /\ StrayRecords' \subseteq StrayRecords
           \/ /\ StrayRecords' \subseteq StrayRecords \cup {x}
              /\ OnDisk' \subseteq OnDisk /\ TornAt' \subseteq TornAt
    PROVE  AllNumbered'
  <1> DEFINE d == Cardinality(OnDisk)         d1 == Cardinality(OnDisk')
             t == Cardinality(TornAt)         t1 == Cardinality(TornAt')
             s == Cardinality(StrayRecords)   s1 == Cardinality(StrayRecords')
             u == Cardinality(Unwritten)      u1 == Cardinality(Unwritten')
  <1>1. d \in Nat /\ t \in Nat /\ s \in Nat /\ u \in Nat /\ numbered \in Nat
    BY PlacesFinite
  <1>2. u1 \in Nat /\ u1 + 1 <= u
    BY PlacesFinite, OneLess, FS_CardinalityType
  <1>3. /\ OnDisk' \subseteq OnDisk => d1 \in Nat /\ d1 <= d
        /\ TornAt' \subseteq TornAt => t1 \in Nat /\ t1 <= t
        /\ StrayRecords' \subseteq StrayRecords => s1 \in Nat /\ s1 <= s
    BY PlacesFinite, Counted
  <1>4. /\ OnDisk' \subseteq OnDisk \cup {x} => d1 \in Nat /\ d1 <= d + 1
        /\ TornAt' \subseteq TornAt \cup {x} => t1 \in Nat /\ t1 <= t + 1
        /\ StrayRecords' \subseteq StrayRecords \cup {x} => s1 \in Nat /\ s1 <= s + 1
    BY PlacesFinite, OneMore, FS_CardinalityType
  <1>5. d + t + s + u <= numbered
    BY DEF AllNumbered
  <1>6. /\ d1 \in Nat /\ t1 \in Nat /\ s1 \in Nat
        /\ \/ d1 <= d + 1 /\ t1 <= t /\ s1 <= s
           \/ d1 <= d /\ t1 <= t + 1 /\ s1 <= s
           \/ d1 <= d /\ t1 <= t /\ s1 <= s + 1
    <2> HIDE DEF d, t, s, u, d1, t1, s1, u1
    <2> QED BY <1>3, <1>4
  <1> HIDE DEF d, t, s, u, d1, t1, s1, u1
  <1>7. d1 + t1 + s1 + u1 <= numbered'
    BY <1>1, <1>2, <1>5, <1>6
  <1> QED BY <1>7 DEF AllNumbered, d1, t1, s1, u1

(* ... or a stray record lands.                                            *)
LEMMA NumberedLands ==
    ASSUME SinkTypeOK, IsFiniteSet(stray), AllNumbered, numbered' = numbered,
           NEW p \in StrayRecords, StrayRecords' \subseteq StrayRecords \ {p},
           NEW x, OnDisk' \subseteq OnDisk \cup {x},
           TornAt' \subseteq TornAt, Unwritten' \subseteq Unwritten
    PROVE  AllNumbered'
  <1> DEFINE d == Cardinality(OnDisk)         d1 == Cardinality(OnDisk')
             t == Cardinality(TornAt)         t1 == Cardinality(TornAt')
             s == Cardinality(StrayRecords)   s1 == Cardinality(StrayRecords')
             u == Cardinality(Unwritten)      u1 == Cardinality(Unwritten')
  <1>1. d \in Nat /\ t \in Nat /\ s \in Nat /\ u \in Nat /\ numbered \in Nat
    BY PlacesFinite
  <1>2. s1 \in Nat /\ s1 + 1 <= s
    BY PlacesFinite, OneLess, FS_CardinalityType
  <1>3. d1 \in Nat /\ d1 <= d + 1
    BY PlacesFinite, OneMore, FS_CardinalityType
  <1>4. t1 \in Nat /\ t1 <= t /\ u1 \in Nat /\ u1 <= u
    BY PlacesFinite, Counted
  <1>5. d + t + s + u <= numbered
    BY DEF AllNumbered
  <1> HIDE DEF d, t, s, u, d1, t1, s1, u1
  <1>6. d1 + t1 + s1 + u1 <= numbered'
    BY <1>1, <1>2, <1>3, <1>4, <1>5
  <1> QED BY <1>6 DEF AllNumbered, d1, t1, s1, u1

(* A new number.                                                           *)
LEMMA NumberedNew ==
    ASSUME SinkTypeOK, IsFiniteSet(stray), AllNumbered, numbered' = numbered + 1,
           OnDisk' \subseteq OnDisk, TornAt' \subseteq TornAt,
           StrayRecords' \subseteq StrayRecords,
           NEW w, Unwritten' \subseteq Unwritten \cup {w}
    PROVE  AllNumbered'
  <1> DEFINE d == Cardinality(OnDisk)         d1 == Cardinality(OnDisk')
             t == Cardinality(TornAt)         t1 == Cardinality(TornAt')
             s == Cardinality(StrayRecords)   s1 == Cardinality(StrayRecords')
             u == Cardinality(Unwritten)      u1 == Cardinality(Unwritten')
  <1>1. d \in Nat /\ t \in Nat /\ s \in Nat /\ u \in Nat /\ numbered \in Nat
    BY PlacesFinite
  <1>2. u1 \in Nat /\ u1 <= u + 1
    BY PlacesFinite, OneMore, FS_CardinalityType
  <1>3. d1 \in Nat /\ d1 <= d /\ t1 \in Nat /\ t1 <= t /\ s1 \in Nat /\ s1 <= s
    BY PlacesFinite, Counted
  <1>4. d + t + s + u <= numbered
    BY DEF AllNumbered
  <1> HIDE DEF d, t, s, u, d1, t1, s1, u1
  <1>5. d1 + t1 + s1 + u1 <= numbered'
    BY <1>1, <1>2, <1>3, <1>4
  <1> QED BY <1>5 DEF AllNumbered, d1, t1, s1, u1

(* What is in the file stays there.                                        *)
Grows == \A k \in DOMAIN file : k \in DOMAIN file' /\ file'[k] = file[k]

LEMMA GrowsBy ==
    ASSUME SinkTypeOK, NEW x \in Records \cup {Newline, Torn}, Appends(x)
    PROVE  /\ Grows
           /\ Len(file) + 1 \in DOMAIN file' /\ file'[Len(file) + 1] = x
           /\ \A k \in DOMAIN file : k < Len(file) + 1
           /\ x # Torn => TornAt' = TornAt
           /\ TornAt' \subseteq TornAt \cup {Len(file) + 1}
           /\ x \notin Records => OnDisk' = OnDisk
           /\ OnDisk' \subseteq OnDisk \cup {Len(file) + 1}
  BY SentinelAssumption DEF SinkTypeOK, Appends, Grows, TornAt, OnDisk

Held == AckedIds \cup Pending

LEMMA LinesKeep ==
    ASSUME Grows, LinesEnd, LinesApart,
           \A i \in OnDisk' : file'[i].id \in Held' => i \in OnDisk /\ file[i].id \in Held,
           \A i \in OnDisk' : file'[i].id \in Ending' => i \in OnDisk /\ file[i].id \in Ending
    PROVE  LinesEnd' /\ LinesApart'
  <1>1. LinesEnd'
    BY DEF LinesEnd, Terminated, Grows
  <1>2. LinesApart'
    <2> SUFFICES ASSUME NEW i \in OnDisk', NEW j \in OnDisk', i < j,
                        file'[i].id \in Held', file'[j].id \in Held'
                 PROVE  \E k \in DOMAIN file' : i < k /\ k < j /\ file'[k] = Newline
      BY DEF LinesApart, Held
    <2>1. i \in OnDisk /\ j \in OnDisk /\ file[i].id \in Held /\ file[j].id \in Held
      OBVIOUS
    <2>2. PICK k \in DOMAIN file : i < k /\ k < j /\ file[k] = Newline
      BY <2>1 DEF LinesApart, Held
    <2> QED BY <2>2 DEF Grows
  <1> QED BY <1>1, <1>2

(* The writers take up nothing.                                            *)
Idle(v) == /\ InHand(v)' => InHand(v) /\ writing'[v].rec = writing[v].rec
           /\ At(v, "record")' => At(v, "record")
           /\ Finished(v)' => Finished(v)

LEMMA IdleWriters ==
    ASSUME \A v \in Writer : Idle(v)
    PROVE  /\ Unwritten' \subseteq Unwritten
           /\ Pending' \subseteq Pending
           /\ AckedIds' \subseteq AckedIds => Ending' \subseteq Ending
  <1>1. Unwritten' \subseteq Unwritten
    BY DEF Idle, Unwritten
  <1>2. Pending' \subseteq Pending
    BY PendingIs, PendingThen DEF Idle
  <1>3. ASSUME AckedIds' \subseteq AckedIds, NEW h \in Ending', h \notin AckedIds PROVE h \in Ending
    <2>1. PICK v \in Writer : Finished(v)' /\ h = writing'[v].rec.id
      BY <1>3 DEF Ending
    <2>2. InHand(v)'
      BY <2>1 DEF InHand, Finished
    <2> QED BY <2>1, <2>2 DEF Idle, Ending
  <1> QED BY <1>1, <1>2, <1>3 DEF Ending

(* A step that leaves the file alone.                                      *)
LEMMA StillLines ==
    ASSUME SinkTypeOK, FileInv, file' = file, numbered' = numbered, stray' \subseteq stray,
           Unwritten' \subseteq Unwritten, Held' \subseteq Held, Ending' \subseteq Ending
    PROVE  FileInv'
  <1>1. OnDisk' = OnDisk /\ TornAt' = TornAt /\ StrayRecords' \subseteq StrayRecords
    BY DEF OnDisk, TornAt, StrayRecords
  <1>2. IsFiniteSet(stray) /\ IsFiniteSet(stray')
    BY FS_Subset DEF FileInv
  <1>3. AllNumbered'
    BY <1>1, <1>2, NumberedKeep DEF FileInv
  <1>4. Grows
    BY DEF Grows
  <1>5. LinesEnd' /\ LinesApart'
    BY <1>1, <1>4, LinesKeep DEF FileInv
  <1> QED BY <1>2, <1>3, <1>5 DEF FileInv

(* A record is numbered: it is not on disk yet.                            *)
LEMMA AssignFile ==
    ASSUME SinkInv, SinkInv', FileInv, NEW w \in Writer, assign(w)
    PROVE  FileInv'
  <1>1. /\ file' = file /\ stray' = stray /\ acked' = acked /\ numbered' = numbered + 1
        /\ lock' = w
        /\ writing' = [writing EXCEPT ![w] = [step |-> "record", rec |-> NextRecord(w)]]
    BY DEF assign
  <1>2. SinkTypeOK /\ writing \in [Writer -> Writing] /\ IsFiniteSet(stray)
    BY DEF SinkInv, SinkTypeOK, FileInv
  <1>3. /\ writing'[w].step = "record"
        /\ \A v \in Writer \ {w} : writing'[v] = writing[v]
    BY <1>1, <1>2
  <1>4. OnDisk' = OnDisk /\ TornAt' = TornAt /\ StrayRecords' = StrayRecords
        /\ AckedIds' = AckedIds
    BY <1>1 DEF OnDisk, TornAt, StrayRecords, AckedIds
  <1>5. Unwritten' \subseteq Unwritten \cup {w}
    BY <1>3 DEF Unwritten, At
  <1>6. AllNumbered'
    BY <1>1, <1>2, <1>4, <1>5, NumberedNew DEF FileInv
  <1>7. \A h \in Pending' : \A i \in OnDisk' : file'[i].id # h
    <2>1. \A v \in Writer : InHand(v)' => v = w
      BY <1>1 DEF SinkInv, HolderIsLast
    <2>2. InHand(w)' /\ At(w, "record")'
      BY <1>3 DEF InHand, At
    <2>3. \A i \in OnDisk' : file'[i].id # writing'[w].rec.id
      BY <2>2 DEF SinkInv, InHandIsNew
    <2> QED BY <2>1, <2>3, PendingThen
  <1>8. Ending' \subseteq Ending
    <2>1. \A v \in Writer : Finished(v)' => Finished(v) /\ writing'[v] = writing[v]
      BY <1>3 DEF Finished
    <2> QED BY <1>4, <2>1 DEF Ending
  <1>9. Grows
    BY <1>1 DEF Grows
  <1>10. LinesEnd' /\ LinesApart'
    <2>1. \A i \in OnDisk' : file'[i].id \in Held' => i \in OnDisk /\ file[i].id \in Held
      BY <1>1, <1>4, <1>7 DEF Held
    <2>2. \A i \in OnDisk' : file'[i].id \in Ending' => i \in OnDisk /\ file[i].id \in Ending
      BY <1>1, <1>4, <1>8
    <2> QED BY <1>9, <2>1, <2>2, LinesKeep DEF FileInv
  <1> QED BY <1>1, <1>2, <1>6, <1>10 DEF FileInv

(* A record is put behind others, each of which is either lost or has its  *)
(* newline.                                                                *)
LEMMA AppendFile ==
    ASSUME SinkInv, SinkInv', FileInv, NEW w \in Writer, append_record(w)
    PROVE  FileInv'
  <1> DEFINE rec == writing[w].rec
             last == Len(file) + 1
  <1>1. /\ At(w, "record") /\ InHand(w) /\ file' = Append(file, rec) /\ Step(w, "newline")
        /\ lock' = lock /\ stray' = stray /\ acked' = acked /\ numbered' = numbered
    BY DEF append_record, historyVars, At, InHand
  <1>2. SinkTypeOK /\ IsFiniteSet(stray)
    BY DEF SinkInv, FileInv
  <1>3. rec \in Records /\ lock = w
    BY <1>1, <1>2, InHandType DEF SinkInv, HolderIsLast
  <1>4. /\ writing'[w].step = "newline" /\ writing'[w].rec = rec
        /\ \A v \in Writer \ {w} : writing'[v] = writing[v]
    BY <1>1, <1>2, StepType
  <1>5. /\ Grows
        /\ last \in DOMAIN file' /\ file'[last] = rec
        /\ \A k \in DOMAIN file : k < last
        /\ TornAt' = TornAt /\ OnDisk' \subseteq OnDisk \cup {last}
    <2> HIDE DEF rec
    <2>1. rec \in Records \cup {Newline, Torn} /\ Appends(rec)
      BY <1>1, <1>3 DEF Appends
    <2> QED BY <1>2, <1>3, <2>1, GrowsBy, SentinelAssumption
  <1>6. \A v \in Writer : InHand(v) => v = w
    BY <1>3 DEF SinkInv, HolderIsLast
  <1>7. /\ AckedIds' = AckedIds /\ StrayRecords' = StrayRecords
        /\ \A i \in OnDisk : file[i].id # rec.id
        /\ rec.id \notin AckedIds
    <2>1. \A i \in OnDisk : file[i].id # rec.id
      BY <1>1 DEF SinkInv, InHandIsNew
    <2> QED BY <1>1, <2>1 DEF SinkInv, InHandIsNew, AckedIds, StrayRecords
  <1> HIDE DEF rec, last
  <1>8. AllNumbered'
    <2>1. w \in Unwritten /\ Unwritten' \subseteq Unwritten \ {w}
      BY <1>1, <1>4 DEF Unwritten, At
    <2> QED BY <1>1, <1>2, <1>5, <1>7, <2>1, NumberedMoves DEF FileInv
  <1>9. Pending \subseteq {rec.id} /\ Pending' \subseteq {rec.id} /\ Ending' \subseteq AckedIds
    <2>1. Pending \subseteq {rec.id}
      BY <1>6, PendingIs DEF rec
    <2>2. \A v \in Writer : InHand(v)' => v = w
      BY <1>4, <1>6 DEF InHand
    <2>3. Pending' \subseteq {rec.id}
      BY <1>4, <2>2, PendingThen
    <2>4. \A v \in Writer : ~Finished(v)'
      BY <1>4, <2>2 DEF Finished, InHand
    <2> QED BY <1>7, <2>1, <2>3, <2>4 DEF Ending
  <1>10. \A i \in OnDisk : file'[i] = file[i] /\ i \in DOMAIN file
    BY <1>5 DEF Grows, OnDisk
  <1>11. LinesEnd'
    <2> SUFFICES ASSUME NEW i \in OnDisk', file'[i].id \in AckedIds PROVE Terminated(i)'
      BY <1>9 DEF LinesEnd
    <2>1. i \in OnDisk
      BY <1>5, <1>7
    <2>2. Terminated(i)
      BY <1>10, <2>1 DEF FileInv, LinesEnd, Ending
    <2> QED BY <1>5, <2>2 DEF Terminated, Grows
  <1>12. LinesApart'
    <2> SUFFICES ASSUME NEW i \in OnDisk', NEW j \in OnDisk', i < j,
                        file'[i].id \in AckedIds \cup {rec.id}, file'[j].id \in AckedIds \cup {rec.id}
                 PROVE  \E k \in DOMAIN file' : i < k /\ k < j /\ file'[k] = Newline
      BY <1>7, <1>9 DEF LinesApart
    <2>1. i \in OnDisk
      <3>1. i # last \/ j # last
        BY <1>2, <1>5 DEF last, SinkTypeOK
      <3>2. j \in DOMAIN file => j < last
        BY <1>5
      <3>3. i \in DOMAIN file' /\ j \in DOMAIN file' /\ DOMAIN file' \subseteq Nat /\ last \in Nat
        BY <1>2 DEF OnDisk, SinkInv, SinkTypeOK, last
      <3> QED BY <1>5, <1>10, <3>1, <3>2, <3>3
    <2>2. file[i].id \in AckedIds
      BY <1>7, <1>10, <2>1
    <2>3. CASE j \in OnDisk
      <3>1. file[j].id \in AckedIds
        BY <1>7, <1>10, <2>3
      <3>2. PICK k \in DOMAIN file : i < k /\ k < j /\ file[k] = Newline
        BY <2>1, <2>2, <2>3, <3>1 DEF FileInv, LinesApart
      <3> QED BY <1>5, <3>2 DEF Grows
    <2>4. CASE j = last
      <3>1. PICK k \in DOMAIN file : i < k /\ file[k] = Newline
        BY <2>1, <2>2 DEF FileInv, LinesEnd, Ending, Terminated
      <3> QED BY <1>5, <2>4, <3>1 DEF Grows
    <2> QED BY <1>5, <2>3, <2>4
  <1> QED BY <1>1, <1>2, <1>8, <1>11, <1>12 DEF FileInv

(* A newline ends every line begun so far.                                 *)
LEMMA NewlineFile ==
    ASSUME SinkInv, FileInv, NEW w \in Writer, append_newline(w)
    PROVE  FileInv'
  <1>1. /\ At(w, "newline") /\ InHand(w) /\ Appends(Newline) /\ Step(w, "sync")
        /\ stray' = stray /\ acked' = acked /\ numbered' = numbered
    BY DEF append_newline, historyVars, At, InHand, Appends
  <1>2. SinkTypeOK /\ IsFiniteSet(stray)
    BY DEF SinkInv, FileInv
  <1>3. /\ writing'[w].step = "sync" /\ writing'[w].rec = writing[w].rec
        /\ \A v \in Writer \ {w} : writing'[v] = writing[v]
    BY <1>1, <1>2, StepType
  <1> DEFINE last == Len(file) + 1
  <1>4. /\ Grows
        /\ last \in DOMAIN file' /\ file'[last] = Newline
        /\ \A k \in DOMAIN file : k < last
        /\ TornAt' = TornAt /\ OnDisk' = OnDisk
    BY <1>1, <1>2, GrowsBy, SentinelAssumption
  <1> HIDE DEF last
  <1>5. AckedIds' = AckedIds /\ StrayRecords' = StrayRecords
    BY <1>1 DEF AckedIds, StrayRecords
  <1>6. Unwritten' \subseteq Unwritten /\ Pending' \subseteq Pending
    <2>1. \A v \in Writer : InHand(v)' => InHand(v) /\ writing'[v].rec = writing[v].rec
      BY <1>1, <1>3 DEF InHand
    <2>2. Unwritten' \subseteq Unwritten
      BY <1>3 DEF Unwritten, At
    <2> QED BY <2>1, <2>2, PendingIs, PendingThen
  <1>7. AllNumbered'
    BY <1>1, <1>2, <1>4, <1>5, <1>6, NumberedKeep DEF FileInv
  <1>8. \A i \in OnDisk : i \in DOMAIN file /\ file'[i] = file[i]
    BY <1>4 DEF OnDisk, Grows
  <1>9. LinesEnd'
    BY <1>4, <1>8 DEF LinesEnd, Terminated
  <1>10. LinesApart'
    <2> SUFFICES ASSUME NEW i \in OnDisk, NEW j \in OnDisk, i < j,
                        file[i].id \in AckedIds \cup Pending, file[j].id \in AckedIds \cup Pending
                 PROVE  \E k \in DOMAIN file' : i < k /\ k < j /\ file'[k] = Newline
      BY <1>4, <1>5, <1>6, <1>8 DEF LinesApart
    <2>1. PICK k \in DOMAIN file : i < k /\ k < j /\ file[k] = Newline
      BY DEF FileInv, LinesApart
    <2> QED BY <1>4, <2>1 DEF Grows
  <1> QED BY <1>1, <1>2, <1>7, <1>9, <1>10 DEF FileInv

(* Nobody has a record in hand.                                            *)
LEMMA NoneInHand ==
    ASSUME \A v \in Writer : ~InHand(v)', AckedIds' \subseteq AckedIds
    PROVE  Unwritten' = {} /\ Held' \subseteq Held /\ Ending' \subseteq Ending
  <1>1. \A v \in Writer : ~At(v, "record")' /\ ~Finished(v)'
    BY DEF InHand, At, Finished
  <1>2. Pending' = {}
    BY PendingThen
  <1> QED BY <1>1, <1>2 DEF Unwritten, Held, Ending

(* A write fails; it may leave a part of its record.                       *)
LEMMA FailFile ==
    ASSUME SinkInv, FileInv, NEW w \in Writer, write_fails(w)
    PROVE  FileInv'
  <1>1. /\ InHand(w) /\ writing' = [writing EXCEPT ![w] = NotWriting]
        /\ file' = file \/ (At(w, "record") /\ Appends(Torn))
        /\ stray' = stray /\ acked' = acked /\ numbered' = numbered
    <2>1. file' = file \/ (At(w, "record") /\ Appends(Torn))
      <3>1. file' \in {file} \cup (IF At(w, "record") THEN {Append(file, Torn)} ELSE {})
        BY DEF write_fails
      <3> QED BY <3>1 DEF Appends
    <2> QED BY <2>1 DEF write_fails, InHand
  <1>2. SinkTypeOK /\ IsFiniteSet(stray)
    BY DEF SinkInv, FileInv
  <1>3. \A v \in Writer : ~InHand(v)'
    BY <1>1, LetGo
  <1>4. AckedIds' = AckedIds /\ StrayRecords' = StrayRecords
    BY <1>1 DEF AckedIds, StrayRecords
  <1>5. Unwritten' = {} /\ Held' \subseteq Held /\ Ending' \subseteq Ending
    BY <1>3, <1>4, NoneInHand
  <1>6. CASE file' = file
    BY <1>1, <1>2, <1>5, <1>6, StillLines
  <1>7. CASE At(w, "record") /\ Appends(Torn)
    <2>1. /\ Grows /\ OnDisk' = OnDisk
          /\ TornAt' \subseteq TornAt \cup {Len(file) + 1}
      BY <1>2, <1>7, GrowsBy, SentinelAssumption
    <2>2. w \in Unwritten /\ Unwritten' \subseteq Unwritten \ {w}
      BY <1>5, <1>7 DEF Unwritten
    <2>3. AllNumbered'
      BY <1>1, <1>2, <1>4, <2>1, <2>2, NumberedMoves DEF FileInv
    <2>4. \A i \in OnDisk' : file'[i] = file[i]
      BY <2>1 DEF Grows, OnDisk
    <2>5. LinesEnd' /\ LinesApart'
      BY <1>5, <2>1, <2>4, LinesKeep DEF FileInv
    <2> QED BY <1>1, <1>2, <2>3, <2>5 DEF FileInv
  <1> QED BY <1>1, <1>6, <1>7

(* A write whose newline is in the file returns Ok.                        *)
LEMMA AckFile ==
    ASSUME SinkInv, FileInv, NEW w \in Writer, Finished(w),
           writing' = [writing EXCEPT ![w] = NotWriting], acked' = acked \cup {writing[w].rec},
           file' = file, stray' = stray, numbered' = numbered
    PROVE  FileInv'
  <1>1. SinkTypeOK /\ InHand(w)
    BY DEF SinkInv, InHand, Finished
  <1>2. \A v \in Writer : ~InHand(v)'
    BY <1>1, LetGo
  <1>3. AckedIds' = AckedIds \cup {writing[w].rec.id} /\ Pending' = {}
    BY <1>2, PendingThen DEF AckedIds
  <1>4. writing[w].rec.id \in Pending /\ writing[w].rec.id \in Ending
    BY <1>1, PendingIs DEF Ending
  <1>5. \A v \in Writer : ~At(v, "record")' /\ ~Finished(v)'
    BY <1>2 DEF InHand, At, Finished
  <1>6. Unwritten' = {} /\ Held' \subseteq Held /\ Ending' \subseteq Ending
    BY <1>3, <1>4, <1>5 DEF Unwritten, Held, Ending
  <1> QED BY <1>1, <1>6, StillLines

(* A write goes on without touching the file.                              *)
LEMMA GoesOn ==
    ASSUME SinkInv, FileInv, \A v \in Writer : Idle(v), stray' \subseteq stray,
           file' = file, acked' = acked, numbered' = numbered
    PROVE  FileInv'
  <1>1. AckedIds' = AckedIds
    BY DEF AckedIds
  <1>2. Unwritten' \subseteq Unwritten /\ Pending' \subseteq Pending /\ Ending' \subseteq Ending
    BY <1>1, IdleWriters
  <1>3. Held' \subseteq Held
    BY <1>1, <1>2 DEF Held
  <1> QED BY <1>2, <1>3, StillLines DEF SinkInv

LEMMA FinishedGoesOn ==
    ASSUME SinkInv, FileInv, NEW w \in Writer, Finished(w), NEW step \in {"lookup", "count"},
           Step(w, step), stray' = stray, file' = file, acked' = acked, numbered' = numbered
    PROVE  FileInv'
  <1>1. SinkTypeOK /\ InHand(w)
    BY DEF SinkInv, InHand, Finished
  <1>2. /\ writing'[w].step = step /\ writing'[w].rec = writing[w].rec
        /\ \A v \in Writer \ {w} : writing'[v] = writing[v]
    BY <1>1, StepType
  <1>3. \A v \in Writer : Idle(v)
    <2> SUFFICES ASSUME NEW v \in Writer PROVE Idle(v)
      OBVIOUS
    <2>1. CASE v = w
      BY <1>1, <1>2, <2>1 DEF Idle, InHand, At, Finished
    <2>2. CASE v # w
      BY <1>2, <2>2 DEF Idle, InHand, At, Finished
    <2> QED BY <2>1, <2>2
  <1> QED BY <1>3, GoesOn

LEMMA SyncedFile ==
    ASSUME SinkInv, FileInv, NEW w \in Writer, synced(w)
    PROVE  FileInv'
  <1>1. /\ Finished(w) /\ Step(w, "lookup") /\ stray' = stray /\ file' = file /\ acked' = acked
        /\ numbered' = numbered
    BY DEF synced, At, Finished
  <1> QED BY <1>1, FinishedGoesOn

LEMMA LookupFile ==
    ASSUME SinkInv, FileInv, NEW w \in Writer, stats_lookup(w)
    PROVE  FileInv'
  <1>1. /\ Finished(w) /\ stray' = stray /\ file' = file /\ numbered' = numbered
        /\ \/ Step(w, "count") /\ acked' = acked
           \/ /\ writing' = [writing EXCEPT ![w] = NotWriting]
              /\ acked' = acked \cup {writing[w].rec}
    BY DEF stats_lookup, At, Finished
  <1> QED BY <1>1, FinishedGoesOn, AckFile

LEMMA CountFile ==
    ASSUME SinkInv, FileInv, NEW w \in Writer, stats_count(w)
    PROVE  FileInv'
  <1>1. /\ Finished(w) /\ stray' = stray /\ file' = file /\ numbered' = numbered
        /\ writing' = [writing EXCEPT ![w] = NotWriting]
        /\ acked' = acked \cup {writing[w].rec}
    BY DEF stats_count, At, Finished
  <1> QED BY <1>1, AckFile

LEMMA SameFile ==
    ASSUME SinkInv, FileInv, UNCHANGED <<writing, file, stray, acked, numbered>>
    PROVE  FileInv'
  <1>1. \A v \in Writer : Idle(v)
    BY DEF Idle, InHand, At, Finished
  <1> QED BY <1>1, GoesOn

LEMMA CallFile ==
    ASSUME SinkInv, FileInv, NEW c \in Writer, NEW entry, Call(c, entry),
           UNCHANGED <<file, stray, acked, numbered>>
    PROVE  FileInv'
  <1> DEFINE new == [step |-> "queued", entry |-> entry]
  <1>1. new.step = "queued" /\ writing' = [writing EXCEPT ![c] = new]
        /\ writing \in [Writer -> Writing]
    BY DEF Call, SinkInv, SinkTypeOK
  <1> HIDE DEF new
  <1>2. writing'[c].step = "queued" /\ \A v \in Writer \ {c} : writing'[v] = writing[v]
    BY <1>1
  <1>3. \A v \in Writer : Idle(v)
    BY <1>2 DEF Idle, InHand, At, Finished
  <1> QED BY <1>3, GoesOn

(* A write is dropped; it may leave its record or its newline behind.      *)
LEMMA DropFile ==
    ASSUME SinkInv, FileInv, NEW w \in Writer, DropWrite(w)
    PROVE  FileInv'
  <1>1. /\ writing' = [writing EXCEPT ![w] = NotWriting]
        /\ file' = file /\ acked' = acked /\ numbered' = numbered
    BY DEF DropWrite, historyVars
  <1>2. PICK left \in LeftBehind(w) : stray' = stray \cup left
    BY DEF DropWrite
  <1>3. SinkTypeOK /\ IsFiniteSet(stray) /\ writing \in [Writer -> Writing]
    BY DEF SinkInv, SinkTypeOK, FileInv
  <1>4. /\ \A v \in Writer : Idle(v)
        /\ ~At(w, "record")'
    <2>1. writing'[w].step = "none" /\ \A v \in Writer \ {w} : writing'[v] = writing[v]
      BY <1>1, <1>3 DEF NotWriting
    <2> QED BY <2>1 DEF Idle, InHand, At, Finished
  <1>5. AckedIds' = AckedIds /\ OnDisk' = OnDisk /\ TornAt' = TornAt /\ Grows
    BY <1>1 DEF AckedIds, OnDisk, TornAt, Grows
  <1>6. Unwritten' \subseteq Unwritten /\ Pending' \subseteq Pending /\ Ending' \subseteq Ending
    BY <1>4, <1>5, IdleWriters
  <1>7. LinesEnd' /\ LinesApart'
    <2>1. Held' \subseteq Held
      BY <1>5, <1>6 DEF Held
    <2> QED BY <1>1, <1>5, <1>6, <2>1, LinesKeep DEF FileInv
  <1>8. IsFiniteSet(stray')
    <2>1. left = {} \/ \E p : left = {p}
      BY <1>2 DEF LeftBehind
    <2>2. CASE left = {}
      <3>1. stray' = stray
        BY <1>2, <2>2
      <3> QED BY <1>3, <3>1
    <2>3. CASE \E p : left = {p}
      <3>1. PICK p : left = {p}
        BY <2>3
      <3>2. stray' = stray \cup {p}
        BY <1>2, <3>1
      <3> QED BY <1>3, <3>2, FS_AddElement
    <2> QED BY <2>1, <2>2, <2>3
  <1>9. AllNumbered'
    <2>1. CASE At(w, "record")
      <3>1. PICK p : left \subseteq {p}
        BY <1>2, <2>1 DEF LeftBehind
      <3>2. StrayRecords' \subseteq StrayRecords \cup {p}
        BY <1>2, <3>1 DEF StrayRecords
      <3>3. w \in Unwritten /\ Unwritten' \subseteq Unwritten \ {w}
        BY <1>4, <1>6, <2>1 DEF Unwritten
      <3> QED BY <1>1, <1>3, <1>5, <3>2, <3>3, NumberedMoves DEF FileInv
    <2>2. CASE ~At(w, "record")
      <3>1. \A p \in left : p.piece = Newline
        BY <1>2, <2>2 DEF LeftBehind
      <3>2. StrayRecords' \subseteq StrayRecords
        BY <1>2, <3>1 DEF StrayRecords
      <3> QED BY <1>1, <1>3, <1>5, <1>6, <3>2, NumberedKeep DEF FileInv
    <2> QED BY <2>1, <2>2
  <1> QED BY <1>7, <1>8, <1>9 DEF FileInv

(* A stray piece lands.                                                    *)
LEMMA StrayFile ==
    ASSUME SinkInv, FileInv, stray_lands
    PROVE  FileInv'
  <1>1. PICK p \in stray : /\ Appends(p.piece) /\ stray' = stray \ {p}
                           /\ UNCHANGED <<writing, acked, numbered>>
    BY DEF stray_lands, historyVars, Appends
  <1> DEFINE x == p.piece
             last == Len(file) + 1
  <1>2. SinkTypeOK /\ IsFiniteSet(stray) /\ x \in Records \cup {Newline}
    BY DEF SinkInv, SinkTypeOK, FileInv
  <1>3. /\ Grows /\ TornAt' = TornAt
        /\ file'[last] = x
        /\ x \notin Records => OnDisk' = OnDisk
        /\ OnDisk' \subseteq OnDisk \cup {last}
    <2>1. x \in Records \cup {Newline, Torn} /\ Appends(x) /\ x # Torn
      BY <1>1, <1>2, SentinelAssumption
    <2> HIDE DEF x
    <2> QED BY <1>2, <2>1, GrowsBy
  <1>4. /\ Pending' = Pending /\ AckedIds' = AckedIds /\ Ending' = Ending /\ Held' = Held
        /\ Unwritten' = Unwritten
    BY <1>1 DEF Pending, AckedIds, Ending, Finished, Held, Unwritten, At
  <1>5. StrayRecords' = StrayRecords \ {p} /\ IsFiniteSet(stray')
    BY <1>1, <1>2, FS_Subset DEF StrayRecords
  <1>6. x \in Records => x.id \notin Held
    BY <1>2, SentinelAssumption DEF SinkInv, StrayIsLost, Held
  <1> HIDE DEF x, last
  <1>7. \A i \in OnDisk : i \in DOMAIN file /\ file'[i] = file[i]
    BY <1>3 DEF OnDisk, Grows
  <1>8. Ending \subseteq Held
    <2>1. \A v \in Writer : Finished(v) => writing[v].rec.id \in Pending
      BY PendingIs DEF Finished, InHand
    <2> QED BY <2>1 DEF Ending, Held
  <1>9. LinesEnd' /\ LinesApart'
    <2>1. \A i \in OnDisk' : file'[i].id \in Held => i \in OnDisk
      BY <1>3, <1>6
    <2> QED BY <1>3, <1>4, <1>7, <1>8, <2>1, LinesKeep DEF FileInv
  <1>10. AllNumbered'
    <2>1. CASE x = Newline
      <3>1. OnDisk' = OnDisk
        BY <1>3, <2>1, SentinelAssumption
      <3> QED BY <1>1, <1>2, <1>3, <1>4, <1>5, <3>1, NumberedKeep DEF FileInv
    <2>2. CASE x # Newline
      <3>1. p \in StrayRecords
        BY <2>2 DEF StrayRecords, x
      <3> QED BY <1>1, <1>2, <1>3, <1>4, <1>5, <3>1, NumberedLands DEF FileInv
    <2> QED BY <2>1, <2>2
  <1> QED BY <1>5, <1>9, <1>10 DEF FileInv

LEMMA RestartFile ==
    ASSUME SinkInv, FileInv, sink_restart
    PROVE  FileInv'
  <1>1. /\ writing' = [w \in Writer |-> NotWriting] /\ stray' = {}
        /\ file' = file /\ acked' = acked /\ numbered' = numbered
    BY DEF sink_restart
  <1>2. \A v \in Writer : writing'[v].step = "none"
    BY <1>1 DEF NotWriting
  <1>3. \A v \in Writer : Idle(v)
    BY <1>2 DEF Idle, InHand, At, Finished
  <1> QED BY <1>1, <1>3, GoesOn

-----------------------------------------------------------------------------
LEMMA InitFile == Init => FileInv
  <1> SUFFICES ASSUME Init PROVE FileInv
    OBVIOUS
  <1>1. /\ writing = [w \in Writer |-> NotWriting] /\ file = <<>> /\ stray = {} /\ numbered = 0
    BY DEF Init, SinkInit
  <1>2. OnDisk = {} /\ TornAt = {} /\ StrayRecords = {} /\ Unwritten = {}
    BY <1>1 DEF OnDisk, TornAt, StrayRecords, Unwritten, At, NotWriting
  <1>3. IsFiniteSet({}) /\ Cardinality({}) = 0
    BY FS_EmptySet
  <1>4. AllNumbered
    BY <1>1, <1>2, <1>3 DEF AllNumbered
  <1> QED BY <1>1, <1>2, <1>3, <1>4 DEF FileInv, LinesEnd, LinesApart

LEMMA NextFile == ProxyInv /\ ProxyInv' /\ FileInv /\ [Next]_allVars => FileInv'
  <1> SUFFICES ASSUME ProxyInv, ProxyInv', FileInv, [Next]_allVars PROVE FileInv'
    OBVIOUS
  <1>1. SinkInv /\ SinkInv'
    BY DEF ProxyInv
  <1>2. ASSUME UNCHANGED sinkVars PROVE FileInv'
    BY <1>1, <1>2, SameFile DEF sinkVars
  <1>3. ASSUME NEW c \in Writer, NEW q, NEW decision, Audit(c, q, decision) PROVE FileInv'
    BY <1>1, <1>3, CallFile DEF Audit, historyVars
  <1>4. ASSUME NEW c \in Writer, accept(c) \/ ConnNext(c) PROVE FileInv'
    <2>1. CASE client_gone(c)
      BY <1>1, <2>1, DropFile DEF client_gone
    <2>2. CASE upstream_done(c)
      BY <1>3, <2>2 DEF upstream_done
    <2>3. ASSUME NEW q \in Requests, reject(c, q) PROVE FileInv'
      BY <1>3, <2>3 DEF reject
    <2>4. ASSUME NEW q \in Requests, forward(c, q) \/ parse_fails(c, q) PROVE FileInv'
      BY <1>2, <2>4 DEF forward, parse_fails
    <2>5. CASE accept(c) \/ answer(c) \/ UNCHANGED allVars
      BY <1>2, <2>5 DEF accept, answer, allVars
    <2> QED BY <1>4, <2>1, <2>2, <2>3, <2>4, <2>5 DEF ConnNext, health
  <1>5. CASE SinkNext
    <2>1. ASSUME NEW k \in SessionKey, remove_session(k) PROVE FileInv'
      BY <1>1, <2>1, SameFile DEF remove_session, historyVars
    <2> QED BY <1>1, <1>5, <2>1, AssignFile, AppendFile, NewlineFile, FailFile, SyncedFile,
               LookupFile, CountFile, StrayFile DEF SinkNext
  <1>6. CASE restart
    BY <1>1, <1>6, RestartFile DEF restart
  <1>7. CASE UNCHANGED allVars
    BY <1>2, <1>7 DEF allVars
  <1> QED BY <1>4, <1>5, <1>6, <1>7 DEF Next

(* AuditSink::write and write_to_file: each numbered entry is in at most   *)
(* one place, and acknowledged records have their newline and one between  *)
(* any two of them.                                                        *)
THEOREM FileInvariant == Spec => []FileInv
  BY InitFile, NextFile, ProxyInvariant, PTL DEF Spec

(* Whose records these are: acknowledged, in hand, or lost.                *)
AckedAt == {i \in OnDisk : file[i].id \in AckedIds}
PendingAt == {i \in OnDisk : file[i].id \in Pending}
LostAt == {i \in OnDisk : file[i].id \notin AckedIds \cup Pending}

(* Every acknowledged record is in the file, ...                           *)
LEMMA AckedCounted ==
    ASSUME SinkInv
    PROVE  /\ Cardinality(AckedIds) \in Nat /\ Cardinality(AckedAt) \in Nat
           /\ Cardinality(AckedIds) <= Cardinality(AckedAt)
  <1>1. \A h \in AckedIds : \E i \in AckedAt : file[i].id = h
    BY DEF SinkInv, AckedOnDisk, AckedIds, AckedAt
  <1> DEFINE f == [h \in AckedIds |-> CHOOSE i \in AckedAt : file[i].id = h]
  <1>2. \A h \in AckedIds : f[h] \in AckedAt /\ file[f[h]].id = h
    BY <1>1
  <1>3. f \in [AckedIds -> AckedAt]
    BY <1>2
  <1>4. \A g, h \in AckedIds : f[g] = f[h] => g = h
    BY <1>2
  <1> HIDE DEF f
  <1>5. f \in Injection(AckedIds, AckedAt)
    BY <1>3, <1>4 DEF Injection, IsInjective
  <1>6. IsFiniteSet(AckedAt) /\ Cardinality(AckedAt) \in Nat
    BY DiskFinite DEF SinkInv, AckedAt
  <1>7. IsFiniteSet(AckedIds) /\ Cardinality(AckedIds) <= Cardinality(AckedAt)
    BY <1>5, <1>6, FS_Injection
  <1> QED BY <1>6, <1>7, FS_CardinalityType

LEMMA NotNone ==
    ASSUME NEW S, IsFiniteSet(S), NEW x, {x} \subseteq S
    PROVE  1 <= Cardinality(S)
  <1>1. Cardinality({x}) = 1
    BY FS_Singleton
  <1>2. Cardinality({x}) <= Cardinality(S)
    BY FS_Subset
  <1> QED BY <1>1, <1>2

LEMMA Joined ==
    ASSUME NEW S, IsFiniteSet(S), NEW T, IsFiniteSet(T), S \cap T = {}
    PROVE  /\ IsFiniteSet(S \cup T)
           /\ Cardinality(S \cup T) = Cardinality(S) + Cardinality(T)
  <1>1. /\ IsFiniteSet(S \cup T)
        /\ Cardinality(S \cup T) = Cardinality(S) + Cardinality(T) - Cardinality(S \cap T)
    BY FS_Union
  <1>2. Cardinality(S \cap T) = 0
    BY FS_EmptySet
  <1>3. Cardinality(S) \in Nat /\ Cardinality(T) \in Nat
    BY FS_CardinalityType
  <1> QED BY <1>1, <1>2, <1>3

(* ... and the one in hand is in the file or still to be written.          *)
LEMMA PendingCounted ==
    ASSUME SinkInv, IsFiniteSet(stray)
    PROVE  /\ Cardinality(Pending) \in Nat /\ Cardinality(PendingAt) \in Nat
           /\ Cardinality(Pending) <= Cardinality(PendingAt) + Cardinality(Unwritten)
  <1>1. IsFiniteSet(PendingAt) /\ Cardinality(PendingAt) \in Nat
    BY DiskFinite DEF SinkInv, PendingAt
  <1>2. IsFiniteSet(Unwritten) /\ Cardinality(Unwritten) \in Nat
    BY PlacesFinite DEF SinkInv
  <1>3. CASE Pending = {}
    <2>1. Cardinality(Pending) = 0
      BY <1>3, FS_EmptySet
    <2> QED BY <1>1, <1>2, <2>1
  <1>4. CASE Pending # {}
    <2>1. PICK w \in Writer : InHand(w)
      BY <1>4, PendingIs
    <2>2. Pending = {writing[w].rec.id}
      <3>1. \A v \in Writer : InHand(v) => v = w
        BY <2>1 DEF SinkInv, HolderIsLast
      <3> QED BY <2>1, <3>1, PendingIs
    <2>3. Cardinality(Pending) = 1
      BY <2>2, FS_Singleton
    <2>4. CASE At(w, "record")
      <3>1. {w} \subseteq Unwritten
        BY <2>4 DEF Unwritten
      <3>2. 1 <= Cardinality(Unwritten)
        BY <1>2, <3>1, NotNone
      <3> QED BY <1>1, <1>2, <2>3, <3>2
    <2>5. CASE ~At(w, "record")
      <3>1. PICK i \in OnDisk : file[i] = writing[w].rec
        BY <2>1, <2>5 DEF SinkInv, InHandIsNew
      <3>2. {i} \subseteq PendingAt
        BY <2>2, <3>1 DEF PendingAt
      <3>3. 1 <= Cardinality(PendingAt)
        BY <1>1, <3>2, NotNone
      <3> QED BY <1>1, <1>2, <2>3, <3>3
    <2> QED BY <2>4, <2>5
  <1> QED BY <1>3, <1>4

LEMMA DiskParts ==
    ASSUME SinkInv
    PROVE  /\ IsFiniteSet(LostAt) /\ Cardinality(LostAt) \in Nat
           /\ Cardinality(OnDisk) =
                 Cardinality(AckedAt) + Cardinality(PendingAt) + Cardinality(LostAt)
  <1>1. /\ IsFiniteSet(AckedAt) /\ IsFiniteSet(PendingAt) /\ IsFiniteSet(LostAt)
        /\ Cardinality(AckedAt) \in Nat /\ Cardinality(PendingAt) \in Nat
        /\ Cardinality(LostAt) \in Nat
    BY DiskFinite DEF SinkInv, AckedAt, PendingAt, LostAt
  <1>2. AckedAt \cap PendingAt = {}
    BY PendingIs DEF AckedAt, PendingAt, SinkInv, InHandIsNew
  <1> DEFINE both == AckedAt \cup PendingAt
  <1>3. both \cap LostAt = {} /\ OnDisk = both \cup LostAt
    BY DEF AckedAt, PendingAt, LostAt
  <1>4. IsFiniteSet(both) /\ Cardinality(both) = Cardinality(AckedAt) + Cardinality(PendingAt)
    BY <1>1, <1>2, Joined
  <1> HIDE DEF both
  <1>5. Cardinality(OnDisk) = Cardinality(both) + Cardinality(LostAt)
    BY <1>1, <1>3, <1>4, Joined
  <1> QED BY <1>1, <1>4, <1>5

(* A damaged record shares its line with the piece before it or the one    *)
(* after it: a torn or lost one, and no other damaged record's.            *)
Culprit(i) == IF i > 1 /\ file[i-1] # Newline THEN i - 1 ELSE i + 1

LEMMA CulpritIs ==
    ASSUME SinkTypeOK, NEW i \in Damaged
    PROVE  /\ i \in OnDisk /\ i \in Nat /\ file[i].id \in AckedIds
           /\ Culprit(i) \in DOMAIN file /\ file[Culprit(i)] # Newline
           /\ Culprit(i) \in Nat /\ Culprit(i) \in {i - 1, i + 1}
  <1>1. i \in OnDisk /\ i \in 1..Len(file) /\ file[i].id \in AckedIds /\ ~Readable(i)
    BY DiskType DEF Damaged
  <1>2. Len(file) \in Nat /\ DOMAIN file = 1..Len(file)
    BY DEF SinkTypeOK
  <1> QED BY <1>1, <1>2 DEF Readable, Culprit

LEMMA CulpritLost ==
    ASSUME SinkTypeOK, LinesApart, NEW i \in Damaged
    PROVE  Culprit(i) \in TornAt \cup LostAt
  <1> DEFINE c == Culprit(i)
  <1>1. /\ i \in OnDisk /\ i \in Nat /\ file[i].id \in AckedIds
        /\ c \in DOMAIN file /\ file[c] # Newline /\ c \in Nat /\ c \in {i - 1, i + 1}
    BY CulpritIs
  <1> HIDE DEF c
  <1>2. CASE file[c] = Torn
    BY <1>1, <1>2 DEF TornAt, c
  <1>3. CASE file[c] # Torn
    <2>1. c \in OnDisk
      BY <1>1, <1>3 DEF OnDisk
    <2>2. file[c].id \notin AckedIds \cup Pending
      <3> SUFFICES ASSUME file[c].id \in AckedIds \cup Pending PROVE FALSE
        OBVIOUS
      <3>1. DOMAIN file \subseteq Nat
        BY DEF SinkTypeOK
      <3>2. CASE c = i - 1
        <4>1. PICK k \in DOMAIN file : c < k /\ k < i
          BY <1>1, <2>1, <3>2 DEF LinesApart
        <4> QED BY <1>1, <3>1, <3>2, <4>1
      <3>3. CASE c = i + 1
        <4>1. PICK k \in DOMAIN file : i < k /\ k < c
          BY <1>1, <2>1, <3>3 DEF LinesApart
        <4> QED BY <1>1, <3>1, <3>3, <4>1
      <3> QED BY <1>1, <3>2, <3>3
    <2> QED BY <2>1, <2>2 DEF LostAt, c
  <1> QED BY <1>2, <1>3

LEMMA CulpritApart ==
    ASSUME SinkTypeOK, LinesApart, NEW i \in Damaged, NEW j \in Damaged, i < j
    PROVE  Culprit(i) # Culprit(j)
  <1> SUFFICES ASSUME Culprit(i) = Culprit(j) PROVE FALSE
    OBVIOUS
  <1> DEFINE c == Culprit(i)
  <1>1. /\ i \in OnDisk /\ i \in Nat /\ file[i].id \in AckedIds /\ c \in {i - 1, i + 1}
        /\ c \in Nat /\ file[c] # Newline
    BY CulpritIs
  <1>2. j \in OnDisk /\ j \in Nat /\ file[j].id \in AckedIds /\ c \in {j - 1, j + 1}
    BY CulpritIs
  <1> HIDE DEF c
  <1>3. c = i + 1 /\ j = i + 2
    BY <1>1, <1>2
  <1>4. PICK k \in DOMAIN file : i < k /\ k < j /\ file[k] = Newline
    BY <1>1, <1>2 DEF LinesApart
  <1>5. k \in Nat
    BY DEF SinkTypeOK
  <1> QED BY <1>1, <1>3, <1>4, <1>5

LEMMA DamageCounted ==
    ASSUME SinkInv, FileInv
    PROVE  /\ Cardinality(Damaged) \in Nat
           /\ Cardinality(Damaged) <= Cardinality(TornAt) + Cardinality(LostAt)
  <1>1. SinkTypeOK /\ LinesApart /\ IsFiniteSet(stray)
    BY DEF SinkInv, FileInv
  <1> DEFINE spoilt == TornAt \cup LostAt
             f == [i \in Damaged |-> Culprit(i)]
  <1>2. \A i \in Damaged : f[i] = Culprit(i) /\ f[i] \in spoilt
    BY <1>1, CulpritLost
  <1>3. \A i, j \in Damaged : f[i] = f[j] => i = j
    <2> SUFFICES ASSUME NEW i \in Damaged, NEW j \in Damaged, Culprit(i) = Culprit(j)
                 PROVE  i = j
      BY <1>2
    <2>1. i \in Nat /\ j \in Nat
      BY <1>1, CulpritIs
    <2>2. ~(i < j) /\ ~(j < i)
      BY <1>1, CulpritApart
    <2> QED BY <2>1, <2>2
  <1>4. f \in Injection(Damaged, spoilt)
    <2>1. f \in [Damaged -> spoilt]
      BY <1>2
    <2> HIDE DEF f, spoilt
    <2> QED BY <1>3, <2>1 DEF Injection, IsInjective
  <1>5. IsFiniteSet(TornAt) /\ Cardinality(TornAt) \in Nat
        /\ IsFiniteSet(LostAt) /\ Cardinality(LostAt) \in Nat
    BY <1>1, PlacesFinite, DiskParts
  <1>6. TornAt \cap LostAt = {}
    BY DEF TornAt, LostAt, OnDisk
  <1>7. IsFiniteSet(spoilt) /\ Cardinality(spoilt) = Cardinality(TornAt) + Cardinality(LostAt)
    BY <1>5, <1>6, Joined
  <1> HIDE DEF f, spoilt
  <1>8. IsFiniteSet(Damaged) /\ Cardinality(Damaged) <= Cardinality(spoilt)
    BY <1>4, <1>7, FS_Injection
  <1> QED BY <1>7, <1>8, FS_CardinalityType

(* AuditSink::write: the acknowledged records that cannot be read back are *)
(* no more than the writes that failed or were dropped.                    *)
THEOREM DamageSafety == Spec => []DamageBounded
  <1>1. ProxyInv /\ FileInv => DamageBounded
    <2> SUFFICES ASSUME ProxyInv, FileInv PROVE Cardinality(Damaged) <= Lost
      BY DEF DamageBounded
    <2> DEFINE d == Cardinality(OnDisk)    t == Cardinality(TornAt)
               s == Cardinality(StrayRecords)   u == Cardinality(Unwritten)
               a == Cardinality(AckedAt)   p == Cardinality(PendingAt)
               l == Cardinality(LostAt)
    <2>1. SinkInv /\ SinkTypeOK /\ IsFiniteSet(stray)
      BY DEF ProxyInv, SinkInv, FileInv
    <2>2. d \in Nat /\ t \in Nat /\ s \in Nat /\ u \in Nat /\ numbered \in Nat
      BY <2>1, PlacesFinite
    <2>3. d + t + s + u <= numbered
      BY DEF FileInv, AllNumbered
    <2>4. l \in Nat /\ d = a + p + l
      BY <2>1, DiskParts
    <2>5. Cardinality(AckedIds) \in Nat /\ a \in Nat /\ Cardinality(AckedIds) <= a
      BY <2>1, AckedCounted
    <2>6. Cardinality(Pending) \in Nat /\ p \in Nat /\ Cardinality(Pending) <= p + u
      BY <2>1, PendingCounted
    <2>7. Cardinality(Damaged) \in Nat /\ Cardinality(Damaged) <= t + l
      BY <2>1, DamageCounted
    <2> HIDE DEF d, t, s, u, a, p, l
    <2> QED BY <2>2, <2>3, <2>4, <2>5, <2>6, <2>7 DEF Lost
  <1> QED BY <1>1, ProxyInvariant, FileInvariant, PTL
=============================================================================
