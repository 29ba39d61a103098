----------------------------- MODULE AuditSink ------------------------------
(***************************************************************************)
(* The audit sink, crates/arbiter-audit/src/sink.rs and stats.rs: a JSONL  *)
(* file of hash-chained records, health counters with hysteresis, and      *)
(* per-session statistics.                                                 *)
(*                                                                         *)
(* write holds the chain lock from the sequence number to the statistics,  *)
(* but the file is written piece by piece (open, record, newline, flush    *)
(* and sync), each piece may fail, and a caller that is dropped on the way *)
(* releases the lock while the blocking pool still has its last piece to   *)
(* write.                                                                  *)
(*                                                                         *)
(* Abstracted: an entry is its session, its decision and whether it is     *)
(* flagged.  Request ids are unique and BLAKE3 is taken as injective, so a *)
(* record's hash is the record's identity, <<boot, sequence>>.  hash_chain *)
(* is on and file_path set, as in the shipped configuration; init_file is  *)
(* not called by either server, so every write opens the file.             *)
(***************************************************************************)
EXTENDS Integers, Sequences, FiniteSets

CONSTANTS
    Writer,             \* tasks that write entries: one per connection
    SessionKey,         \* x-session-id values
    NoKey,              \* the empty session id
    Newline, Torn,      \* pieces of a file: a line end, a part of a record
    RECOVERY_THRESHOLD, \* 3 in the code
    MaxWrites,          \* bound: entries ever written
    MaxBoots            \* bound: times the process is started

ASSUME SinkAssumption ==
    /\ RECOVERY_THRESHOLD \in Nat \ {0}
    /\ MaxWrites \in Nat
    /\ MaxBoots \in Nat \ {0}
    /\ IsFiniteSet(Writer)

(* AuditEntry: task_session_id, authorization_decision, and is             *)
(* anomaly_flags non-empty?                                                *)
Entries == [session: SessionKey \cup {NoKey}, decision: {"allow", "deny", "escalate"},
            flagged: BOOLEAN]

(* A record's hash, <<boot, sequence>>; <<b, 0>> is the "genesis" of boot b. *)
Records == [id: Nat \X Nat, prev: Nat \X Nat, entry: Entries]

Nobody == "nobody"

(* The three that stand for no record and no writer.                       *)
ASSUME SentinelAssumption ==
    /\ Newline \notin Records /\ Torn \notin Records /\ Newline # Torn
    /\ Nobody \notin Writer

VARIABLES
    boot,           \* which start of the process this is
    chain,          \* ChainState: the last sequence number (its record's hash is prev_hash)
    lock,           \* who holds the chain mutex
    writing,        \* writing[w]: how far w's write has come
    failures,       \* write_failures
    recovery,       \* recovery_successes
    stats,          \* stats[k]: the counters of session k, None when absent
    file,           \* the pieces on disk
    stray,          \* pieces a dropped write left with the blocking pool
    acked,          \* history: records whose write returned Ok
    numbered,       \* history: entries given a number, in every boot
    outcomes        \* history: how the file writes of this boot ended

sinkVars == <<boot, chain, lock, writing, failures, recovery, stats, file, stray,
              acked, numbered, outcomes>>

None == [denied |-> -1, anomalies |-> -1]
Counters == [denied: Nat, anomalies: Nat]
Zero == [denied |-> 0, anomalies |-> 0]

NotWriting == [step |-> "none"]
Writing ==
    {NotWriting} \cup [step: {"queued"}, entry: Entries]
    \cup [step: {"record", "newline", "sync", "lookup", "count"}, rec: Records]

SinkInit ==
    /\ boot = 1
    /\ chain = 0
    /\ lock = Nobody
    /\ writing = [w \in Writer |-> NotWriting]
    /\ failures = 0
    /\ recovery = 0
    /\ stats = [k \in SessionKey |-> None]
    /\ file = <<>>
    /\ stray = {}
    /\ acked = {}
    /\ numbered = 0
    /\ outcomes = <<>>

----------------------------------------------------------------------------
historyVars == <<acked, numbered, outcomes>>
healthVars == <<failures, recovery>>

(* is_degraded *)
is_degraded == failures > 0

(* write(entry) is called and waits for the chain lock.  (A caller calls   *)
(* this from a step of its own.)                                           *)
Call(w, entry) == writing' = [writing EXCEPT ![w] = [step |-> "queued", entry |-> entry]]

At(w, step) == writing[w].step = step
Step(w, step) == writing' = [writing EXCEPT ![w].step = step]

NextRecord(w) ==
    [id |-> <<boot, chain + 1>>, prev |-> <<boot, chain>>, entry |-> writing[w].entry]

(* Faulty variant: the chain lock covers only the sequence number, as in   *)
(* the version the comment in write warns of.                              *)
assign_and_unlock(w) ==
    /\ At(w, "queued")
    /\ chain' = chain + 1
    /\ writing' = [writing EXCEPT ![w] = [step |-> "record", rec |-> NextRecord(w)]]
    /\ numbered' = numbered + 1
    /\ UNCHANGED <<boot, lock, healthVars, stats, file, stray, acked, outcomes>>

(* Faulty variant: the entry is counted before it is written. *)
assign_counting(w) ==
    LET k == writing[w].entry.session IN
    /\ At(w, "queued")
    /\ lock = Nobody
    /\ lock' = w
    /\ chain' = chain + 1
    /\ writing' = [writing EXCEPT ![w] = [step |-> "record", rec |-> NextRecord(w)]]
    /\ stats' = IF k = NoKey THEN stats ELSE [stats EXCEPT ![k] = [Zero EXCEPT !.denied = 1]]
    /\ numbered' = numbered + 1
    /\ UNCHANGED <<boot, healthVars, file, stray, acked, outcomes>>

(* write: take the lock, number and chain the record.  The chain has moved *)
(* on before anything is on disk.                                          *)
assign(w) ==
    /\ At(w, "queued")
    /\ lock = Nobody
    /\ lock' = w
    /\ chain' = chain + 1
    /\ writing' = [writing EXCEPT ![w] = [step |-> "record", rec |-> NextRecord(w)]]
    /\ numbered' = numbered + 1
    /\ UNCHANGED <<boot, healthVars, stats, file, stray, acked, outcomes>>

(* Faulty variant: the file is opened without append(true). *)
append_truncating(w) ==
    /\ At(w, "record")
    /\ file' = <<writing[w].rec>>
    /\ Step(w, "newline")
    /\ UNCHANGED <<boot, chain, lock, healthVars, stats, stray, historyVars>>

(* write_to_file: open and append, piece by piece. *)
append_record(w) ==
    /\ At(w, "record")
    /\ file' = Append(file, writing[w].rec)
    /\ Step(w, "newline")
    /\ UNCHANGED <<boot, chain, lock, healthVars, stats, stray, historyVars>>

(* Faulty variant: no newline. *)
append_nothing(w) ==
    /\ At(w, "newline")
    /\ Step(w, "sync")
    /\ UNCHANGED <<boot, chain, lock, healthVars, stats, file, stray, historyVars>>

append_newline(w) ==
    /\ At(w, "newline")
    /\ file' = Append(file, Newline)
    /\ Step(w, "sync")
    /\ UNCHANGED <<boot, chain, lock, healthVars, stats, stray, historyVars>>

(* Err of write_to_file: count it, start the row of successes anew.        *)
AfterFailure == failures' = failures + 1 /\ recovery' = 0

(* Ok of write_to_file while degraded: RECOVERY_THRESHOLD successes in a   *)
(* row end the degraded state.                                             *)
AfterSuccess ==
    IF ~is_degraded THEN UNCHANGED healthVars
    ELSE IF recovery + 1 >= RECOVERY_THRESHOLD THEN failures' = 0 /\ recovery' = 0
    ELSE recovery' = recovery + 1 /\ UNCHANGED failures

(* Opening the file or any piece may fail; what that leaves in the file:   *)
(* nothing or a part (open, record), nothing more (newline, sync).  The caller is told,  *)
(* the lock is released, the statistics are not touched.                   *)
write_fails(w) ==
    /\ writing[w].step \in {"record", "newline", "sync"}
    /\ file' \in {file} \cup (IF At(w, "record") THEN {Append(file, Torn)} ELSE {})
    /\ AfterFailure
    /\ outcomes' = Append(outcomes, FALSE)
    /\ lock' = Nobody
    /\ writing' = [writing EXCEPT ![w] = NotWriting]
    /\ UNCHANGED <<boot, chain, stats, stray, acked, numbered>>

(* Flushed and synced: the health counters, then on to the statistics.     *)
synced(w) ==
    /\ At(w, "sync")
    /\ AfterSuccess
    /\ outcomes' = Append(outcomes, TRUE)
    /\ Step(w, "lookup")
    /\ UNCHANGED <<boot, chain, lock, stats, file, stray, acked, numbered>>

(* AuditStats::record: find or create the counters.  An entry without a    *)
(* session has none, and write returns.                                    *)
stats_lookup(w) ==
    LET k == writing[w].rec.entry.session IN
    /\ At(w, "lookup")
    /\ IF k = NoKey
       THEN /\ writing' = [writing EXCEPT ![w] = NotWriting]
            /\ lock' = Nobody
            /\ acked' = acked \cup {writing[w].rec}
            /\ UNCHANGED stats
       ELSE /\ Step(w, "count")
            /\ stats' = IF stats[k] = None THEN [stats EXCEPT ![k] = Zero] ELSE stats
            /\ UNCHANGED <<lock, acked>>
    /\ UNCHANGED <<boot, chain, healthVars, file, stray, numbered, outcomes>>

Bump(c, entry) ==
    [denied |-> c.denied + (IF entry.decision = "deny" THEN 1 ELSE 0),
     anomalies |-> c.anomalies + (IF entry.flagged THEN 1 ELSE 0)]

(* Count on the counters found, outside their lock: counters removed in    *)
(* between are counted on by nobody who can see it.  write returns Ok.     *)
stats_count(w) ==
    LET rec == writing[w].rec
        k == rec.entry.session
    IN  /\ At(w, "count")
        /\ stats' = IF stats[k] = None THEN stats
                    ELSE [stats EXCEPT ![k] = Bump(@, rec.entry)]
        /\ writing' = [writing EXCEPT ![w] = NotWriting]
        /\ lock' = Nobody
        /\ acked' = acked \cup {rec}
        /\ UNCHANGED <<boot, chain, healthVars, file, stray, numbered, outcomes>>

(* close_session of the admin API reports a session's counters and drops   *)
(* them.                                                                   *)
remove_session(k) ==
    /\ stats[k] # None
    /\ stats' = [stats EXCEPT ![k] = None]
    /\ UNCHANGED <<boot, chain, lock, writing, healthVars, file, stray, historyVars>>

----------------------------------------------------------------------------
(* The caller is dropped at an await of write: the lock is released, and   *)
(* the piece it had handed to the blocking pool is still to be written, or *)
(* never will be.                                                          *)
LeftBehind(w) ==
    CASE At(w, "record")  -> {{}, {[piece |-> writing[w].rec, by |-> writing[w].rec.id]}}
      [] At(w, "newline") -> {{}, {[piece |-> Newline, by |-> writing[w].rec.id]}}
      [] OTHER            -> {{}}

DropWrite(w) ==
    /\ lock' = IF lock = w THEN Nobody ELSE lock
    /\ writing' = [writing EXCEPT ![w] = NotWriting]
    /\ \E left \in LeftBehind(w) : stray' = stray \cup left
    /\ UNCHANGED <<boot, chain, healthVars, stats, file, historyVars>>

(* The blocking pool gets round to a stray piece. *)
stray_lands ==
    \E p \in stray :
        /\ file' = Append(file, p.piece)
        /\ stray' = stray \ {p}
        /\ UNCHANGED <<boot, chain, lock, writing, healthVars, stats, historyVars>>

(* The process ends and is started again: AuditSink::new begins the chain  *)
(* at genesis, whatever the file holds.                                    *)
sink_restart ==
    /\ boot < MaxBoots
    /\ boot' = boot + 1
    /\ chain' = 0
    /\ lock' = Nobody
    /\ writing' = [w \in Writer |-> NotWriting]
    /\ failures' = 0
    /\ recovery' = 0
    /\ stats' = [k \in SessionKey |-> None]
    /\ stray' = {}
    /\ outcomes' = <<>>
    /\ UNCHANGED <<file, acked, numbered>>

SinkNext ==
    \/ \E w \in Writer :
          \/ assign(w)
          \/ append_record(w) \/ append_newline(w)
          \/ write_fails(w) \/ synced(w)
          \/ stats_lookup(w) \/ stats_count(w)
    \/ \E k \in SessionKey : remove_session(k)
    \/ stray_lands

----------------------------------------------------------------------------
(* Properties. *)

(* Every variable has its type. *)
SinkTypeOK ==
    /\ boot \in 1..MaxBoots
    /\ chain \in Nat
    /\ lock \in Writer \cup {Nobody}
    /\ writing \in [Writer -> Writing]
    /\ failures \in Nat /\ recovery \in Nat
    /\ stats \in [SessionKey -> Counters \cup {None}]
    /\ file \in Seq(Records \cup {Newline, Torn})
    /\ stray \subseteq [piece: Records \cup {Newline}, by: Nat \X Nat]
    /\ acked \subseteq Records
    /\ numbered \in Nat
    /\ outcomes \in Seq(BOOLEAN)

OnDisk == {i \in DOMAIN file : file[i] \notin {Newline, Torn}}

(* The record at i has a line to itself. *)
Readable(i) ==
    /\ i > 1 => file[i-1] = Newline
    /\ i < Len(file) => file[i+1] = Newline

(* The records still being written, or handed to the blocking pool.        *)
Pending ==
    {writing[w].rec.id : w \in {v \in Writer : writing[v].step \notin {"none", "queued"}}}

AckedIds == {rec.id : rec \in acked}

(* "The chain guard is held across the file write so sequence order        *)
(* matches on-disk order" (write): within one life of the process two      *)
(* records stand in the file in the order of their sequence numbers,       *)
(* unless the later one in the file is of a write whose caller was         *)
(* dropped.                                                                *)
SequenceOrder ==
    \A i, j \in OnDisk :
        i < j /\ file[i].id[1] = file[j].id[1] /\ file[j].id \in AckedIds \cup Pending
            => file[i].id[2] < file[j].id[2]

(* "A gap in sequence numbers indicates a lost or deleted entry"           *)
(* (entry.rs): nothing write acknowledged is missing from the file, so a   *)
(* number missing below another was never acknowledged, through torn       *)
(* writes, dropped callers and restarts.                                   *)
AckedOnDisk == \A rec \in acked : \E i \in OnDisk : file[i] = rec

(* Numbered, in this life of the process or an earlier one. *)
Numbered(h) == h[1] < boot \/ (h[1] = boot /\ h[2] <= chain)

(* Writes that failed or were dropped: numbered, neither acknowledged nor  *)
(* under way.                                                              *)
Lost == numbered - Cardinality(AckedIds) - Cardinality(Pending)

(* A write that fails or is dropped half way spoils at most one            *)
(* acknowledged record besides its own: the one that ends up on its line.  *)
Damaged == {i \in OnDisk : file[i].id \in AckedIds /\ ~Readable(i)}
DamageBounded == Cardinality(Damaged) <= Lost

(* "Update in-memory stats AFTER all writes succeed" (write): a session's  *)
(* close summary never counts a denial the file does not hold.             *)
StatsBackedByFile ==
    \A k \in SessionKey :
        stats[k] # None =>
            stats[k].denied <=
                Cardinality({i \in OnDisk : file[i].entry.session = k
                                            /\ file[i].entry.decision = "deny"})

(* Why they hold.  Whoever has a numbered record in hand has the lock, and *)
(* it is the last one numbered.                                            *)
InHand(w) == writing[w].step \notin {"none", "queued"}
HolderIsLast == \A w \in Writer : InHand(w) => lock = w /\ writing[w].rec.id = <<boot, chain>>

NumberedOnly ==
    /\ \A i \in OnDisk : Numbered(file[i].id)
    /\ \A rec \in acked : Numbered(rec.id)

(* It is not acknowledged yet; nor is it on disk before its turn, and from *)
(* then on it is.                                                          *)
InHandIsNew == \A w \in Writer : InHand(w) =>
    /\ writing[w].rec.id \notin AckedIds
    /\ At(w, "record") => \A i \in OnDisk : file[i].id # writing[w].rec.id
    /\ ~At(w, "record") => \E i \in OnDisk : file[i] = writing[w].rec

(* What lands late is of a write that was dropped and never acknowledged.  *)
StrayIsLost == \A p \in stray : p.piece # Newline =>
    Numbered(p.piece.id) /\ p.piece.id \notin AckedIds \cup Pending

(* The denials on disk that the statistics may have counted: the one in    *)
(* hand has not been.                                                      *)
Settled(k) ==
    {i \in OnDisk : /\ file[i].entry.session = k
                    /\ file[i].entry.decision = "deny"
                    /\ file[i].id \notin Pending}
CountedIsSettled ==
    \A k \in SessionKey : stats[k] # None => stats[k].denied <= Cardinality(Settled(k))

(* Each entry that was numbered is in the file at most once, in whole or   *)
(* torn, or still to be written.                                           *)
TornAt == {i \in DOMAIN file : file[i] = Torn}
StrayRecords == {p \in stray : p.piece # Newline}
Unwritten == {w \in Writer : At(w, "record")}
AllNumbered ==
    Cardinality(OnDisk) + Cardinality(TornAt) + Cardinality(StrayRecords)
        + Cardinality(Unwritten) <= numbered

(* An acknowledged record has its newline, and so has one that is about to *)
(* be acknowledged; between two of them there is one.                      *)
Finished(w) == writing[w].step \in {"sync", "lookup", "count"}
Ending == AckedIds \cup {writing[w].rec.id : w \in {v \in Writer : Finished(v)}}
Terminated(i) == \E k \in DOMAIN file : i < k /\ file[k] = Newline
LinesEnd == \A i \in OnDisk : file[i].id \in Ending => Terminated(i)
LinesApart == \A i, j \in OnDisk :
    i < j /\ {file[i].id, file[j].id} \subseteq AckedIds \cup Pending
        => \E k \in DOMAIN file : i < k /\ k < j /\ file[k] = Newline

FileInv == IsFiniteSet(stray) /\ AllNumbered /\ LinesEnd /\ LinesApart

SinkInv ==
    /\ SinkTypeOK /\ HolderIsLast /\ NumberedOnly /\ InHandIsNew /\ StrayIsLost
    /\ SequenceOrder /\ AckedOnDisk /\ CountedIsSettled
=============================================================================
