----------------------------- MODULE NodeStore ------------------------------
(***************************************************************************)
(* A component's state directory (src/src/node.cpp): the state file with    *)
(* its backup, the record log, and the order in which the handlers write    *)
(* them.  Every file operation is a step; the process may die or a file     *)
(* operation may fail between any two and in the middle of one.             *)
(*                                                                          *)
(* The document is the sequence of writes applied, so its length is the log *)
(* position.  A crash is the death of the process: what was written stays   *)
(* written.  The identity file's only content is the boot counter.          *)
(***************************************************************************)
EXTENDS RecordFile, FiniteSets

CONSTANTS
    MaxLog,      \* max_log_records
    Snapshots,   \* the documents an install_snapshot may bring
    MaxWrites,   \* bound on writes
    MaxCrashes,  \* bound on deaths of the process
    MaxErrors,   \* bound on failed file operations, no two of one kind
    MaxLosses    \* bound on images the medium loses

Step == {"rewrite", "append", "compact", "truncate", "backup", "install"}

Request == {"open", "write", "batch", "snapshot", "other"}

ASSUME StoreAssumption ==
    /\ MaxLog \in Nat \ {0}
    /\ Snapshots \subseteq Seq(Int)
    /\ {MaxWrites, MaxCrashes, MaxErrors, MaxLosses} \subseteq Nat

VARIABLES
    mem,     \* the process's doc and records_; base is the log position it started from
    file,    \* state and its backup, log
    boot,    \* the boot counter of the identity file
    pc,      \* the file operation under way, "idle", "batch" between two records, or "down"
    op,      \* the request it belongs to
    acked,   \* the document last acknowledged
    saved,   \* history: the documents the state file has held
    count,   \* writes, crashes and losses so far
    failed   \* the kinds of file operations that have failed

vars == <<mem, file, boot, pc, op, acked, saved, count, failed>>

Nothing == [doc |-> <<>>, records |-> <<>>, base |-> 0]

Init ==
    /\ mem = Nothing
    /\ file = [state |-> NoImage, backup |-> NoImage, log |-> <<>>]
    /\ boot = 0
    /\ pc = "down" /\ op = "open"
    /\ acked = <<>>
    /\ saved = {<<>>}
    /\ count = [writes |-> 0, crashes |-> 0, losses |-> 0]
    /\ failed = {}

----------------------------------------------------------------------------
(* Opening the directory *)

\* load_state: no state file is a fresh directory; otherwise the primary or the backup.
Loadable == file.state.status = "absent" \/ Recoverable(file)
Loaded == IF file.state.status = "absent" THEN <<>> ELSE Recovered(file)

\* load_records copies the records up to lsn, one after the other.
Committed(records, lsn) ==
    LET kept[i \in 0..Len(records)] ==
            IF i = 0 THEN <<>>
            ELSE IF records[i].lsn <= lsn THEN Append(kept[i - 1], records[i])
            ELSE kept[i - 1]
    IN  kept[Len(records)]

\* load_identity, load_state, load_records.  Records past the committed position are dropped
\* from memory and, by a rewrite, from the file; without such a record the file stays as it
\* is, a damaged tail included.
Open ==
    LET read == ReadRecords(file.log)
        kept == Committed(read, Len(Loaded))
    IN  /\ pc = "down" /\ Loadable
        /\ boot' = boot + 1
        /\ mem' = [doc |-> Loaded, records |-> kept, base |-> Len(Loaded)]
        /\ op' = "open"
        /\ pc' = IF Len(kept) < Len(read) THEN "rewrite" ELSE "backup"
        /\ UNCHANGED <<file, acked, saved, count, failed>>

\* Neither image verifies: the boot is refused, now and ever after.  (The boot numbers that
\* load_identity uses up before it are seen by nobody.)
OpenRefused ==
    /\ pc = "down" /\ ~Loadable
    /\ UNCHANGED vars

----------------------------------------------------------------------------
(* Requests that change the document *)

Put(request) ==
    /\ count.writes < MaxWrites
    /\ count' = [count EXCEPT !.writes = @ + 1]
    /\ mem' = [mem EXCEPT !.doc = Append(@, count.writes + 1)]
    /\ pc' = "append" /\ op' = request
    /\ UNCHANGED <<file, boot, acked, saved, failed>>

\* apply_write
Write == pc = "idle" /\ Put("write")

\* apply_records: record after record, and one save at the end.
BatchRecord == pc \in {"idle", "batch"} /\ Put("batch")

\* A record does not fit: the ones before it stay in memory, nothing is saved.
BatchRefused ==
    /\ pc = "batch"
    /\ pc' = "idle"
    /\ UNCHANGED <<mem, file, boot, op, acked, saved, count, failed>>

BatchSave ==
    /\ pc = "batch"
    /\ pc' = "backup"
    /\ UNCHANGED <<mem, file, boot, op, acked, saved, count, failed>>

\* Mutant: the snapshot is saved, the log of the old document stays.
InstallSnapshot_LogKept(doc) ==
    /\ pc = "idle"
    /\ mem' = [doc |-> doc, records |-> <<>>, base |-> Len(doc)]
    /\ pc' = "backup" /\ op' = "snapshot"
    /\ acked' = <<>>
    /\ UNCHANGED <<file, boot, saved, count, failed>>

\* node.install_snapshot replaces the document, empties the log, then saves.
InstallSnapshot(doc) ==
    /\ pc = "idle"
    /\ mem' = [doc |-> doc, records |-> <<>>, base |-> Len(doc)]
    /\ pc' = "truncate" /\ op' = "snapshot"
    /\ acked' = <<>>
    /\ UNCHANGED <<file, boot, saved, count, failed>>

\* The handlers that only save: snapshot, fence, grant_authority, migrate, retire.
SaveOther ==
    /\ pc = "idle"
    /\ pc' = "backup" /\ op' = "other"
    /\ UNCHANGED <<mem, file, boot, acked, saved, count, failed>>

----------------------------------------------------------------------------
(* File operations *)

\* Mutant: the record carries the log position before the write.
Entry_OldPosition ==
    [lsn |-> Len(mem.doc) - 1, value |-> mem.doc[Len(mem.doc)], boot |-> boot]

Entry == [lsn |-> Len(mem.doc), value |-> mem.doc[Len(mem.doc)], boot |-> boot]

AfterAppend == IF op = "batch" THEN "batch" ELSE "backup"

\* append_record, then append_record_entry
AppendRecord ==
    /\ pc = "append"
    /\ file' = [file EXCEPT !.log = Append(@, Intact(Entry))]
    /\ mem' = [mem EXCEPT !.records = Append(@, Entry)]
    /\ pc' = IF Len(mem.records) + 1 > MaxLog THEN "compact" ELSE AfterAppend
    /\ UNCHANGED <<boot, op, acked, saved, count, failed>>

\* Mutant: compaction keeps the older half.
Compact_Oldest ==
    LET kept == SubSeq(mem.records, 1, Keep(MaxLog))
    IN  /\ pc = "compact"
        /\ file' = [file EXCEPT !.log = LogOf(kept)]
        /\ mem' = [mem EXCEPT !.records = kept]
        /\ pc' = AfterAppend
        /\ UNCHANGED <<boot, op, acked, saved, count, failed>>

\* compact_records
Compact ==
    LET kept == Newest(mem.records, Keep(MaxLog))
    IN  /\ pc = "compact"
        /\ file' = [file EXCEPT !.log = LogOf(kept)]
        /\ mem' = [mem EXCEPT !.records = kept]
        /\ pc' = AfterAppend
        /\ UNCHANGED <<boot, op, acked, saved, count, failed>>

\* rewrite_records, and the truncation of install_snapshot: the log as it is in memory.
Rewrite ==
    /\ pc \in {"rewrite", "truncate"}
    /\ file' = [file EXCEPT !.log = LogOf(mem.records)]
    /\ pc' = "backup"
    /\ UNCHANGED <<mem, boot, op, acked, saved, count, failed>>

\* save_state, the backup
Backup ==
    /\ pc = "backup"
    /\ file' = BackedUp(file)
    /\ pc' = "install"
    /\ UNCHANGED <<mem, boot, op, acked, saved, count, failed>>

\* Mutant: the request is answered with the image still to be renamed into place.
Install_AnswerFirst ==
    /\ pc = "install"
    /\ pc' = "idle"
    /\ acked' = IF op \in {"write", "batch", "snapshot"} THEN mem.doc ELSE acked
    /\ UNCHANGED <<mem, file, boot, op, saved, count, failed>>

\* save_state, the new image; the request is answered.
Install ==
    /\ pc = "install"
    /\ file' = Installed(file, mem.doc)
    /\ saved' = saved \cup {mem.doc}
    /\ pc' = "idle"
    /\ acked' = IF op \in {"write", "batch", "snapshot"} THEN mem.doc ELSE acked
    /\ UNCHANGED <<mem, boot, op, count, failed>>

----------------------------------------------------------------------------
(* Faults *)

\* What an operation that does not complete may leave: an append part of a record, or all of it
\* when it is the flush behind the write that fails; the copy of the backup likewise.  The others
\* write beside the file and rename.
Interrupted ==
    {file} \cup
    CASE pc = "append" -> {[file EXCEPT !.log = Append(@, cell)] : cell \in {Torn(Entry), Intact(Entry)}}
      [] pc = "backup" /\ file.state.status = "intact" ->
            {[file EXCEPT !.backup = copy] : copy \in {Damaged(file.state), file.state}}
      [] OTHER -> {}

\* The operation fails and its error goes back to the caller; what the handler has changed in
\* memory stays.  In open the process gives up.
IoError ==
    /\ pc \in Step \ failed
    /\ Cardinality(failed) < MaxErrors
    /\ failed' = failed \cup {pc}
    /\ file' \in Interrupted
    /\ pc' = IF op = "open" THEN "down" ELSE "idle"
    /\ mem' = IF op = "open" THEN Nothing ELSE mem
    /\ UNCHANGED <<boot, op, acked, saved, count>>

Crash ==
    /\ pc # "down"
    /\ count.crashes < MaxCrashes
    /\ count' = [count EXCEPT !.crashes = @ + 1]
    /\ file' \in Interrupted
    /\ pc' = "down" /\ mem' = Nothing
    /\ UNCHANGED <<boot, op, acked, saved, failed>>

\* The medium damages the state file.  The component notices when it reads it.
Lose ==
    /\ file.state.status = "intact"
    /\ count.losses < MaxLosses
    /\ count' = [count EXCEPT !.losses = @ + 1]
    /\ file' = [file EXCEPT !.state = Damaged(@)]
    /\ acked' = <<>>
    /\ UNCHANGED <<mem, boot, pc, op, saved, failed>>

Next ==
    \/ Open \/ OpenRefused
    \/ Write \/ BatchRecord \/ BatchRefused \/ BatchSave
    \/ \E doc \in Snapshots : InstallSnapshot(doc)
    \/ SaveOther
    \/ AppendRecord \/ Compact \/ Rewrite \/ Backup \/ Install
    \/ IoError \/ Crash \/ Lose

Spec == Init /\ [][Next]_vars

----------------------------------------------------------------------------
(* Properties *)

Doc == Seq(Int)
Record == [lsn: Nat \ {0}, value: Int, boot: Nat \ {0}]

\* The component's memory and files have their types; a log position is never 0.
TypeOK ==
    /\ mem \in [doc: Doc, records: Seq(Record), base: Nat]
    /\ file \in [state: Image(Doc), backup: Image(Doc), log: Seq([intact: BOOLEAN, rec: Record])]
    /\ boot \in Nat
    /\ pc \in Step \cup {"idle", "batch", "down"}
    /\ op \in Request
    /\ acked \in Doc
    /\ saved \in SUBSET Doc
    /\ count \in [writes: 0..MaxWrites, crashes: 0..MaxCrashes, losses: 0..MaxLosses]
    /\ failed \subseteq Step

\* The component's directory is a durable document: Loaded is what it commits to.
Durable == INSTANCE DurableDocument WITH
    committed <- IF Loadable THEN Loaded ELSE <<>>,
    visible <- mem.doc,
    past <- saved,
    up <- pc # "down",
    losses <- count.losses

\* The order of backup, rename, log and answer in node.cpp implements that promise, whatever
\* step the process dies in and whichever save fails.
ImplementsDurableDocument == Durable!Spec

\* An acknowledged write is in the document a restart loads, and in the one served.
AckedSurvives == Durable!AckedDurable

\* The record log never contradicts the document: the records this process appended never
\* do, and as long as crashes are all that happens no record does, nor will one that a restart
\* would read.  (After a failed file operation, or a state file lost to the medium, a restart
\* may find an older document than the one the log continues.)
LogAgrees ==
    LET CrashesOnly == failed = {} /\ count.losses = 0
    IN  /\ \A i \in DOMAIN mem.records :
            LET r == mem.records[i] IN
            r.boot = boot \/ CrashesOnly =>
                r.lsn <= Len(mem.doc) /\ mem.doc[r.lsn] = r.value
        /\ CrashesOnly =>
            \A i \in 1..Readable(file.log) :
                LET r == file.log[i].rec IN r.lsn <= Len(Loaded) => Loaded[r.lsn] = r.value

\* read_since can serve every position from the one the process started at, except what a
\* compaction removed from the front: a handoff takes its snapshot from this process, so its
\* catch-up never meets a hole, in spite of damaged tails left in the file and of every failed
\* operation but one: a write whose append fails has taken a log position without a record.
NoHole ==
    pc = "idle" /\ "append" \notin failed =>
        \A p \in (mem.base + 1)..Len(mem.doc) :
            \/ \E i \in DOMAIN mem.records : mem.records[i].lsn = p
            \/ mem.records # <<>> /\ p < mem.records[1].lsn
=============================================================================
