-------------------------- MODULE NodeStoreProofs ---------------------------
(***************************************************************************)
(* Proofs about a component's state directory, for any log limit, any       *)
(* snapshots and any number of writes, crashes, failed file operations and  *)
(* lost images.                                                             *)
(*                                                                          *)
(* Three inductive invariants: Stored, which the refinement needs, LogInv   *)
(* for LogAgrees, and Contiguous for NoHole, the last two relative to       *)
(* Stored.                                                                  *)
(***************************************************************************)
EXTENDS NodeStore, RecordFileProofs

----------------------------------------------------------------------------
(* The inductive invariant *)

\* Where the process is and what it has then.
Running ==
    /\ pc = "down" => mem = Nothing
    /\ pc # "down" => boot # 0
    /\ pc = "append" => mem.doc # <<>>
    /\ pc \in {"append", "compact"} => op \in {"write", "batch"}
    /\ pc = "batch" => op = "batch"
    /\ pc = "rewrite" => op = "open"
    /\ pc = "truncate" => op = "snapshot"

\* An intact image is one that was saved, and only the medium damages the state file.
Images ==
    /\ <<>> \in saved
    /\ file.state.status = "intact" => file.state.body \in saved
    /\ file.backup.status = "intact" => file.backup.body \in saved
    /\ count.losses = 0 => file.state.status # "torn"

\* The records in memory, those in the log file, and those of them that a restart would read.
MemLog == {mem.records[i] : i \in DOMAIN mem.records}
FileLog == {file.log[i].rec : i \in DOMAIN file.log}
ReadLog == {file.log[i].rec : i \in 1..Readable(file.log)}

\* No record is of a boot still to come.
Boots == \A r \in MemLog \cup FileLog : r.boot <= boot

CrashesOnly == failed = {} /\ count.losses = 0

\* Between the installation of a snapshot in memory and that of its image.
Replacing == op = "snapshot" /\ pc \in {"truncate", "backup", "install"}

Agrees(r, doc) == r.lsn <= Len(doc) /\ doc[r.lsn] = r.value

AgreesUpTo(r, doc) == r.lsn <= Len(doc) => doc[r.lsn] = r.value

\* LogAgrees in terms of those sets.
LogSound ==
    /\ \A r \in MemLog : r.boot = boot \/ CrashesOnly => Agrees(r, mem.doc)
    /\ CrashesOnly => \A r \in ReadLog : AgreesUpTo(r, Loaded)

\* As long as crashes are all that happens, what a restart would read of the log agrees with
\* the document in memory too, and that one continues the one on disk; the log of a document
\* that is being replaced is empty before the new image is written.
LogInSync ==
    CrashesOnly =>
        /\ pc \notin {"down", "truncate"} => \A r \in ReadLog : AgreesUpTo(r, mem.doc)
        /\ pc \notin {"down", "rewrite", "truncate"} => \A r \in ReadLog : r.lsn <= Len(mem.doc)
        /\ pc # "down" /\ ~Replacing => Durable!Extends(mem.doc, Loaded)
        /\ Replacing => MemLog = {} /\ (pc # "truncate" => ReadLog = {})

\* The log position up to which the records of this process go.
Recorded == IF pc = "append" THEN Len(mem.doc) - 1 ELSE Len(mem.doc)

\* Counted from the end, the records this process has made carry consecutive positions.
Contiguous ==
    pc # "down" /\ "append" \notin failed =>
        /\ mem.base <= Recorded
        /\ mem.base < Recorded => mem.records # <<>>
        /\ \A j \in DOMAIN mem.records :
            LET p == Recorded - (Len(mem.records) - j)
            IN  mem.base < p => mem.records[j].lsn = p

LogInv == Boots /\ LogSound /\ LogInSync

----------------------------------------------------------------------------
(* Operators *)

\* Among sequences, to extend one is to agree with it at each of its places.
LEMMA ExtendsPointwise ==
    ASSUME NEW d \in Seq(Int), NEW e \in Seq(Int)
    PROVE  Durable!Extends(d, e) <=>
             Len(e) <= Len(d) /\ \A i \in 1..Len(e) : d[i] = e[i]
<1>1. Len(d) \in Nat /\ Len(e) \in Nat /\ \A i \in 1..Len(d) : d[i] \in Int
  BY LenProperties, ElementOfSeq
<1>2. CASE Len(e) <= Len(d)
  <2> DEFINE sub == SubSeq(d, 1, Len(e))
  <2>1. sub \in Seq(Int) /\ Len(sub) = Len(e) /\ \A i \in 1..Len(e) : sub[i] = d[i]
    <3>1. \A i \in 1..Len(e) : d[i] \in Int
      BY <1>1, <1>2
    <3>2. /\ sub \in Seq(Int)
          /\ Len(sub) = IF 1 <= Len(e) THEN Len(e) - 1 + 1 ELSE 0
          /\ \A i \in 1..(Len(e) - 1 + 1) : sub[i] = d[1 + i - 1]
      BY <1>1, <3>1, SubSeqProperties
    <3> HIDE DEF sub
    <3>3. QED
      BY <1>1, <3>2
  <2>2. Durable!Extends(d, e) <=> sub = e
    BY <1>2 DEF Durable!Extends
  <2> HIDE DEF sub
  <2>3. sub = e <=> \A i \in 1..Len(e) : sub[i] = e[i]
    BY <2>1, SeqEqual
  <2>4. QED
    BY <1>2, <2>1, <2>2, <2>3
<1>3. CASE ~(Len(e) <= Len(d))
  BY <1>3 DEF Durable!Extends
<1>4. QED
  BY <1>2, <1>3

\* A document extends itself and the empty one, and extending is transitive.
LEMMA ExtendsIsOrder ==
    ASSUME NEW d \in Seq(Int), NEW e \in Seq(Int), NEW f \in Seq(Int)
    PROVE  /\ Durable!Extends(d, d)
           /\ Durable!Extends(d, <<>>)
           /\ Durable!Extends(d, e) /\ Durable!Extends(e, f) => Durable!Extends(d, f)
<1>1. Len(d) \in Nat /\ Len(e) \in Nat /\ Len(f) \in Nat
  OBVIOUS
<1>2. <<>> \in Seq(Int) /\ Len(<<>>) = 0
  OBVIOUS
<1>3. Durable!Extends(d, d)
  BY <1>1, ExtendsPointwise
<1>4. Durable!Extends(d, <<>>)
  <2>1. Len(<<>>) <= Len(d) /\ \A i \in 1..Len(<<>>) : d[i] = <<>>[i]
    BY <1>1, <1>2
  <2>2. QED
    BY <1>2, <2>1, ExtendsPointwise
<1>5. ASSUME Durable!Extends(d, e), Durable!Extends(e, f)
      PROVE  Durable!Extends(d, f)
  <2>1. Len(e) <= Len(d) /\ \A i \in 1..Len(e) : d[i] = e[i]
    BY <1>5, ExtendsPointwise
  <2>2. Len(f) <= Len(e) /\ \A i \in 1..Len(f) : e[i] = f[i]
    BY <1>5, ExtendsPointwise
  <2>3. Len(f) <= Len(d) /\ \A i \in 1..Len(f) : d[i] = f[i]
    BY <1>1, <2>1, <2>2
  <2>4. QED
    BY <2>3, ExtendsPointwise
<1>6. QED
  BY <1>3, <1>4, <1>5

\* A write makes the document longer by one.
LEMMA AppendExtends ==
    ASSUME NEW d \in Seq(Int), NEW v \in Int
    PROVE  /\ Append(d, v) \in Seq(Int) /\ Len(Append(d, v)) = Len(d) + 1
           /\ Durable!Extends(Append(d, v), d)
<1>1. /\ Append(d, v) \in Seq(Int) /\ Len(Append(d, v)) = Len(d) + 1
      /\ \A i \in 1..Len(d) : Append(d, v)[i] = d[i]
      /\ Len(d) \in Nat
  BY AppendProperties, LenProperties
<1>2. Len(d) <= Len(Append(d, v))
  BY <1>1
<1>3. Durable!Extends(Append(d, v), d)
  BY <1>1, <1>2, ExtendsPointwise
<1>4. QED
  BY <1>1, <1>3

\* load_records keeps records of the log, none past the committed position, and drops one
\* only when it is past it.
LEMMA CommittedSelects ==
    ASSUME NEW records \in Seq(Record), NEW lsn \in Nat
    PROVE  /\ Committed(records, lsn) \in Seq(Record)
           /\ \A i \in DOMAIN Committed(records, lsn) :
                \E j \in DOMAIN records :
                    Committed(records, lsn)[i] = records[j] /\ records[j].lsn <= lsn
           /\ Len(Committed(records, lsn)) <= Len(records)
           /\ Len(Committed(records, lsn)) = Len(records) =>
                \A j \in DOMAIN records : records[j].lsn <= lsn
<1> DEFINE n == Len(records)
           Fits(j) == records[j].lsn <= lsn
           Step1(f, i) == IF i = 0 THEN <<>>
                          ELSE IF Fits(i) THEN Append(f[i - 1], records[i])
                          ELSE f[i - 1]
           kept == CHOOSE f : f = [i \in 0..n |-> Step1(f, i)]
<1>1. Committed(records, lsn) = kept[n]
  BY DEF Committed
<1>2. n \in Nat /\ DOMAIN records = 1..n /\ \A j \in 1..n : records[j] \in Record
  BY LenProperties, ElementOfSeq
<1> HIDE DEF n, Fits
<1>3. kept = [i \in 0..n |-> Step1(kept, i)]
  <2> DEFINE h == [x \in (1..n) \X Seq(Record) |->
                    IF Fits(x[1]) THEN Append(x[2], records[x[1]]) ELSE x[2]]
  <2>1. h \in [(1..n) \X Seq(Record) -> Seq(Record)]
    BY <1>2, AppendProperties
  <2>2. <<>> \in Seq(Record)
    OBVIOUS
  <2> HIDE DEF h
  <2>3. PICK f \in [0..n -> Seq(Record)] :
            f[0] = <<>> /\ \A i \in 1..n : f[i] = h[<<i, f[i - 1]>>]
    <3> DEFINE T == Seq(Record)
               e == <<>>
    <3>1. n \in Nat /\ e \in T /\ h \in [(1..n) \X T -> T]
      BY <1>2, <2>1, <2>2
    <3> HIDE DEF T, e
    <3>2. \E f \in [0..n -> T] : Iterates(f, e, h, n)
      BY <3>1, Iteration
    <3>3. QED
      BY <3>2, Zenon DEF T, e, Iterates
  <2>4. ASSUME NEW i \in 0..n
        PROVE  f[i] = Step1(f, i)
    <3>1. CASE i = 0
      BY <2>3, <3>1
    <3>2. CASE i # 0
      <4>1. i \in 1..n /\ i - 1 \in 0..n
        BY <1>2, <3>2
      <4>2. f[i] = h[<<i, f[i - 1]>>] /\ <<i, f[i - 1]>> \in (1..n) \X Seq(Record)
        BY <2>3, <4>1
      <4>3. QED
        BY <3>2, <4>2 DEF h
    <3>3. QED
      BY <3>1, <3>2
  <2>5. f = [i \in 0..n |-> Step1(f, i)]
    BY <2>3, <2>4
  <2>6. QED
    BY <2>5, Zenon
<1> HIDE DEF kept
<1> DEFINE Good(i) ==
        /\ kept[i] \in Seq(Record)
        /\ \A k \in DOMAIN kept[i] :
              \E j \in DOMAIN records : kept[i][k] = records[j] /\ Fits(j)
        /\ Len(kept[i]) <= i
        /\ Len(kept[i]) = i => \A j \in 1..i : Fits(j)
           S == {i \in 0..n : Good(i)}
<1>4. 0 \in S
  <2>1. kept[0] = <<>> /\ 0 \in 0..n
    BY <1>2, <1>3
  <2>2. <<>> \in Seq(Record) /\ Len(<<>>) = 0 /\ DOMAIN <<>> = {}
    OBVIOUS
  <2>3. Good(0)
    BY <2>1, <2>2
  <2>4. QED
    BY <2>1, <2>3
<1>5. ASSUME NEW i \in 0..n, i \in S, i < n
      PROVE  i + 1 \in S
  <2>1. i \in Nat /\ i + 1 \in 1..n /\ i + 1 \in 0..n /\ (i + 1) - 1 = i /\ i + 1 # 0
    BY <1>2, <1>5
  <2>2. kept[i + 1] = IF Fits(i + 1) THEN Append(kept[i], records[i + 1]) ELSE kept[i]
    BY <1>3, <2>1
  <2>3. Good(i)
    BY <1>5
  <2>4. records[i + 1] \in Record /\ i + 1 \in DOMAIN records
    BY <1>2, <2>1
  <2>5. CASE Fits(i + 1)
    <3>1. /\ kept[i + 1] \in Seq(Record)
          /\ Len(kept[i + 1]) = Len(kept[i]) + 1
          /\ \A k \in 1..Len(kept[i]) : kept[i + 1][k] = kept[i][k]
          /\ kept[i + 1][Len(kept[i]) + 1] = records[i + 1]
          /\ Len(kept[i]) \in Nat
      BY <2>2, <2>3, <2>4, <2>5, AppendProperties, LenProperties
    <3>2. DOMAIN kept[i + 1] = 1..(Len(kept[i]) + 1) /\ DOMAIN kept[i] = 1..Len(kept[i])
      BY <2>3, <3>1, LenProperties
    <3>3. ASSUME NEW k \in DOMAIN kept[i + 1]
          PROVE  \E j \in DOMAIN records : kept[i + 1][k] = records[j] /\ Fits(j)
      <4>1. CASE k \in 1..Len(kept[i])
        BY <2>3, <3>1, <3>2, <4>1
      <4>2. CASE k = Len(kept[i]) + 1
        BY <2>4, <2>5, <3>1, <4>2
      <4>3. QED
        BY <3>1, <3>2, <4>1, <4>2
    <3>4. Len(kept[i + 1]) <= i + 1
      BY <2>1, <2>3, <3>1
    <3>5. Len(kept[i + 1]) = i + 1 => \A j \in 1..(i + 1) : Fits(j)
      <4>1. Len(kept[i + 1]) = i + 1 => \A j \in 1..i : Fits(j)
        BY <2>1, <2>3, <3>1
      <4>2. \A j \in 1..(i + 1) : j \in 1..i \/ j = i + 1
        BY <2>1
      <4>3. QED
        BY <2>5, <4>1, <4>2
    <3>6. QED
      BY <2>1, <3>1, <3>3, <3>4, <3>5
  <2>6. CASE ~Fits(i + 1)
    <3>1. kept[i + 1] = kept[i]
      BY <2>2, <2>6
    <3>2. Len(kept[i]) \in Nat
      BY <2>3
    <3>3. Len(kept[i + 1]) <= i + 1 /\ Len(kept[i + 1]) # i + 1
      BY <2>1, <2>3, <3>1, <3>2
    <3>4. QED
      BY <2>1, <2>3, <3>1, <3>3
  <2>7. QED
    BY <2>5, <2>6
<1>6. Good(n)
  <2> HIDE DEF S
  <2>1. \A i \in 0..n : i \in S
    BY <1>2, <1>4, <1>5, UpTo
  <2>2. n \in S
    BY <1>2, <2>1
  <2>3. QED
    BY <2>2 DEF S
<1>7. QED
  BY <1>1, <1>2, <1>6 DEF n, Fits

----------------------------------------------------------------------------
(* Types *)

\* An image has a body, and what is loaded from the images is a document.
LEMMA LoadedIsDoc ==
    ASSUME TypeOK
    PROVE  /\ Loaded \in Doc
           /\ file.state.status \in {"absent", "intact", "torn"}
           /\ file.state.body \in Doc /\ file.backup.body \in Doc
<1>1. <<>> \in Doc
  BY DEF Doc
<1>2. \A x \in Image(Doc) : x.body \in Doc /\ x.status \in {"absent", "intact", "torn"}
  BY <1>1 DEF Image, NoImage
<1>3. file.state \in Image(Doc) /\ file.backup \in Image(Doc)
  BY DEF TypeOK
<1>4. QED
  BY <1>1, <1>2, <1>3 DEF Loaded, Recovered

FileType == [state: Image(Doc), backup: Image(Doc), log: Cells(Record)]

\* The record of a write is a record.
LEMMA EntryIsRecord ==
    ASSUME TypeOK, Running, pc = "append"
    PROVE  /\ Entry \in Record
           /\ Entry.lsn = Len(mem.doc) /\ Entry.lsn \in Nat \ {0}
           /\ Entry.value = mem.doc[Len(mem.doc)] /\ Entry.boot = boot
<1>1. mem.doc \in Seq(Int) /\ mem.doc # <<>> /\ boot \in Nat \ {0}
  BY DEF TypeOK, Running, Doc
<1>2. Len(mem.doc) \in Nat \ {0} /\ mem.doc[Len(mem.doc)] \in Int
  BY <1>1
<1>3. QED
  BY <1>1, <1>2 DEF Entry, Record

\* A file operation that does not complete leaves the state file alone; it may leave part of
\* a record in the log, or a damaged backup of an intact state file.
LEMMA InterruptedFiles ==
    ASSUME TypeOK, Running, NEW f \in Interrupted
    PROVE  /\ f \in FileType
           /\ f.state = file.state
           /\ \/ f.log = file.log
              \/ /\ pc = "append"
                 /\ \E cell \in {Torn(Entry), Intact(Entry)} : f.log = Append(file.log, cell)
           /\ \/ f.backup = file.backup
              \/ /\ file.state.status = "intact"
                 /\ f.backup.status = "torn" \/ f.backup = file.state
<1>1. file \in FileType
  BY DEF TypeOK, FileType, Cells
<1>2. CASE f = file
  BY <1>1, <1>2
<1>3. ASSUME pc = "append", NEW cell \in {Torn(Entry), Intact(Entry)},
             f = [file EXCEPT !.log = Append(@, cell)]
      PROVE  f \in FileType /\ f.state = file.state /\ f.backup = file.backup
             /\ f.log = Append(file.log, cell)
  <2>1. cell \in [intact: BOOLEAN, rec: Record]
    <3>1. Entry \in Record
      BY <1>3, EntryIsRecord
    <3>2. Torn(Entry) \in [intact: BOOLEAN, rec: Record] /\ Intact(Entry) \in [intact: BOOLEAN, rec: Record]
      BY <3>1 DEF Torn, Intact
    <3>3. QED
      BY <3>2
  <2>2. file.log \in Cells(Record)
    BY <1>1 DEF FileType
  <2>3. Append(file.log, cell) \in Cells(Record)
    BY <2>1, <2>2, AppendProperties DEF Cells
  <2>4. QED
    BY <1>1, <1>3, <2>3 DEF FileType
<1>4. ASSUME pc = "backup", file.state.status = "intact",
             NEW copy \in {Damaged(file.state), file.state},
             f = [file EXCEPT !.backup = copy]
      PROVE  /\ f \in FileType /\ f.state = file.state /\ f.log = file.log
             /\ f.backup.status = "torn" \/ f.backup = file.state
  <2>1. file.state \in Image(Doc)
    BY <1>1 DEF FileType
  <2>2. file.state \in [status: {"intact", "torn"}, body: Doc]
    BY <1>4, <2>1 DEF Image, NoImage
  <2>3. /\ Damaged(file.state) \in [status: {"intact", "torn"}, body: Doc]
        /\ Damaged(file.state).status = "torn"
    BY <2>2 DEF Damaged
  <2>4. copy \in Image(Doc)
    BY <2>1, <2>3 DEF Image
  <2>5. f \in FileType /\ f.state = file.state /\ f.log = file.log /\ f.backup = copy
    BY <1>1, <1>4, <2>4 DEF FileType
  <2>6. QED
    BY <2>3, <2>5
<1>5. \/ f = file
      \/ /\ pc = "append"
         /\ \E cell \in {Torn(Entry), Intact(Entry)} : f = [file EXCEPT !.log = Append(@, cell)]
      \/ /\ pc = "backup" /\ file.state.status = "intact"
         /\ \E copy \in {Damaged(file.state), file.state} : f = [file EXCEPT !.backup = copy]
  BY DEF Interrupted
<1>6. QED
  BY <1>2, <1>3, <1>4, <1>5

\* Every step keeps the types.
LEMMA TypeKept ==
    ASSUME TypeOK, Running, [Next]_vars
    PROVE  TypeOK'
<1> USE StoreAssumption
<1> DEFINE Places == Step \cup {"idle", "batch", "down"}
<1>1. /\ mem \in [doc: Doc, records: Seq(Record), base: Nat]
      /\ file \in FileType
      /\ boot \in Nat /\ pc \in Places /\ op \in Request
      /\ acked \in Doc /\ saved \in SUBSET Doc
      /\ count \in [writes: 0..MaxWrites, crashes: 0..MaxCrashes, losses: 0..MaxLosses]
      /\ failed \subseteq Step
  BY DEF TypeOK, FileType, Cells
<1> SUFFICES
        /\ mem' \in [doc: Doc, records: Seq(Record), base: Nat]
        /\ file' \in FileType
        /\ boot' \in Nat /\ pc' \in Places /\ op' \in Request
        /\ acked' \in Doc /\ saved' \in SUBSET Doc
        /\ count' \in [writes: 0..MaxWrites, crashes: 0..MaxCrashes, losses: 0..MaxLosses]
        /\ failed' \subseteq Step
  BY DEF TypeOK, FileType, Cells
<1>3. /\ {"rewrite", "append", "compact", "truncate", "backup", "install", "idle", "batch", "down"}
            \subseteq Places
      /\ Step \subseteq Places
      /\ {"open", "write", "batch", "snapshot", "other"} \subseteq Request
  BY DEF Step, Request
<1>4. <<>> \in Doc /\ <<>> \in Seq(Record) /\ Nothing \in [doc: Doc, records: Seq(Record), base: Nat]
  BY DEF Doc, Nothing
<1>5. file.log \in Cells(Record) /\ file.state \in Image(Doc) /\ file.backup \in Image(Doc)
  BY <1>1 DEF FileType
<1> HIDE DEF Places
<1>6. CASE Open
  <2> DEFINE read == ReadRecords(file.log)
             kept == Committed(read, Len(Loaded))
  <2>1. Loaded \in Doc /\ Len(Loaded) \in Nat
    BY LoadedIsDoc DEF Doc
  <2>2. read \in Seq(Record)
    BY <1>5, ReadRecordsType
  <2>3. kept \in Seq(Record)
    BY <2>1, <2>2, CommittedSelects
  <2> HIDE DEF read, kept
  <2>4. /\ mem' = [doc |-> Loaded, records |-> kept, base |-> Len(Loaded)]
        /\ boot' = boot + 1 /\ op' = "open" /\ pc' \in {"rewrite", "backup"}
        /\ UNCHANGED <<file, acked, saved, count, failed>>
    BY <1>6 DEF Open, read, kept
  <2>5. QED
    BY <1>1, <1>3, <2>1, <2>3, <2>4
<1>7. CASE OpenRefused
  BY <1>1, <1>7 DEF OpenRefused, vars
<1>8. ASSUME NEW request \in {"write", "batch"}, Put(request)
      PROVE  /\ mem' \in [doc: Doc, records: Seq(Record), base: Nat]
             /\ pc' \in Places /\ op' \in Request
             /\ count' \in [writes: 0..MaxWrites, crashes: 0..MaxCrashes, losses: 0..MaxLosses]
             /\ UNCHANGED <<file, boot, acked, saved, failed>>
  <2>1. count.writes \in 0..MaxWrites /\ count.writes + 1 \in 0..MaxWrites /\ count.writes + 1 \in Int
    BY <1>1, <1>8 DEF Put
  <2>2. Append(mem.doc, count.writes + 1) \in Doc
    BY <1>1, <2>1, AppendProperties DEF Doc
  <2>3. mem' = [mem EXCEPT !.doc = Append(mem.doc, count.writes + 1)]
    BY <1>8 DEF Put
  <2>4. mem' \in [doc: Doc, records: Seq(Record), base: Nat]
    BY <1>1, <2>2, <2>3
  <2>5. count' \in [writes: 0..MaxWrites, crashes: 0..MaxCrashes, losses: 0..MaxLosses]
    BY <1>1, <1>8, <2>1 DEF Put
  <2>6. QED
    BY <1>3, <1>8, <2>4, <2>5 DEF Put
<1>9. CASE Write \/ BatchRecord
  BY <1>1, <1>8, <1>9 DEF Write, BatchRecord
<1>10. CASE BatchRefused \/ BatchSave \/ SaveOther
  BY <1>1, <1>3, <1>10 DEF BatchRefused, BatchSave, SaveOther
<1>11. CASE \E doc \in Snapshots : InstallSnapshot(doc)
  <2>1. PICK doc \in Snapshots : InstallSnapshot(doc)
    BY <1>11
  <2>2. doc \in Doc /\ Len(doc) \in Nat
    BY DEF Doc
  <2>3. QED
    BY <1>1, <1>3, <1>4, <2>1, <2>2 DEF InstallSnapshot
<1>12. CASE AppendRecord
  <2>1. Entry \in Record /\ Intact(Entry) \in [intact: BOOLEAN, rec: Record]
    BY <1>12, EntryIsRecord DEF AppendRecord, Intact
  <2>2. Append(file.log, Intact(Entry)) \in Cells(Record)
    BY <1>5, <2>1, AppendProperties DEF Cells
  <2>3. Append(mem.records, Entry) \in Seq(Record)
    BY <1>1, <2>1, AppendProperties
  <2>4. pc' \in Places
    BY <1>3, <1>12 DEF AppendRecord, AfterAppend
  <2>5. file' \in FileType
    BY <1>1, <1>12, <2>2 DEF AppendRecord, FileType
  <2>6. mem' \in [doc: Doc, records: Seq(Record), base: Nat]
    BY <1>1, <1>12, <2>3 DEF AppendRecord
  <2>7. QED
    BY <1>1, <1>12, <2>4, <2>5, <2>6 DEF AppendRecord
<1>13. CASE Compact
  <2> DEFINE kept == Newest(mem.records, Keep(MaxLog))
  <2>1. Keep(MaxLog) \in Nat
    BY KeepBounds
  <2>2. kept \in Seq(Record)
    BY <1>1, <2>1, NewestIsSuffix
  <2> HIDE DEF kept
  <2>3. LogOf(kept) \in Cells(Record)
    BY <2>2, LogOfIsReadable
  <2>4. /\ file' = [file EXCEPT !.log = LogOf(kept)] /\ mem' = [mem EXCEPT !.records = kept]
        /\ pc' = AfterAppend
        /\ UNCHANGED <<boot, op, acked, saved, count, failed>>
    BY <1>13 DEF Compact, kept
  <2>5. file' \in FileType
    BY <1>1, <2>3, <2>4 DEF FileType
  <2>6. QED
    BY <1>1, <1>3, <2>2, <2>4, <2>5 DEF AfterAppend
<1>14. CASE Rewrite
  <2>1. LogOf(mem.records) \in Cells(Record)
    BY <1>1, LogOfIsReadable
  <2>2. file' \in FileType
    BY <1>1, <1>14, <2>1 DEF Rewrite, FileType
  <2>3. QED
    BY <1>1, <1>3, <1>14, <2>2 DEF Rewrite
<1>15. CASE Backup
  <2>1. file' \in FileType
    BY <1>1, <1>5, <1>15 DEF Backup, BackedUp, FileType
  <2>2. QED
    BY <1>1, <1>3, <1>15, <2>1 DEF Backup
<1>16. CASE Install
  <2>1. mem.doc \in Doc
    BY <1>1
  <2>2. ImageOf(mem.doc) \in Image(Doc)
    BY <2>1 DEF ImageOf, Image
  <2>3. file' \in FileType
    BY <1>1, <1>16, <2>2 DEF Install, Installed, FileType
  <2>4. QED
    BY <1>1, <1>3, <1>16, <2>1, <2>3 DEF Install
<1>17. CASE IoError
  <2>1. file' \in FileType
    BY <1>17, InterruptedFiles DEF IoError
  <2>2. QED
    BY <1>1, <1>3, <1>4, <1>17, <2>1 DEF IoError
<1>18. CASE Crash
  <2>1. file' \in FileType
    BY <1>18, InterruptedFiles DEF Crash
  <2>2. count' \in [writes: 0..MaxWrites, crashes: 0..MaxCrashes, losses: 0..MaxLosses]
    BY <1>1, <1>18 DEF Crash
  <2>3. QED
    BY <1>1, <1>3, <1>4, <1>18, <2>1, <2>2 DEF Crash
<1>19. CASE Lose
  <2>1. file.state \in [status: {"intact", "torn"}, body: Doc]
    BY <1>5, <1>19 DEF Lose, Image, NoImage
  <2>2. Damaged(file.state) \in Image(Doc)
    BY <2>1 DEF Damaged, Image
  <2>3. file' \in FileType
    BY <1>1, <1>19, <2>2 DEF Lose, FileType
  <2>4. count' \in [writes: 0..MaxWrites, crashes: 0..MaxCrashes, losses: 0..MaxLosses]
    BY <1>1, <1>19 DEF Lose
  <2>5. QED
    BY <1>1, <1>4, <1>19, <2>3, <2>4 DEF Lose
<1>20. CASE UNCHANGED vars
  BY <1>1, <1>20 DEF vars
<1>21. QED
  BY <1>6, <1>7, <1>9, <1>10, <1>11, <1>12, <1>13, <1>14, <1>15, <1>16, <1>17, <1>18,
     <1>19, <1>20 DEF Next

----------------------------------------------------------------------------
(* The refinement of DurableDocument *)

\* Every step keeps what Running says of the place the process is at.
LEMMA RunningKept ==
    ASSUME TypeOK, Running, [Next]_vars
    PROVE  Running'
<1>1. boot \in Nat /\ mem.doc \in Seq(Int)
  BY DEF TypeOK, Doc
<1>2. CASE Open
  BY <1>1, <1>2 DEF Running, Open
<1>3. CASE Write \/ BatchRecord
  <2>1. count.writes + 1 \in Int /\ mem.doc \in Seq(Int)
    BY DEF TypeOK, Doc
  <2>2. Append(mem.doc, count.writes + 1) # <<>>
    BY <2>1, AppendProperties
  <2>3. /\ mem' = [mem EXCEPT !.doc = Append(mem.doc, count.writes + 1)]
        /\ pc' = "append" /\ op' \in {"write", "batch"} /\ boot' = boot /\ pc # "down"
    BY <1>3 DEF Write, BatchRecord, Put
  <2>4. mem'.doc = Append(mem.doc, count.writes + 1)
    BY <2>3 DEF TypeOK
  <2>5. QED
    BY <2>2, <2>3, <2>4 DEF Running
<1>4. CASE BatchRefused \/ BatchSave \/ SaveOther \/ OpenRefused
  BY <1>4 DEF Running, BatchRefused, BatchSave, SaveOther, OpenRefused, vars
<1>5. CASE \E doc \in Snapshots : InstallSnapshot(doc)
  BY <1>5 DEF Running, InstallSnapshot
<1>6. CASE AppendRecord \/ Compact \/ Rewrite \/ Backup \/ Install
  BY <1>6 DEF Running, AppendRecord, Compact, Rewrite, Backup, Install, AfterAppend
<1>7. CASE IoError
  BY <1>7 DEF Running, IoError, Step
<1>8. CASE Crash \/ Lose \/ UNCHANGED vars
  BY <1>8 DEF Running, Crash, Lose, vars
<1>9. QED
  BY <1>2, <1>3, <1>4, <1>5, <1>6, <1>7, <1>8 DEF Next

\* What a restart would load.
CommittedDoc == IF Loadable THEN Loaded ELSE <<>>

\* The steps that write no image, or do not complete.
Quiet ==
    \/ Open \/ OpenRefused \/ Write \/ BatchRecord \/ BatchRefused \/ BatchSave \/ SaveOther
    \/ \E doc \in Snapshots : InstallSnapshot(doc)
    \/ AppendRecord \/ Compact \/ Rewrite \/ Backup
    \/ IoError \/ Crash

\* Only the installation of an image and a loss change what a restart would load.
LEMMA CommittedDocStays ==
    ASSUME TypeOK, Running, Quiet
    PROVE  CommittedDoc' = CommittedDoc
<1> SUFFICES /\ file'.state = file.state
             /\ \/ file'.backup = file.backup
                \/ file.state.status = "intact"
  BY DEF CommittedDoc, Loadable, Loaded, Recoverable, Recovered
<1>1. CASE Open \/ OpenRefused \/ Write \/ BatchRecord \/ BatchRefused \/ BatchSave \/ SaveOther
  BY <1>1 DEF Open, OpenRefused, Write, BatchRecord, Put, BatchRefused, BatchSave, SaveOther, vars
<1>2. CASE \E doc \in Snapshots : InstallSnapshot(doc)
  BY <1>2 DEF InstallSnapshot
<1>3. CASE AppendRecord \/ Compact \/ Rewrite
  BY <1>3 DEF AppendRecord, Compact, Rewrite, TypeOK
<1>4. CASE Backup
  BY <1>4 DEF Backup, BackedUp, TypeOK
<1>5. CASE IoError \/ Crash
  BY <1>5, InterruptedFiles DEF IoError, Crash
<1>6. QED
  BY <1>1, <1>2, <1>3, <1>4, <1>5 DEF Quiet

\* Every intact image stays one that was saved.
LEMMA ImagesKept ==
    ASSUME TypeOK, Running, Images, [Next]_vars
    PROVE  Images'
<1>1. CASE Open \/ OpenRefused \/ Write \/ BatchRecord \/ BatchRefused \/ BatchSave \/ SaveOther
  BY <1>1 DEF Images, TypeOK,
       Open, OpenRefused, Write, BatchRecord, Put, BatchRefused, BatchSave, SaveOther, vars
<1>2. CASE \E doc \in Snapshots : InstallSnapshot(doc)
  BY <1>2 DEF Images, InstallSnapshot
<1>3. CASE AppendRecord \/ Compact \/ Rewrite
  BY <1>3 DEF Images, AppendRecord, Compact, Rewrite, TypeOK
<1>4. CASE Backup
  BY <1>4 DEF Images, Backup, BackedUp, TypeOK
<1>5. CASE Install
  <2>1. file'.state = ImageOf(mem.doc) /\ file'.backup = file.backup
    BY <1>5 DEF Install, Installed, TypeOK
  <2>2. QED
    BY <1>5, <2>1 DEF Images, Install, ImageOf
<1>6. CASE IoError \/ Crash
  <2>1. /\ file'.state = file.state
        /\ \/ file'.backup = file.backup \/ file'.backup.status = "torn"
           \/ file'.backup = file.state /\ file.state.status = "intact"
    BY <1>6, InterruptedFiles DEF IoError, Crash
  <2>2. saved' = saved /\ count'.losses = count.losses
    BY <1>6 DEF IoError, Crash, TypeOK
  <2>3. QED
    BY <2>1, <2>2 DEF Images
<1>7. CASE Lose
  <2>1. /\ file'.state = Damaged(file.state) /\ file'.backup = file.backup
        /\ saved' = saved /\ count'.losses = count.losses + 1 /\ count.losses \in Nat
    BY <1>7 DEF Lose, TypeOK
  <2>2. file.state \in [status: {"intact", "torn"}, body: Doc]
    BY <1>7 DEF Lose, TypeOK, Image, NoImage
  <2>3. file'.state.status = "torn"
    BY <2>1, <2>2 DEF Damaged
  <2>4. QED
    BY <2>1, <2>3 DEF Images
<1>8. CASE UNCHANGED vars
  BY <1>8 DEF Images, vars
<1>9. QED
  BY <1>1, <1>2, <1>3, <1>4, <1>5, <1>6, <1>7, <1>8 DEF Next

\* Every step of the directory is a step of the durable document, or none.
LEMMA StepRefines ==
    ASSUME TypeOK, Running, Images, [Next]_vars
    PROVE  [Durable!Next]_(Durable!vars)
<1> DEFINE com == IF Loadable THEN Loaded ELSE <<>>
<1>1. Quiet => com' = com
  BY CommittedDocStays DEF CommittedDoc
<1>2. mem.doc \in Seq(Int)
  BY DEF TypeOK, Doc
<1> HIDE DEF com
<1>3. ASSUME com' = com, UNCHANGED <<mem.doc, acked, saved, pc # "down", count.losses>>
      PROVE  UNCHANGED Durable!vars
  BY <1>3 DEF Durable!vars, com
<1>4. CASE Open
  <2>1. Durable!Recover
    BY <1>1, <1>4 DEF Open, Durable!Recover, com, Quiet
  <2>2. QED
    BY <2>1 DEF Durable!Next
<1>5. CASE Write \/ BatchRecord
  <2>1. count.writes + 1 \in Int
    BY DEF TypeOK
  <2>2. /\ mem' = [mem EXCEPT !.doc = Append(mem.doc, count.writes + 1)]
        /\ pc # "down" /\ pc' # "down"
        /\ acked' = acked /\ saved' = saved /\ count'.losses = count.losses
    BY <1>5 DEF Write, BatchRecord, Put, TypeOK
  <2>3. mem'.doc = Append(mem.doc, count.writes + 1)
    BY <2>2 DEF TypeOK
  <2>4. Durable!Extends(mem'.doc, mem.doc)
    BY <1>2, <2>1, <2>3, AppendExtends
  <2>5. Durable!Change
    BY <1>1, <1>5, <2>2, <2>4 DEF Durable!Change, com, Quiet
  <2>6. QED
    BY <2>5 DEF Durable!Next
<1>6. CASE \E doc \in Snapshots : InstallSnapshot(doc)
  <2>1. Durable!Change
    BY <1>1, <1>6 DEF InstallSnapshot, Durable!Change, com, Quiet
  <2>2. QED
    BY <2>1 DEF Durable!Next
<1>7. CASE BatchRefused \/ BatchSave \/ SaveOther \/ OpenRefused \/ UNCHANGED vars
  <2>1. UNCHANGED <<mem.doc, acked, saved, pc # "down", count.losses>> /\ com' = com
    BY <1>7 DEF BatchRefused, BatchSave, SaveOther, OpenRefused, vars,
                com, Loadable, Loaded, Recoverable, Recovered
  <2>2. QED
    BY <1>3, <2>1
<1>8. CASE AppendRecord \/ Compact \/ Rewrite \/ Backup
  <2>1. UNCHANGED <<mem.doc, acked, saved, count.losses>>
    BY <1>8 DEF AppendRecord, Compact, Rewrite, Backup, TypeOK
  <2>2. pc # "down" /\ pc' # "down"
    BY <1>8 DEF AppendRecord, Compact, Rewrite, Backup, AfterAppend
  <2>3. QED
    BY <1>1, <1>3, <1>8, <2>1, <2>2 DEF Quiet
<1>9. CASE Install
  <2>1. file'.state = ImageOf(mem.doc)
    BY <1>9 DEF Install, Installed, TypeOK
  <2>2. com' = mem.doc
    BY <2>1 DEF com, Loadable, Loaded, Recoverable, Recovered, ImageOf
  <2>3. Durable!Commit
    BY <1>9, <2>2 DEF Install, Durable!Commit, com
  <2>4. QED
    BY <2>3 DEF Durable!Next
<1>10. CASE IoError
  <2>1. com' = com /\ pc # "down" /\ UNCHANGED <<acked, saved, count>>
    BY <1>1, <1>10 DEF IoError, Step, Quiet
  <2>2. CASE op = "open"
    <3>1. Durable!Stop
      BY <1>10, <2>1, <2>2 DEF IoError, Nothing, Durable!Stop, com
    <3>2. QED
      BY <3>1 DEF Durable!Next
  <2>3. CASE op # "open"
    <3>1. mem' = mem /\ pc' # "down"
      BY <1>10, <2>3 DEF IoError
    <3>2. QED
      BY <1>3, <2>1, <3>1
  <2>4. QED
    BY <2>2, <2>3
<1>11. CASE Crash
  <2>1. Durable!Stop
    BY <1>1, <1>11 DEF Crash, Nothing, Durable!Stop, com, Quiet, TypeOK
  <2>2. QED
    BY <2>1 DEF Durable!Next
<1>12. CASE Lose
  <2>1. /\ file'.state = Damaged(file.state) /\ file'.backup = file.backup
        /\ count'.losses = count.losses + 1
    BY <1>12 DEF Lose, TypeOK
  <2>2. file.state \in [status: {"intact", "torn"}, body: Doc]
    BY <1>12 DEF Lose, TypeOK, Image, NoImage
  <2>3. file'.state.status = "torn"
    BY <2>1, <2>2 DEF Damaged
  <2>4. com' \in saved
    BY <2>1, <2>3 DEF com, Loadable, Loaded, Recoverable, Recovered, Images
  <2>5. Durable!Lose
    BY <1>12, <2>1, <2>4 DEF Lose, Durable!Lose, com
  <2>6. QED
    BY <2>5 DEF Durable!Next
<1>13. QED
  BY <1>4, <1>5, <1>6, <1>7, <1>8, <1>9, <1>10, <1>11, <1>12 DEF Next

\* What is acknowledged stays in what is committed and in what is served, whichever step of
\* DurableDocument is taken.
LEMMA AckedDurableKept ==
    ASSUME TypeOK, TypeOK', Durable!AckedDurable, [Durable!Next]_(Durable!vars)
    PROVE  Durable!AckedDurable'
<1> DEFINE com == IF Loadable THEN Loaded ELSE <<>>
           up == pc # "down"
<1>1. /\ com \in Seq(Int) /\ mem.doc \in Seq(Int) /\ acked \in Seq(Int) /\ <<>> \in Seq(Int)
      /\ saved \subseteq Seq(Int)
  BY LoadedIsDoc DEF TypeOK, Doc
<1>2. mem'.doc \in Seq(Int)
  BY DEF TypeOK, Doc
<1>3. Durable!Extends(com, acked) /\ (up => Durable!Extends(mem.doc, acked))
  BY DEF Durable!AckedDurable
<1> SUFFICES Durable!Extends(com', acked') /\ (up' => Durable!Extends(mem'.doc, acked'))
  BY DEF Durable!AckedDurable
<1>4. CASE Durable!Change
  <2>1. up /\ com' = com
    BY <1>4 DEF Durable!Change
  <2> HIDE DEF com
  <2>2. CASE Durable!Extends(mem'.doc, mem.doc) /\ acked' = acked
    BY <1>1, <1>2, <1>3, <2>1, <2>2, ExtendsIsOrder
  <2>3. CASE acked' = <<>>
    BY <1>1, <1>2, <2>1, <2>3, ExtendsIsOrder
  <2>4. QED
    BY <1>4, <2>2, <2>3 DEF Durable!Change
<1>5. CASE Durable!Commit
  <2>1. up /\ com' = mem.doc /\ mem'.doc = mem.doc /\ acked' \in {acked, mem.doc}
    BY <1>5 DEF Durable!Commit
  <2> HIDE DEF com
  <2>2. QED
    BY <1>1, <1>3, <2>1, ExtendsIsOrder
<1>6. CASE Durable!Stop
  BY <1>3, <1>6 DEF Durable!Stop
<1>7. CASE Durable!Recover
  BY <1>3, <1>7 DEF Durable!Recover
<1>8. CASE Durable!Lose
  <2>1. com' \in saved /\ acked' = <<>>
    BY <1>8 DEF Durable!Lose
  <2> HIDE DEF com
  <2>2. QED
    BY <1>1, <1>2, <2>1, ExtendsIsOrder
<1>9. CASE UNCHANGED Durable!vars
  BY <1>3, <1>9 DEF Durable!vars
<1>10. QED
  BY <1>4, <1>5, <1>6, <1>7, <1>8, <1>9 DEF Durable!Next

\* The invariant the refinement needs.
Stored == TypeOK /\ Running /\ Images

\* Stored holds from the start and is kept.
LEMMA StoredHolds == Spec => []Stored
<1>1. Init => Stored
  <2> SUFFICES ASSUME Init PROVE Stored
    OBVIOUS
  <2>1. <<>> \in Doc /\ <<>> \in Seq(Record) /\ NoImage \in Image(Doc)
        /\ <<>> \in Seq([intact: BOOLEAN, rec: Record])
    BY DEF Doc, Image
  <2>2. TypeOK
    BY <2>1, StoreAssumption DEF Init, TypeOK, Nothing, Request, Step
  <2>3. Running /\ Images
    BY DEF Init, Running, Images, NoImage
  <2>4. QED
    BY <2>2, <2>3 DEF Stored
<1>2. Stored /\ [Next]_vars => Stored'
  BY TypeKept, RunningKept, ImagesKept DEF Stored
<1>3. QED
  BY <1>1, <1>2, PTL DEF Spec

\* The memory and the files of a component have their types in every reachable state.
THEOREM StoreTypeCorrect == Spec => []TypeOK
<1>1. Stored => TypeOK
  BY DEF Stored
<1>2. QED
  BY <1>1, StoredHolds, PTL

\* The order in which node.cpp writes backup, image and log, and answers, implements the
\* durable document, with crashes and failures between any two file operations and in them.
THEOREM StoreImplementsDurable == Spec => ImplementsDurableDocument
<1>1. Init => Durable!Init
  BY DEF Init, Durable!Init, Nothing, Loadable, Loaded, NoImage
<1>2. Stored /\ [Next]_vars => [Durable!Next]_(Durable!vars)
  BY StepRefines DEF Stored
<1>3. QED
  BY <1>1, <1>2, StoredHolds, PTL DEF Spec, Durable!Spec, ImplementsDurableDocument

\* An acknowledged write is in the document a restart loads and in the one served, until a
\* snapshot replaces the document or the medium loses it.
THEOREM AckedWritesSurvive == Spec => []AckedSurvives
<1>1. Init => AckedSurvives
  <2> SUFFICES ASSUME Init PROVE AckedSurvives
    OBVIOUS
  <2>1. Loaded = <<>> /\ acked = <<>> /\ pc = "down" /\ <<>> \in Seq(Int)
    BY DEF Init, Loaded, NoImage
  <2>2. Durable!Extends(<<>>, <<>>)
    BY <2>1, ExtendsIsOrder
  <2>3. QED
    BY <2>1, <2>2 DEF AckedSurvives, Durable!AckedDurable
<1>2. Stored /\ Stored' /\ AckedSurvives /\ [Next]_vars => AckedSurvives'
  <2> SUFFICES ASSUME Stored, Stored', AckedSurvives, [Next]_vars PROVE AckedSurvives'
    OBVIOUS
  <2>1. [Durable!Next]_(Durable!vars)
    BY StepRefines DEF Stored
  <2>2. QED
    BY <2>1, AckedDurableKept DEF Stored, AckedSurvives
<1>3. QED
  BY <1>1, <1>2, StoredHolds, PTL DEF Spec

----------------------------------------------------------------------------
(* The record log *)

\* The log file in sets: every cell holds a record, and the readable ones are among them.
LEMMA LogsAreRecords ==
    ASSUME TypeOK
    PROVE  /\ MemLog \subseteq Record /\ FileLog \subseteq Record
           /\ ReadLog \subseteq FileLog
<1>1. file.log \in Cells(Record) /\ mem.records \in Seq(Record)
  BY DEF TypeOK, Cells
<1>2. /\ DOMAIN file.log = 1..Len(file.log) /\ Len(file.log) \in Nat
      /\ \A i \in DOMAIN file.log : file.log[i] \in [intact: BOOLEAN, rec: Record]
  BY <1>1, ElementOfSeq, LenProperties DEF Cells
<1>3. Readable(file.log) \in 0..Len(file.log)
  BY <1>1, ReadableStops
<1>4. 1..Readable(file.log) \subseteq DOMAIN file.log
  BY <1>2, <1>3
<1>5. QED
  BY <1>1, <1>2, <1>4, ElementOfSeq DEF MemLog, FileLog, ReadLog

\* Appending a cell adds its record to the log, and to what can be read only if it is intact.
LEMMA CellAppended ==
    ASSUME TypeOK, NEW c \in [intact: BOOLEAN, rec: Record], file'.log = Append(file.log, c)
    PROVE  /\ FileLog' \subseteq FileLog \cup {c.rec}
           /\ ReadLog' \subseteq ReadLog \cup (IF c.intact THEN {c.rec} ELSE {})
<1>1. file.log \in Cells(Record)
  BY DEF TypeOK, Cells
<1>2. /\ DOMAIN file'.log = 1..(Len(file.log) + 1)
      /\ DOMAIN file.log = 1..Len(file.log) /\ Len(file.log) \in Nat
      /\ \A i \in 1..Len(file.log) : file'.log[i] = file.log[i]
      /\ file'.log[Len(file.log) + 1] = c
  BY <1>1, AppendProperties, LenProperties DEF Cells
<1>3. /\ Readable(file'.log) =
            IF Readable(file.log) = Len(file.log) /\ c.intact THEN Len(file.log) + 1
            ELSE Readable(file.log)
      /\ Readable(file.log) \in 0..Len(file.log)
  BY <1>1, ReadableOfAppend, ReadableStops
<1>4. FileLog' \subseteq FileLog \cup {c.rec}
  <2> SUFFICES ASSUME NEW i \in DOMAIN file'.log
               PROVE  file'.log[i].rec \in FileLog \cup {c.rec}
    BY DEF FileLog
  <2>1. CASE i \in 1..Len(file.log)
    BY <1>2, <2>1 DEF FileLog
  <2>2. CASE i = Len(file.log) + 1
    BY <1>2, <2>2
  <2>3. QED
    BY <1>2, <2>1, <2>2
<1>5. ReadLog' \subseteq ReadLog \cup (IF c.intact THEN {c.rec} ELSE {})
  <2> SUFFICES ASSUME NEW i \in 1..Readable(file'.log)
               PROVE  file'.log[i].rec \in ReadLog \cup (IF c.intact THEN {c.rec} ELSE {})
    BY DEF ReadLog
  <2>1. CASE Readable(file.log) = Len(file.log) /\ c.intact
    <3>1. CASE i \in 1..Len(file.log)
      BY <1>2, <2>1, <3>1 DEF ReadLog
    <3>2. CASE i = Len(file.log) + 1
      BY <1>2, <2>1, <3>2
    <3>3. QED
      BY <1>2, <1>3, <2>1, <3>1, <3>2
  <2>2. CASE ~(Readable(file.log) = Len(file.log) /\ c.intact)
    <3>1. i \in 1..Readable(file.log) /\ i \in 1..Len(file.log)
      BY <1>2, <1>3, <2>2
    <3>2. file'.log[i] = file.log[i]
      BY <1>2, <3>1
    <3>3. QED
      BY <3>1, <3>2 DEF ReadLog
  <2>3. QED
    BY <2>1, <2>2
<1>6. QED
  BY <1>4, <1>5

\* A log rewritten from records holds those, and all of it can be read.
LEMMA LogRewritten ==
    ASSUME NEW records \in Seq(Record), file'.log = LogOf(records)
    PROVE  LET all == {records[i] : i \in DOMAIN records}
           IN  FileLog' = all /\ ReadLog' = all
<1>1. /\ Len(records) \in Nat /\ DOMAIN records = 1..Len(records)
      /\ LogOf(records) \in Cells(Record) /\ Len(LogOf(records)) = Len(records)
      /\ Readable(LogOf(records)) = Len(records)
      /\ \A i \in 1..Len(records) : LogOf(records)[i].rec = records[i]
  BY LogOfIsReadable, LenProperties
<1>2. DOMAIN LogOf(records) = 1..Len(records)
  BY DEF LogOf
<1>3. QED
  BY <1>1, <1>2 DEF FileLog, ReadLog

\* What open keeps of the log: readable records within the loaded document, and all of the
\* readable ones unless the file is rewritten.
LEMMA OpenedLog ==
    ASSUME TypeOK, Open
    PROVE  /\ MemLog' \subseteq {r \in ReadLog : r.lsn <= Len(Loaded)}
           /\ pc' \in {"rewrite", "backup"}
           /\ pc' = "backup" => \A r \in ReadLog : r.lsn <= Len(Loaded)
<1> DEFINE read == ReadRecords(file.log)
           kept == Committed(read, Len(Loaded))
<1>1. file.log \in Cells(Record) /\ Len(Loaded) \in Nat
  BY LoadedIsDoc DEF TypeOK, Cells, Doc
<1>2. /\ read \in Seq(Record) /\ Len(read) = Readable(file.log)
      /\ \A i \in 1..Readable(file.log) : read[i] = file.log[i].rec
  BY <1>1, ReadRecordsType
<1>3. DOMAIN read = 1..Readable(file.log)
  BY DEF ReadRecords
<1> HIDE DEF read
<1>4. /\ kept \in Seq(Record)
      /\ \A i \in DOMAIN kept : \E j \in DOMAIN read : kept[i] = read[j] /\ read[j].lsn <= Len(Loaded)
      /\ Len(kept) <= Len(read)
      /\ Len(kept) = Len(read) => \A j \in DOMAIN read : read[j].lsn <= Len(Loaded)
  BY <1>1, <1>2, CommittedSelects
<1> HIDE DEF kept
<1>5. /\ mem'.records = kept
      /\ pc' = IF Len(kept) < Len(read) THEN "rewrite" ELSE "backup"
  BY DEF Open, kept, read
<1>6. Len(kept) \in Nat /\ Len(read) \in Nat
  BY <1>2, <1>4
<1>7. pc' = "backup" => Len(kept) = Len(read)
  BY <1>4, <1>5, <1>6
<1>8. QED
  BY <1>2, <1>3, <1>4, <1>5, <1>7 DEF MemLog, ReadLog

\* How the steps change the two logs.
LEMMA LogSteps ==
    ASSUME TypeOK, Running
    PROVE  /\ AppendRecord =>
                /\ MemLog' = MemLog \cup {Entry}
                /\ FileLog' \subseteq FileLog \cup {Entry} /\ ReadLog' \subseteq ReadLog \cup {Entry}
           /\ Compact => MemLog' \subseteq MemLog /\ FileLog' = MemLog' /\ ReadLog' = MemLog'
           /\ Rewrite => MemLog' = MemLog /\ FileLog' = MemLog /\ ReadLog' = MemLog
           /\ IoError \/ Crash =>
                /\ MemLog' \subseteq MemLog
                /\ FileLog' \subseteq FileLog \cup (IF pc = "append" THEN {Entry} ELSE {})
                /\ ReadLog' \subseteq ReadLog \cup (IF pc = "append" THEN {Entry} ELSE {})
<1>1. mem.records \in Seq(Record) /\ file.log \in Cells(Record)
  BY DEF TypeOK, Cells
<1>2. ASSUME AppendRecord
      PROVE  /\ MemLog' = MemLog \cup {Entry}
             /\ FileLog' \subseteq FileLog \cup {Entry} /\ ReadLog' \subseteq ReadLog \cup {Entry}
  <2>1. Entry \in Record
    BY <1>2, EntryIsRecord DEF AppendRecord
  <2>2. /\ Intact(Entry) \in [intact: BOOLEAN, rec: Record]
        /\ Intact(Entry).rec = Entry
    BY <2>1 DEF Intact
  <2>3. file'.log = Append(file.log, Intact(Entry)) /\ mem'.records = Append(mem.records, Entry)
    BY <1>2 DEF AppendRecord, TypeOK
  <2>4. FileLog' \subseteq FileLog \cup {Entry} /\ ReadLog' \subseteq ReadLog \cup {Entry}
    BY <2>2, <2>3, CellAppended
  <2>5. /\ DOMAIN mem'.records = 1..(Len(mem.records) + 1)
        /\ DOMAIN mem.records = 1..Len(mem.records) /\ Len(mem.records) \in Nat
        /\ \A i \in 1..Len(mem.records) : mem'.records[i] = mem.records[i]
        /\ mem'.records[Len(mem.records) + 1] = Entry
    BY <1>1, <2>1, <2>3, AppendProperties, LenProperties
  <2>6. MemLog' = MemLog \cup {Entry}
    <3>1. ASSUME NEW i \in DOMAIN mem'.records
          PROVE  mem'.records[i] \in MemLog \cup {Entry}
      <4>1. CASE i \in 1..Len(mem.records)
        BY <2>5, <4>1 DEF MemLog
      <4>2. CASE i = Len(mem.records) + 1
        BY <2>5, <4>2
      <4>3. QED
        BY <2>5, <4>1, <4>2
    <3>2. ASSUME NEW i \in DOMAIN mem.records
          PROVE  mem.records[i] \in MemLog'
      BY <2>5 DEF MemLog
    <3>3. Entry \in MemLog'
      BY <2>5 DEF MemLog
    <3>4. QED
      BY <3>1, <3>2, <3>3 DEF MemLog
  <2>7. QED
    BY <2>4, <2>6
<1>3. ASSUME Compact
      PROVE  MemLog' \subseteq MemLog /\ FileLog' = MemLog' /\ ReadLog' = MemLog'
  <2> DEFINE kept == Newest(mem.records, Keep(MaxLog))
  <2>1. Keep(MaxLog) \in Nat
    BY KeepBounds, StoreAssumption
  <2>2. /\ kept \in Seq(Record)
        /\ Len(kept) = IF Len(mem.records) <= Keep(MaxLog) THEN Len(mem.records) ELSE Keep(MaxLog)
        /\ \A i \in 1..Len(kept) : kept[i] = mem.records[Len(mem.records) - Len(kept) + i]
    BY <1>1, <2>1, NewestIsSuffix
  <2> HIDE DEF kept
  <2>3. file'.log = LogOf(kept) /\ mem'.records = kept
    BY <1>3 DEF Compact, TypeOK, kept
  <2>4. /\ Len(mem.records) \in Nat /\ Len(kept) \in Nat /\ Len(kept) <= Len(mem.records)
        /\ DOMAIN kept = 1..Len(kept) /\ DOMAIN mem.records = 1..Len(mem.records)
    BY <1>1, <2>1, <2>2, LenProperties
  <2>5. ASSUME NEW i \in DOMAIN kept
        PROVE  kept[i] \in MemLog
    <3>1. Len(mem.records) - Len(kept) + i \in DOMAIN mem.records
      BY <2>4
    <3>2. QED
      BY <2>2, <2>4, <3>1 DEF MemLog
  <2>6. MemLog' = {kept[i] : i \in DOMAIN kept}
    BY <2>3 DEF MemLog
  <2>7. FileLog' = MemLog' /\ ReadLog' = MemLog'
    BY <2>2, <2>3, <2>6, LogRewritten
  <2>8. QED
    BY <2>5, <2>6, <2>7
<1>4. ASSUME Rewrite
      PROVE  MemLog' = MemLog /\ FileLog' = MemLog /\ ReadLog' = MemLog
  <2>1. file'.log = LogOf(mem.records) /\ mem' = mem
    BY <1>4 DEF Rewrite, TypeOK
  <2>2. QED
    BY <1>1, <2>1, LogRewritten DEF MemLog
<1>5. ASSUME IoError \/ Crash
      PROVE  /\ MemLog' \subseteq MemLog
             /\ FileLog' \subseteq FileLog \cup (IF pc = "append" THEN {Entry} ELSE {})
             /\ ReadLog' \subseteq ReadLog \cup (IF pc = "append" THEN {Entry} ELSE {})
  <2>1. mem' = mem \/ mem' = Nothing
    BY <1>5 DEF IoError, Crash
  <2>2. MemLog' \subseteq MemLog
    BY <2>1 DEF MemLog, Nothing
  <2>3. \/ file'.log = file.log
        \/ /\ pc = "append"
           /\ \E cell \in {Torn(Entry), Intact(Entry)} : file'.log = Append(file.log, cell)
    BY <1>5, InterruptedFiles DEF IoError, Crash
  <2>4. CASE file'.log = file.log
    BY <2>2, <2>4 DEF FileLog, ReadLog
  <2>5. ASSUME pc = "append", NEW cell \in {Torn(Entry), Intact(Entry)},
               file'.log = Append(file.log, cell)
        PROVE  FileLog' \subseteq FileLog \cup {Entry} /\ ReadLog' \subseteq ReadLog \cup {Entry}
    <3>1. cell \in [intact: BOOLEAN, rec: Record] /\ cell.rec = Entry
      <4>1. Entry \in Record
        BY <2>5, EntryIsRecord
      <4>2. /\ Torn(Entry) \in [intact: BOOLEAN, rec: Record] /\ Torn(Entry).rec = Entry
            /\ Intact(Entry) \in [intact: BOOLEAN, rec: Record] /\ Intact(Entry).rec = Entry
        BY <4>1 DEF Torn, Intact
      <4>3. QED
        BY <4>2
    <3>2. QED
      BY <2>5, <3>1, CellAppended
  <2>6. QED
    BY <2>2, <2>3, <2>4, <2>5
<1>6. QED
  BY <1>2, <1>3, <1>4, <1>5

\* The steps that leave both logs, the document and the state file alone.
LEMMA LogsUntouched ==
    ASSUME \/ OpenRefused \/ BatchRefused \/ BatchSave \/ SaveOther \/ UNCHANGED vars
    PROVE  /\ MemLog' = MemLog /\ FileLog' = FileLog /\ ReadLog' = ReadLog /\ Loaded' = Loaded
           /\ UNCHANGED <<mem, file, boot, count, failed>>
<1>1. UNCHANGED <<mem, file, boot, count, failed>>
  BY DEF OpenRefused, BatchRefused, BatchSave, SaveOther, vars
<1>2. QED
  BY <1>1 DEF MemLog, FileLog, ReadLog, Loaded, Recovered

\* No step makes a record of a boot still to come.
LEMMA BootsKept ==
    ASSUME TypeOK, Running, Boots, [Next]_vars
    PROVE  Boots'
<1>1. /\ boot \in Nat /\ MemLog \subseteq Record /\ FileLog \subseteq Record
      /\ ReadLog \subseteq FileLog
      /\ \A r \in Record : r.boot \in Nat
  BY LogsAreRecords DEF TypeOK, Record
<1>2. CASE Open
  <2>1. MemLog' \subseteq ReadLog
    BY <1>2, OpenedLog
  <2>2. boot' = boot + 1 /\ FileLog' = FileLog
    BY <1>2 DEF Open, FileLog
  <2>3. QED
    BY <1>1, <2>1, <2>2 DEF Boots
<1>3. CASE OpenRefused \/ BatchRefused \/ BatchSave \/ SaveOther \/ UNCHANGED vars
  BY <1>3, LogsUntouched DEF Boots
<1>4. CASE Write \/ BatchRecord
  <2>1. mem'.records = mem.records /\ file' = file /\ boot' = boot
    BY <1>4 DEF Write, BatchRecord, Put, TypeOK
  <2>2. QED
    BY <2>1 DEF Boots, MemLog, FileLog
<1>5. CASE \E doc \in Snapshots : InstallSnapshot(doc)
  <2>1. mem'.records = <<>> /\ file' = file /\ boot' = boot
    BY <1>5 DEF InstallSnapshot
  <2>2. MemLog' = {} /\ FileLog' = FileLog
    BY <2>1 DEF MemLog, FileLog
  <2>3. QED
    BY <2>1, <2>2 DEF Boots
<1>6. CASE AppendRecord
  <2>1. Entry.boot = boot /\ boot' = boot
    BY <1>6, EntryIsRecord DEF AppendRecord
  <2>2. QED
    BY <1>1, <1>6, <2>1, LogSteps DEF Boots
<1>7. CASE Compact \/ Rewrite
  <2>1. boot' = boot
    BY <1>7 DEF Compact, Rewrite
  <2>2. QED
    BY <1>7, <2>1, LogSteps DEF Boots
<1>8. CASE Backup \/ Install \/ Lose
  <2>1. mem' = mem /\ file'.log = file.log /\ boot' = boot
    BY <1>8 DEF Backup, Install, Lose, BackedUp, Installed, TypeOK
  <2>2. QED
    BY <2>1 DEF Boots, MemLog, FileLog
<1>9. CASE IoError \/ Crash
  <2>1. boot' = boot
    BY <1>9 DEF IoError, Crash
  <2>2. pc = "append" => Entry.boot = boot
    BY EntryIsRecord
  <2>3. QED
    BY <1>1, <1>9, <2>1, <2>2, LogSteps DEF Boots
<1>10. QED
  BY <1>2, <1>3, <1>4, <1>5, <1>6, <1>7, <1>8, <1>9 DEF Next

\* Every step keeps the record log in agreement with the documents.
LEMMA LogKept ==
    ASSUME TypeOK, TypeOK', Running, Images, LogInv, [Next]_vars
    PROVE  LogInv'
<1> USE DEF LogInv
<1>1. Boots'
  BY BootsKept
<1>2. /\ mem.doc \in Seq(Int) /\ mem'.doc \in Seq(Int) /\ Loaded \in Seq(Int)
      /\ Len(mem.doc) \in Nat /\ Len(mem'.doc) \in Nat /\ Len(Loaded) \in Nat
      /\ boot \in Nat
  <2>1. mem.doc \in Seq(Int) /\ mem'.doc \in Seq(Int) /\ boot \in Nat
    BY DEF TypeOK, Doc
  <2>2. Loaded \in Seq(Int)
    BY LoadedIsDoc DEF Doc
  <2>3. QED
    BY <2>1, <2>2, LenProperties
<1>3. /\ MemLog \subseteq Record /\ FileLog \subseteq Record /\ ReadLog \subseteq FileLog
      /\ \A r \in Record : r.lsn \in Nat \ {0} /\ r.boot \in Nat
  BY LogsAreRecords DEF Record
<1>4. ASSUME CrashesOnly, file'.state = file.state
      PROVE  Loaded' = Loaded
  BY <1>4 DEF CrashesOnly, Images, Loaded, Recovered, TypeOK, Image, NoImage
<1>5. ASSUME CrashesOnly, pc = "append"
      PROVE  AgreesUpTo(Entry, Loaded)
  <2>1. Entry.lsn \in Nat \ {0} /\ Entry.lsn = Len(mem.doc) /\ Entry.value = mem.doc[Len(mem.doc)]
    BY <1>5, EntryIsRecord
  <2>2. Durable!Extends(mem.doc, Loaded)
    BY <1>5 DEF LogInSync, Replacing, Running
  <2>3. \A i \in 1..Len(Loaded) : mem.doc[i] = Loaded[i]
    BY <1>2, <2>2, ExtendsPointwise
  <2>4. QED
    BY <1>2, <2>1, <2>3 DEF AgreesUpTo
<1>6. CASE Open
  <2>1. /\ MemLog' \subseteq {r \in ReadLog : r.lsn <= Len(Loaded)}
        /\ pc' \in {"rewrite", "backup"}
        /\ pc' = "backup" => \A r \in ReadLog : r.lsn <= Len(Loaded)
    BY <1>6, OpenedLog
  <2>2. /\ mem'.doc = Loaded /\ boot' = boot + 1 /\ op' = "open"
        /\ UNCHANGED <<file, count, failed>>
    BY <1>6 DEF Open
  <2>3. ReadLog' = ReadLog /\ Loaded' = Loaded /\ (CrashesOnly' <=> CrashesOnly)
    BY <2>2 DEF ReadLog, Loaded, Recovered, CrashesOnly
  <2>4. \A r \in MemLog' : r.boot # boot'
    BY <1>2, <1>3, <2>1, <2>2 DEF Boots
  <2>5. LogSound'
    BY <2>1, <2>2, <2>3, <2>4 DEF LogSound, Agrees, AgreesUpTo
  <2>6. Durable!Extends(Loaded, Loaded)
    BY <1>2, ExtendsIsOrder
  <2>7. LogInSync'
    BY <2>1, <2>2, <2>3, <2>6 DEF LogInSync, LogSound, AgreesUpTo, Replacing
  <2>8. QED
    BY <1>1, <2>5, <2>7
<1>7. CASE OpenRefused \/ BatchRefused \/ BatchSave \/ SaveOther \/ UNCHANGED vars
  <2>1. /\ MemLog' = MemLog /\ ReadLog' = ReadLog /\ Loaded' = Loaded
        /\ UNCHANGED <<mem, boot, count, failed>>
    BY <1>7, LogsUntouched
  <2>2. \/ UNCHANGED <<pc, op>>
        \/ pc \in {"batch", "idle"} /\ pc' \in {"idle", "backup"} /\ op' # "snapshot"
    BY <1>7 DEF OpenRefused, BatchRefused, BatchSave, SaveOther, vars, Running
  <2>3. QED
    BY <1>1, <2>1, <2>2 DEF LogSound, LogInSync, CrashesOnly, Replacing, Agrees, AgreesUpTo
<1>8. CASE Write \/ BatchRecord
  <2>1. /\ mem'.records = mem.records /\ file' = file /\ boot' = boot /\ failed' = failed
        /\ count'.losses = count.losses
        /\ mem'.doc = Append(mem.doc, count.writes + 1)
        /\ pc \in {"idle", "batch"} /\ pc' = "append" /\ op' \in {"write", "batch"}
    BY <1>8 DEF Write, BatchRecord, Put, TypeOK
  <2>2. /\ MemLog' = MemLog /\ ReadLog' = ReadLog /\ Loaded' = Loaded
        /\ (CrashesOnly' <=> CrashesOnly)
    BY <2>1 DEF MemLog, ReadLog, Loaded, Recovered, CrashesOnly
  <2>3. count.writes + 1 \in Int
    BY DEF TypeOK
  <2>4. /\ Len(mem'.doc) = Len(mem.doc) + 1
        /\ Durable!Extends(mem'.doc, mem.doc)
        /\ \A i \in 1..Len(mem.doc) : mem'.doc[i] = mem.doc[i]
    BY <1>2, <2>1, <2>3, AppendExtends, AppendProperties
  <2>5. \A r \in Record : Agrees(r, mem.doc) => Agrees(r, mem'.doc)
    BY <1>2, <1>3, <2>4 DEF Agrees
  <2>6. LogSound'
    BY <1>3, <2>1, <2>2, <2>5 DEF LogSound
  <2>7. CrashesOnly => \A r \in ReadLog : Agrees(r, mem.doc)
    BY <2>1 DEF LogInSync, Agrees, AgreesUpTo
  <2>8. CrashesOnly => \A r \in ReadLog : Agrees(r, mem'.doc)
    BY <1>3, <2>5, <2>7
  <2>9. CrashesOnly => Durable!Extends(mem'.doc, Loaded)
    <3>1. CrashesOnly => Durable!Extends(mem.doc, Loaded)
      BY <2>1 DEF LogInSync, Replacing
    <3>2. QED
      BY <1>2, <2>4, <3>1, ExtendsIsOrder
  <2>10. LogInSync'
    BY <2>1, <2>2, <2>8, <2>9 DEF LogInSync, Replacing, Agrees, AgreesUpTo
  <2>11. QED
    BY <1>1, <2>6, <2>10
<1>9. CASE \E doc \in Snapshots : InstallSnapshot(doc)
  <2>1. /\ mem'.records = <<>> /\ UNCHANGED <<file, boot, count, failed>>
        /\ pc' = "truncate" /\ op' = "snapshot"
    BY <1>9 DEF InstallSnapshot
  <2>2. /\ MemLog' = {} /\ ReadLog' = ReadLog /\ Loaded' = Loaded /\ (CrashesOnly' <=> CrashesOnly)
    BY <2>1 DEF MemLog, ReadLog, Loaded, Recovered, CrashesOnly
  <2>3. LogSound' /\ LogInSync'
    BY <2>1, <2>2 DEF LogSound, LogInSync, Replacing, Agrees, AgreesUpTo
  <2>4. QED
    BY <1>1, <2>3
<1>10. CASE AppendRecord
  <2>1. /\ MemLog' = MemLog \cup {Entry} /\ ReadLog' \subseteq ReadLog \cup {Entry}
        /\ Entry.lsn = Len(mem.doc) /\ Entry.value = mem.doc[Len(mem.doc)]
    BY <1>10, LogSteps, EntryIsRecord DEF AppendRecord
  <2>2. /\ mem'.doc = mem.doc /\ file'.state = file.state /\ pc = "append"
        /\ UNCHANGED <<boot, op, count, failed>> /\ op # "snapshot"
        /\ pc' \in {"compact", "batch", "backup"}
    BY <1>10 DEF AppendRecord, AfterAppend, TypeOK, Running
  <2>3. Agrees(Entry, mem.doc)
    BY <1>2, <2>1 DEF Agrees
  <2>4. CrashesOnly => Loaded' = Loaded
    BY <1>4, <2>2
  <2>5. CrashesOnly => Durable!Extends(mem.doc, Loaded)
    BY <2>2 DEF LogInSync, Replacing
  <2>6. CrashesOnly => AgreesUpTo(Entry, Loaded)
    BY <1>5, <2>2
  <2>7. CrashesOnly' <=> CrashesOnly
    BY <2>2 DEF CrashesOnly
  <2>8. LogSound'
    BY <2>1, <2>2, <2>3, <2>4, <2>6, <2>7 DEF LogSound, Agrees
  <2>9. LogInSync'
    BY <2>1, <2>2, <2>3, <2>4, <2>5, <2>7 DEF LogInSync, Replacing, Agrees, AgreesUpTo
  <2>10. QED
    BY <1>1, <2>8, <2>9
<1>11. CASE Compact \/ Rewrite
  <2>1. MemLog' \subseteq MemLog /\ ReadLog' = MemLog'
    BY <1>11, LogSteps
  <2>2. /\ mem'.doc = mem.doc /\ file'.state = file.state
        /\ UNCHANGED <<boot, op, count, failed>>
        /\ pc' \in {"batch", "backup"} /\ pc # "down"
        /\ op = "snapshot" => pc = "truncate" /\ pc' = "backup"
        /\ pc \in {"compact", "rewrite", "truncate"}
    BY <1>11 DEF Compact, Rewrite, AfterAppend, TypeOK, Running
  <2>3. (CrashesOnly' <=> CrashesOnly) /\ (CrashesOnly => Loaded' = Loaded)
    BY <1>4, <2>2 DEF CrashesOnly
  <2>4. CrashesOnly => \A r \in MemLog : Agrees(r, mem.doc)
    BY DEF LogSound
  <2>5. CrashesOnly /\ op # "snapshot" => Durable!Extends(mem.doc, Loaded)
    BY <2>2 DEF LogInSync, Replacing
  <2>6. CrashesOnly /\ op = "snapshot" => MemLog = {}
    BY <2>2 DEF LogInSync, Replacing
  <2>7. ASSUME CrashesOnly, NEW r \in MemLog
        PROVE  AgreesUpTo(r, Loaded)
    <3>1. op # "snapshot"
      BY <2>6, <2>7
    <3>2. \A i \in 1..Len(Loaded) : mem.doc[i] = Loaded[i]
      BY <1>2, <2>5, <2>7, <3>1, ExtendsPointwise
    <3>3. r.lsn \in Nat \ {0} /\ mem.doc[r.lsn] = r.value
      BY <1>3, <2>4, <2>7 DEF Agrees
    <3>4. QED
      BY <1>2, <3>2, <3>3 DEF AgreesUpTo
  <2>8. LogSound'
    BY <2>1, <2>2, <2>3, <2>7 DEF LogSound, Agrees
  <2>9. LogInSync'
    BY <2>1, <2>2, <2>3, <2>4, <2>5, <2>6 DEF LogInSync, Replacing, Agrees, AgreesUpTo
  <2>10. QED
    BY <1>1, <2>8, <2>9
<1>12. CASE Backup
  <2>1. /\ mem' = mem /\ file'.log = file.log /\ file'.state = file.state
        /\ UNCHANGED <<boot, op, count, failed>>
        /\ pc = "backup" /\ pc' = "install"
    BY <1>12 DEF Backup, BackedUp, TypeOK
  <2>2. /\ MemLog' = MemLog /\ ReadLog' = ReadLog
        /\ (CrashesOnly' <=> CrashesOnly) /\ (CrashesOnly => Loaded' = Loaded)
    BY <1>4, <2>1 DEF MemLog, ReadLog, CrashesOnly
  <2>3. LogSound' /\ LogInSync'
    BY <2>1, <2>2 DEF LogSound, LogInSync, Replacing, Agrees, AgreesUpTo
  <2>4. QED
    BY <1>1, <2>3
<1>13. CASE Install
  <2>1. /\ mem' = mem /\ file'.log = file.log /\ file'.state = ImageOf(mem.doc)
        /\ UNCHANGED <<boot, op, count, failed>>
        /\ pc = "install" /\ pc' = "idle"
    BY <1>13 DEF Install, Installed, TypeOK
  <2>2. /\ MemLog' = MemLog /\ ReadLog' = ReadLog
        /\ (CrashesOnly' <=> CrashesOnly) /\ Loaded' = mem.doc
    BY <2>1 DEF MemLog, ReadLog, CrashesOnly, Loaded, Recovered, ImageOf
  <2>3. Durable!Extends(mem.doc, mem.doc)
    BY <1>2, ExtendsIsOrder
  <2>4. LogSound' /\ LogInSync'
    BY <2>1, <2>2, <2>3 DEF LogSound, LogInSync, Replacing, Agrees, AgreesUpTo
  <2>5. QED
    BY <1>1, <2>4
<1>14. CASE IoError
  <2>1. /\ failed' # {} /\ boot' = boot
        /\ mem' = mem \/ mem' = Nothing
    BY <1>14 DEF IoError
  <2>2. ~CrashesOnly' /\ MemLog' \subseteq MemLog
    BY <1>14, <2>1, LogSteps DEF CrashesOnly
  <2>3. LogSound' /\ LogInSync'
    <3>1. CASE mem' = mem
      BY <2>1, <2>2, <3>1 DEF LogSound, LogInSync
    <3>2. CASE mem' = Nothing
      <4>1. MemLog' = {}
        BY <3>2 DEF MemLog, Nothing
      <4>2. QED
        BY <2>2, <4>1 DEF LogSound, LogInSync
    <3>3. QED
      BY <2>1, <3>1, <3>2
  <2>4. QED
    BY <1>1, <2>3
<1>15. CASE Crash
  <2>1. /\ mem' = Nothing /\ pc' = "down" /\ file'.state = file.state
        /\ failed' = failed /\ count'.losses = count.losses
    BY <1>15, InterruptedFiles DEF Crash, TypeOK
  <2>2. MemLog' = {} /\ ReadLog' \subseteq ReadLog \cup (IF pc = "append" THEN {Entry} ELSE {})
    BY <1>15, <2>1, LogSteps DEF MemLog, Nothing
  <2>3. (CrashesOnly' <=> CrashesOnly) /\ (CrashesOnly => Loaded' = Loaded)
    BY <1>4, <2>1 DEF CrashesOnly
  <2>4. CrashesOnly /\ pc = "append" => AgreesUpTo(Entry, Loaded)
    BY <1>5
  <2>5. LogSound' /\ LogInSync'
    BY <2>1, <2>2, <2>3, <2>4 DEF LogSound, LogInSync, Replacing
  <2>6. QED
    BY <1>1, <2>5
<1>16. CASE Lose
  <2>1. /\ mem' = mem /\ boot' = boot /\ count'.losses = count.losses + 1
        /\ count.losses \in Nat
    BY <1>16 DEF Lose, TypeOK
  <2>2. ~CrashesOnly' /\ MemLog' = MemLog
    BY <2>1 DEF CrashesOnly, MemLog
  <2>3. LogSound' /\ LogInSync'
    BY <2>1, <2>2 DEF LogSound, LogInSync
  <2>4. QED
    BY <1>1, <2>3
<1>17. QED
  BY <1>6, <1>7, <1>8, <1>9, <1>10, <1>11, <1>12, <1>13, <1>14, <1>15, <1>16 DEF Next

\* The record log never contradicts the document: the records of this process never do, and
\* none that a restart reads does while crashes are all that happens.
THEOREM LogNeverContradicts == Spec => []LogAgrees
<1>1. Init => LogInv
  <2> SUFFICES ASSUME Init PROVE LogInv
    OBVIOUS
  <2>1. MemLog = {} /\ FileLog = {}
    BY DEF Init, MemLog, FileLog, Nothing
  <2>2. <<>> \in Cells(Record) /\ Len(<<>>) = 0
    BY DEF Cells
  <2>3. Readable(<<>>) \in 0..0
    BY <2>2, ReadableStops
  <2>4. ReadLog = {}
    BY <2>3 DEF Init, ReadLog
  <2>5. QED
    BY <2>1, <2>4 DEF Init, LogInv, Boots, LogSound, LogInSync, Replacing
<1>2. Stored /\ Stored' /\ LogInv /\ [Next]_vars => LogInv'
  BY LogKept DEF Stored
<1>3. LogInv => LogAgrees
  <2> SUFFICES ASSUME LogInv PROVE LogAgrees
    OBVIOUS
  <2>1. \A i \in DOMAIN mem.records : mem.records[i] \in MemLog
    BY DEF MemLog
  <2>2. \A i \in 1..Readable(file.log) : file.log[i].rec \in ReadLog
    BY DEF ReadLog
  <2>3. QED
    BY <2>1, <2>2 DEF LogAgrees, LogInv, LogSound, CrashesOnly, Agrees, AgreesUpTo
<1>4. QED
  BY <1>1, <1>2, <1>3, StoredHolds, PTL DEF Spec

----------------------------------------------------------------------------
(* The catch-up *)

\* Contiguous for given records, base and position.
Consecutive(records, base, upto) ==
    /\ base <= upto
    /\ base < upto => records # <<>>
    /\ \A j \in DOMAIN records :
        base < upto - (Len(records) - j) => records[j].lsn = upto - (Len(records) - j)

\* A record for the next position continues the records.
LEMMA AppendIsConsecutive ==
    ASSUME NEW records \in Seq(Record), NEW base \in Nat, NEW upto \in Nat,
           Consecutive(records, base, upto),
           NEW r \in Record, r.lsn = upto + 1
    PROVE  Consecutive(Append(records, r), base, upto + 1)
<1> DEFINE new == Append(records, r)
<1>1. /\ new \in Seq(Record) /\ new # <<>> /\ Len(new) = Len(records) + 1 /\ Len(records) \in Nat
      /\ \A i \in 1..Len(records) : new[i] = records[i]
      /\ new[Len(records) + 1] = r
      /\ DOMAIN new = 1..Len(new) /\ DOMAIN records = 1..Len(records)
  BY AppendProperties, LenProperties
<1> HIDE DEF new
<1>2. ASSUME NEW j \in DOMAIN new, base < (upto + 1) - (Len(new) - j)
      PROVE  new[j].lsn = (upto + 1) - (Len(new) - j)
  <2>1. CASE j \in 1..Len(records)
    <3>1. (upto + 1) - (Len(new) - j) = upto - (Len(records) - j)
      BY <1>1, <2>1
    <3>2. records[j].lsn = upto - (Len(records) - j)
      BY <1>1, <1>2, <2>1, <3>1 DEF Consecutive
    <3>3. QED
      BY <1>1, <2>1, <3>1, <3>2
  <2>2. CASE j = Len(records) + 1
    BY <1>1, <2>2
  <2>3. QED
    BY <1>1, <2>1, <2>2
<1>3. base <= upto + 1
  BY DEF Consecutive
<1>4. QED
  BY <1>1, <1>2, <1>3 DEF Consecutive, new

\* The newest of consecutive records are consecutive.
LEMMA NewestIsConsecutive ==
    ASSUME NEW records \in Seq(Record), NEW base \in Nat, NEW upto \in Nat,
           Consecutive(records, base, upto), NEW n \in Nat \ {0}
    PROVE  Consecutive(Newest(records, n), base, upto)
<1> DEFINE new == Newest(records, n)
<1>1. /\ new \in Seq(Record)
      /\ Len(new) = IF Len(records) <= n THEN Len(records) ELSE n
      /\ \A i \in 1..Len(new) : new[i] = records[Len(records) - Len(new) + i]
  BY NewestIsSuffix
<1>2. /\ DOMAIN new = 1..Len(new) /\ DOMAIN records = 1..Len(records)
      /\ Len(records) \in Nat /\ Len(new) \in Nat
  BY <1>1, LenProperties
<1> HIDE DEF new
<1>3. Len(new) <= Len(records) /\ (Len(new) = 0 => Len(records) = 0)
  BY <1>1, <1>2
<1>4. ASSUME NEW j \in DOMAIN new, base < upto - (Len(new) - j)
      PROVE  new[j].lsn = upto - (Len(new) - j)
  <2>1. PICK k \in 1..Len(records) : k = Len(records) - Len(new) + j
    BY <1>2, <1>3
  <2>2. upto - (Len(records) - k) = upto - (Len(new) - j)
    BY <1>2, <2>1
  <2>3. records[k].lsn = upto - (Len(records) - k)
    BY <1>2, <1>4, <2>1, <2>2 DEF Consecutive
  <2>4. QED
    BY <1>1, <1>2, <2>1, <2>2, <2>3
<1>5. base < upto => new # <<>>
  <2>1. base < upto => Len(records) # 0
    BY <1>2 DEF Consecutive
  <2>2. Len(<<>>) = 0
    OBVIOUS
  <2>3. QED
    BY <1>3, <2>1, <2>2
<1>6. QED
  BY <1>4, <1>5 DEF Consecutive, new

\* Every step keeps the positions of this process's records consecutive.
LEMMA ContiguousKept ==
    ASSUME TypeOK, TypeOK', Running, Contiguous, [Next]_vars
    PROVE  Contiguous'
<1> DEFINE Holds == Consecutive(mem.records, mem.base, Recorded)
<1>1. Contiguous <=> (pc # "down" /\ "append" \notin failed => Holds)
  BY DEF Contiguous, Consecutive
<1>2. Contiguous' <=> (pc' # "down" /\ "append" \notin failed' => Holds')
  BY DEF Contiguous, Consecutive
<1>3. SUFFICES ASSUME pc' # "down", "append" \notin failed'
               PROVE  Holds'
  BY <1>2
<1>4. /\ mem.doc \in Seq(Int) /\ Len(mem.doc) \in Nat
      /\ mem.records \in Seq(Record) /\ mem.base \in Nat
  BY DEF TypeOK, Doc
<1>5. ASSUME mem' = mem, failed \subseteq failed', pc # "down", pc # "append", pc' # "append"
      PROVE  Holds'
  BY <1>1, <1>3, <1>5 DEF Recorded
<1>6. CASE Open
  <2>1. /\ mem'.base = Len(Loaded) /\ mem'.doc = Loaded /\ pc' # "append"
        /\ mem'.records \in Seq(Record)
    BY <1>6 DEF Open, TypeOK
  <2>2. Len(Loaded) \in Nat
    BY LoadedIsDoc DEF Doc
  <2>3. Recorded' = Len(Loaded)
    BY <2>1 DEF Recorded
  <2>4. ASSUME NEW records \in Seq(Record), NEW n \in Nat
        PROVE  Consecutive(records, n, n)
    <3>1. Len(records) \in Nat /\ DOMAIN records = 1..Len(records)
      BY LenProperties
    <3>2. \A j \in DOMAIN records : ~(n < n - (Len(records) - j))
      BY <3>1
    <3>3. QED
      BY <3>2 DEF Consecutive
  <2>5. QED
    BY <2>1, <2>2, <2>3, <2>4
<1>7. CASE OpenRefused \/ UNCHANGED vars
  BY <1>1, <1>3, <1>7 DEF OpenRefused, vars, Recorded
<1>8. CASE Write \/ BatchRecord
  <2>1. count.writes + 1 \in Int
    BY DEF TypeOK
  <2>2. /\ mem'.records = mem.records /\ mem'.base = mem.base
        /\ mem'.doc = Append(mem.doc, count.writes + 1)
        /\ pc \in {"idle", "batch"} /\ pc' = "append" /\ failed' = failed
    BY <1>8 DEF Write, BatchRecord, Put, TypeOK
  <2>3. Len(mem'.doc) = Len(mem.doc) + 1
    BY <1>4, <2>1, <2>2, AppendProperties
  <2>4. Recorded' = Recorded
    BY <1>4, <2>2, <2>3 DEF Recorded
  <2>5. QED
    BY <1>1, <1>3, <2>2, <2>4
<1>9. CASE BatchRefused \/ BatchSave \/ SaveOther
  <2>1. mem' = mem /\ failed' = failed /\ pc \in {"batch", "idle"} /\ pc' \in {"idle", "backup"}
    BY <1>9 DEF BatchRefused, BatchSave, SaveOther
  <2>2. QED
    BY <1>5, <2>1
<1>10. CASE \E doc \in Snapshots : InstallSnapshot(doc)
  <2>1. PICK doc \in Snapshots : InstallSnapshot(doc)
    BY <1>10
  <2>2. /\ mem'.records = <<>> /\ mem'.base = Len(doc) /\ mem'.doc = doc /\ pc' = "truncate"
    BY <2>1 DEF InstallSnapshot
  <2>3. Len(doc) \in Nat
    BY StoreAssumption
  <2>4. QED
    BY <2>2, <2>3 DEF Recorded, Consecutive
<1>11. CASE AppendRecord
  <2>1. /\ Entry \in Record /\ Entry.lsn = Len(mem.doc) /\ Len(mem.doc) # 0
        /\ pc = "append" /\ failed' = failed /\ mem'.base = mem.base /\ mem'.doc = mem.doc
        /\ mem'.records = Append(mem.records, Entry)
        /\ pc' # "append"
    BY <1>11, EntryIsRecord DEF AppendRecord, AfterAppend, TypeOK
  <2>2. Recorded \in Nat /\ Recorded + 1 = Len(mem.doc) /\ Recorded' = Len(mem.doc)
    BY <1>4, <2>1 DEF Recorded
  <2>3. Holds
    BY <1>1, <1>3, <2>1
  <2>4. Consecutive(Append(mem.records, Entry), mem.base, Recorded + 1)
    BY <1>4, <2>1, <2>2, <2>3, AppendIsConsecutive
  <2>5. QED
    BY <2>1, <2>2, <2>4
<1>12. CASE Compact
  <2>1. /\ mem'.records = Newest(mem.records, Keep(MaxLog))
        /\ mem'.doc = mem.doc /\ mem'.base = mem.base /\ failed' = failed
        /\ pc = "compact" /\ pc' # "append"
    BY <1>12 DEF Compact, AfterAppend, TypeOK
  <2>2. Recorded \in Nat /\ Recorded' = Recorded
    BY <1>4, <2>1 DEF Recorded
  <2>3. Holds /\ Keep(MaxLog) \in Nat \ {0}
    BY <1>1, <1>3, <2>1, KeepBounds, StoreAssumption
  <2>4. Consecutive(Newest(mem.records, Keep(MaxLog)), mem.base, Recorded)
    BY <1>4, <2>2, <2>3, NewestIsConsecutive
  <2>5. QED
    BY <2>1, <2>2, <2>4
<1>13. CASE Rewrite \/ Backup \/ Install
  <2>1. /\ mem' = mem /\ failed' = failed /\ pc \notin {"down", "append"} /\ pc' # "append"
    BY <1>13 DEF Rewrite, Backup, Install
  <2>2. QED
    BY <1>5, <2>1
<1>14. CASE IoError
  <2>1. /\ pc # "append" /\ pc # "down" /\ failed \subseteq failed'
        /\ mem' = mem /\ pc' = "idle"
    BY <1>3, <1>14 DEF IoError, Step
  <2>2. QED
    BY <1>5, <2>1
<1>15. CASE Crash
  BY <1>3, <1>15 DEF Crash
<1>16. CASE Lose
  BY <1>1, <1>3, <1>16 DEF Lose, Recorded
<1>17. QED
  BY <1>6, <1>7, <1>8, <1>9, <1>10, <1>11, <1>12, <1>13, <1>14, <1>15, <1>16 DEF Next

\* read_since can serve every position since the process started, but what a compaction took
\* from the front, unless an append has failed: a catch-up never meets a hole.
THEOREM CatchUpHasNoHole == Spec => []NoHole
<1>1. Init => Contiguous
  BY DEF Init, Contiguous
<1>2. Stored /\ Stored' /\ Contiguous /\ [Next]_vars => Contiguous'
  BY ContiguousKept DEF Stored
<1>3. Stored /\ Contiguous => NoHole
  <2> SUFFICES ASSUME TypeOK, Contiguous, pc = "idle", "append" \notin failed,
                      NEW p \in (mem.base + 1)..Len(mem.doc)
               PROVE  \/ \E i \in DOMAIN mem.records : mem.records[i].lsn = p
                      \/ mem.records # <<>> /\ p < mem.records[1].lsn
    BY DEF NoHole, Stored
  <2> DEFINE n == Len(mem.records)
  <2>1. /\ mem.base \in Nat /\ Len(mem.doc) \in Nat /\ n \in Nat
        /\ mem.records \in Seq(Record) /\ DOMAIN mem.records = 1..n
    BY LenProperties DEF TypeOK, Doc
  <2>2. /\ mem.base < Len(mem.doc) => mem.records # <<>>
        /\ \A j \in DOMAIN mem.records :
            mem.base < Len(mem.doc) - (n - j) => mem.records[j].lsn = Len(mem.doc) - (n - j)
    BY DEF Contiguous, Recorded
  <2>3. mem.records # <<>> /\ n # 0
    BY <2>1, <2>2
  <2> HIDE DEF n
  <2>4. CASE Len(mem.doc) - p < n
    <3> DEFINE j == n - (Len(mem.doc) - p)
    <3>1. j \in 1..n
      BY <2>1, <2>4
    <3>2. Len(mem.doc) - (n - j) = p /\ mem.base < p
      BY <2>1
    <3> HIDE DEF j
    <3>3. mem.records[j].lsn = p
      BY <2>1, <2>2, <3>1, <3>2
    <3>4. QED
      BY <2>1, <3>1, <3>3
  <2>5. CASE ~(Len(mem.doc) - p < n)
    <3>1. 1 \in DOMAIN mem.records /\ p < Len(mem.doc) - (n - 1) /\ mem.base < Len(mem.doc) - (n - 1)
      BY <2>1, <2>3, <2>5
    <3>2. mem.records[1].lsn = Len(mem.doc) - (n - 1)
      BY <2>2, <3>1
    <3>3. QED
      BY <2>3, <3>1, <3>2
  <2>6. QED
    BY <2>4, <2>5
<1>4. QED
  BY <1>1, <1>2, <1>3, StoredHolds, PTL DEF Spec
=============================================================================
