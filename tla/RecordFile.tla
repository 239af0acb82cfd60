----------------------------- MODULE RecordFile -----------------------------
(***************************************************************************)
(* The two kinds of durable file of src/src/persistence.cpp.                *)
(*                                                                          *)
(* A record log is a sequence of cells; a cell whose append was cut short   *)
(* is not intact.  An integrity file holds one image; its checksum and      *)
(* digest tell an intact image from a torn one.  Bytes, header fields and   *)
(* checksums are abstracted to that distinction.                            *)
(***************************************************************************)
EXTENDS Integers, Sequences

Intact(r) == [intact |-> TRUE, rec |-> r]
Torn(r) == [intact |-> FALSE, rec |-> r]

\* read_records stops at the first cell it cannot verify, whatever comes behind it.
Readable(log) ==
    CHOOSE k \in 0..Len(log) :
        /\ \A i \in 1..k : log[i].intact
        /\ k < Len(log) => ~log[k + 1].intact

ReadRecords(log) == [i \in 1..Readable(log) |-> log[i].rec]

\* LogReadReport: truncated or damaged.
TailDamaged(log) == Readable(log) < Len(log)

\* The newest n records, as the log rewritten by a compaction keeps them.
Newest(records, n) ==
    IF Len(records) <= n THEN records ELSE SubSeq(records, Len(records) - n + 1, Len(records))

Keep(capacity) == IF capacity \div 2 = 0 THEN 1 ELSE capacity \div 2

\* A log written anew in one piece (write_bytes_atomic).
LogOf(records) == [i \in 1..Len(records) |-> Intact(records[i])]

----------------------------------------------------------------------------
(* Integrity files *)

NoImage == [status |-> "absent", body |-> <<>>]
ImageOf(body) == [status |-> "intact", body |-> body]
Damaged(image) == [image EXCEPT !.status = "torn"]

Image(B) == {NoImage} \cup [status: {"intact", "torn"}, body: B]

\* read_integrity_file_with_recovery, with allow_backup: the primary, else the backup.
Recoverable(file) == file.state.status = "intact" \/ file.backup.status = "intact"

Recovered(file) ==
    IF file.state.status = "intact" THEN file.state.body ELSE file.backup.body

\* Mutant: the backup is refreshed from a primary nobody verified.
BackedUp_Blind(file) ==
    IF file.state.status # "absent" THEN [file EXCEPT !.backup = file.state] ELSE file

\* write_integrity_file refreshes the backup from a primary it can verify, and only then.
BackedUp(file) ==
    IF file.state.status = "intact" THEN [file EXCEPT !.backup = file.state] ELSE file

\* The new image is written beside the primary and renamed over it.
Installed(file, body) == [file EXCEPT !.state = ImageOf(body)]
=============================================================================
