---------------------------- MODULE EpochJournal ----------------------------
(***************************************************************************)
(* The controller's epoch journal (src/src/epoch_log.cpp) beside its state  *)
(* file, and the order in which a request of src/src/controller.cpp writes  *)
(* the two: change memory, deliver a grant if there is one, append the      *)
(* event, save the state, answer.  One event is appended with no save of    *)
(* its own behind it: the revocation of reconcile_incarnations.             *)
(*                                                                          *)
(* A decision is a number.  The controller's state is the set of decisions  *)
(* it contains; the state file is replaced as a whole (NodeStore has the    *)
(* steps of that), the journal is a record log.                             *)
(***************************************************************************)
EXTENDS RecordFile, FiniteSets

CONSTANTS
    Capacity,      \* capacity_
    MaxDecisions,  \* bound on decisions
    MaxCrashes,    \* bound on deaths of the process
    MaxErrors      \* bound on failed file operations, no two of one kind

\* The controller's journal has kDefaultEpochLogCapacity, 4096.
ASSUME JournalAssumption ==
    /\ Capacity \in Nat \ {0, 1}
    /\ {MaxDecisions, MaxCrashes, MaxErrors} \subseteq Nat

VARIABLES
    state,      \* the controller's state
    disk,       \* the state file
    cells,      \* the journal file
    events,     \* EpochLog: events_
    damaged,    \* EpochLog: tail_damaged_
    pc,         \* the step under way, "idle" or "down"
    req,        \* the part of a request it belongs to
    held,       \* the registry in memory has a holder in the shard's mutation slot
    last,       \* the newest decision
    pending,    \* the decisions of the request under way since its last save
    acked,      \* the decisions whose request saved them
    journaled,  \* history: the decisions appended, in order
    crashes,
    failed      \* the kinds of steps that have failed

log == <<events, damaged>>
faults == <<crashes, failed>>
vars == <<state, disk, cells, log, pc, req, held, last, pending, acked, journaled, faults>>

\* decide: a decision with its event (apply_action, record_phase, restart_handoff, plan_locked,
\* begin_handoff_locked, reconcile_locked).  step: an event that record_phase follows
\* (FenceAcknowledged, MigrationApplied).  transfer: the same for the grant of advance_transfer.
\* ensure: the grant of ensure_holder_authority.  revoke: the event of reconcile_incarnations.
\* other: what is saved without an event, a fence request included.
Request == {"open", "decide", "step", "transfer", "ensure", "revoke", "other"}

\* resume: reconcile_incarnations or ensure_holder_authority has returned without saving.
Step == {"deliver", "append", "compact", "phase", "resume", "save"}

Init ==
    /\ state = {} /\ disk = {} /\ cells = <<>>
    /\ events = <<>> /\ damaged = FALSE
    /\ pc = "down" /\ req = "open" /\ held = FALSE
    /\ last = 0 /\ pending = {} /\ acked = {} /\ journaled = <<>>
    /\ crashes = 0 /\ failed = {}

----------------------------------------------------------------------------
(* The journal *)

\* Mutant: trimming keeps the oldest events.
Replayed_Oldest(file) ==
    LET read == ReadRecords(file)
    IN  IF Len(read) <= Capacity THEN read ELSE SubSeq(read, 1, Capacity)

\* Mutant: trimming keeps no more than a compaction does.
Replayed_Half(file) == Newest(ReadRecords(file), Keep(Capacity))

\* EpochLog::replay, the events it keeps in memory
Replayed(file) == Newest(ReadRecords(file), Capacity)

\* open: load_state, replay, and a save.  Replaying changes nothing on disk.  The lease in the
\* state file, if there is one, is among what was decided.
Open ==
    /\ pc = "down"
    /\ state' = disk
    /\ events' = Replayed(cells)
    /\ damaged' = TailDamaged(cells)
    /\ held' \in {FALSE, disk # {}}
    /\ pc' = "save" /\ req' = "open" /\ pending' = {}
    /\ UNCHANGED <<disk, cells, last, acked, journaled, faults>>

Event == last

AfterAppend ==
    CASE req \in {"step", "transfer"} -> "phase"
      [] req = "revoke" -> "resume"
      [] OTHER -> "save"

\* EpochLog::append
AppendEvent ==
    /\ pc = "append"
    /\ cells' = Append(cells, Intact(Event))
    /\ events' = Append(events, Event)
    /\ journaled' = Append(journaled, Event)
    /\ pc' = IF Len(events) + 1 > 2 * Capacity THEN "compact" ELSE AfterAppend
    /\ UNCHANGED <<state, disk, damaged, req, held, last, pending, acked, faults>>

\* EpochLog::compact
Compact ==
    LET kept == Newest(events, Keep(Capacity))
    IN  /\ pc = "compact"
        /\ cells' = LogOf(kept)
        /\ events' = kept
        /\ pc' = AfterAppend
        /\ UNCHANGED <<state, disk, damaged, req, held, last, pending, acked, journaled, faults>>

----------------------------------------------------------------------------
(* The requests *)

\* Where a request may start, or go on.
AtRest == pc \in {"idle", "resume"}

Decide(request) ==
    /\ last + (IF request \in {"step", "transfer"} THEN 2 ELSE 1) <= MaxDecisions
    /\ last' = last + 1
    /\ state' = state \cup {last'}
    /\ pending' = pending \cup {last'}
    /\ req' = request
    /\ UNCHANGED <<disk, cells, log, acked, journaled, faults>>

\* Mutant: the state is saved before the event is appended.
Begin_SaveFirst ==
    /\ AtRest
    /\ Decide("decide")
    /\ held' = held
    /\ pc' = "save"

\* A plan may be for a shard that nobody holds and an abort restores a lease; acknowledging a
\* fence frees the slot.
Begin ==
    /\ AtRest
    /\ \/ Decide("decide") /\ held' \in BOOLEAN
       \/ Decide("step") /\ held' \in {held, FALSE}
    /\ pc' = "append"

\* The holder's incarnation was replaced.  reconcile_incarnations comes first in a request.
Revoke ==
    /\ pc = "idle" /\ held
    /\ Decide("revoke")
    /\ held' = FALSE
    /\ pc' = "append"

Grant ==
    /\ AtRest
    /\ Decide("ensure") \/ Decide("transfer")
    /\ held' = TRUE
    /\ pc' = "deliver"

\* The component accepts the grant, before anything of it is on the controller's disk.
Deliver ==
    /\ pc = "deliver"
    /\ pc' = "append"
    /\ UNCHANGED <<state, disk, cells, log, req, held, last, pending, acked, journaled, faults>>

\* The grant is refused, or the answer lost: it is revoked, and the decision is as if never
\* taken.  advance_transfer saves that and fails; ensure_holder_authority leaves it to its
\* caller.
DeliveryFails ==
    /\ pc = "deliver"
    /\ state' = state \ {last}
    /\ last' = last - 1
    /\ held' = FALSE
    /\ pending' = IF req = "transfer" THEN {} ELSE pending \ {last}
    /\ pc' = IF req = "transfer" THEN "save" ELSE "resume"
    /\ req' = "other"
    /\ UNCHANGED <<disk, cells, log, acked, journaled, faults>>

\* record_phase, after an event of the same step
RecordPhase ==
    /\ pc = "phase"
    /\ Decide("decide")
    /\ held' = held
    /\ pc' = "append"

\* save_state without an event: fence requests, renewals, deferrals, a successor re-bound
SaveOther ==
    /\ AtRest
    /\ pc' = "save" /\ req' = "other"
    /\ UNCHANGED <<state, disk, cells, log, held, last, pending, acked, journaled, faults>>

\* An error that is not one of the files ends the request after a revocation: the component
\* does not answer, the handoff was restarted too often, the lease is not renewed.
GiveUp ==
    /\ pc = "resume"
    /\ pc' = "idle" /\ req' = "other" /\ pending' = {}
    /\ UNCHANGED <<state, disk, cells, log, held, last, acked, journaled, faults>>

\* save_state; the request is answered.
Save ==
    /\ pc = "save"
    /\ disk' = state
    /\ acked' = acked \cup pending
    /\ pc' = "idle" /\ req' = "other" /\ pending' = {}
    /\ UNCHANGED <<state, cells, log, held, last, journaled, faults>>

----------------------------------------------------------------------------
(* Faults *)

\* What an operation that does not complete may leave.  (A crash behind a whole record is one
\* after AppendEvent.)
Interrupted == {cells} \cup (IF pc = "append" THEN {Append(cells, Torn(Event))} ELSE {})

\* The process ends and its memory with it.
Down ==
    /\ pc' = "down" /\ req' = "open" /\ held' = FALSE
    /\ state' = {} /\ pending' = {}
    /\ events' = <<>> /\ damaged' = FALSE

\* ensure_holder_authority does not look at the result of its append.
Ignored == req = "ensure" /\ pc \in {"append", "compact"}

\* A file operation has failed: the request ends with the error and memory stays as it is.
Fails(kind) ==
    /\ kind \notin failed /\ Cardinality(failed) < MaxErrors
    /\ failed' = failed \cup {kind} \cup (IF Ignored THEN {"ignored"} ELSE {})
    /\ IF req = "open"
       THEN Down
       ELSE /\ pc' = IF Ignored THEN "save" ELSE "idle"
            /\ pending' = IF Ignored THEN pending ELSE {}
            /\ req' = "other"
            /\ UNCHANGED <<state, log, held>>
    /\ UNCHANGED <<disk, last, acked, journaled, crashes>>

IoError ==
    /\ pc \in {"append", "compact", "save"}
    /\ Fails(pc)
    /\ cells' \in Interrupted

\* append_record has written the record and its flush fails.
FlushError ==
    /\ pc = "append"
    /\ Fails("flush")
    /\ cells' = Append(cells, Intact(Event))

Crash ==
    /\ pc # "down"
    /\ crashes < MaxCrashes
    /\ crashes' = crashes + 1
    /\ cells' \in Interrupted
    /\ Down
    /\ UNCHANGED <<disk, last, acked, journaled, failed>>

Next ==
    \/ Open
    \/ Begin \/ Revoke \/ Grant \/ Deliver \/ DeliveryFails \/ RecordPhase
    \/ SaveOther \/ GiveUp
    \/ AppendEvent \/ Compact \/ Save
    \/ IoError \/ FlushError \/ Crash

Spec == Init /\ [][Next]_vars

----------------------------------------------------------------------------
(* Properties *)

Elements(s) == {s[i] : i \in DOMAIN s}

\* The journal leads the state file.  What was answered with success has been journaled, even
\* when file operations fail, unless the failure was the one nobody looks at; without failures
\* the state file never holds a decision that was not journaled.  Nor is the journal ever far
\* ahead: between requests by one revocation that nothing has saved yet, within a request by
\* three decisions (that revocation, the transfer and its phase), and by three more for every
\* crash that lost them.
JournalFirst ==
    /\ "ignored" \notin failed => acked \subseteq Elements(journaled)
    /\ failed = {} =>
        /\ disk \subseteq Elements(journaled)
        /\ Cardinality(Elements(journaled) \ disk)
            <= 3 * crashes + (CASE pc = "down" -> 0 [] AtRest -> 1 [] OTHER -> 3)

\* The newest half capacity of the events appended, whatever was compacted and whichever
\* appends were cut short, is what the running controller serves and what a restart reads
\* back, or else the loss is reported as a damaged tail.
LossReported ==
    LET recent == Elements(Newest(journaled, Keep(Capacity)))
    IN  /\ pc # "down" => recent \subseteq Elements(events) \/ damaged
        /\ recent \subseteq Elements(Replayed(cells)) \/ TailDamaged(cells)

\* Restarts are what the file grows by: a process compacts it when it has 2 * Capacity + 1
\* events in memory, of which a replay brings Capacity or all there are, and a replay itself
\* never compacts.  Behind a torn record it reads back less, and the process adds more.
GrowthPerBoot ==
    failed = {} =>
        Len(cells) <= 2 * Capacity + 1
                        + (IF TailDamaged(cells) THEN 2 * Capacity + 1 ELSE Capacity + 1) * crashes
=============================================================================
