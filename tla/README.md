# Fabric Evolution: TLA+ models and proofs

Fabric Evolution moves the authority over a shard from one running control-plane component
(the *predecessor*, old version) to another (the *successor*, new version) without stopping the
service. This directory holds TLA+ models of the parts that decide whether that is safe, the TLC
configurations that check them, and TLAPS proofs about every component and about
their composition, the controller's protocol. Paths such as `src/src/controller.cpp` are those of the repository with `src/` in front.

    tlc -workers 2 -config EvolutionFaults.cfg MCEvolution      # one run
    tlapm NodeStoreProofs.tla                                   # the proofs about one component

`PROJECT.json` lists the runs, the source lines behind every definition, the mutants that show each
property can fail, the findings, the hazards and the theorems.

## 1. Inventory

| Component | State it keeps | Operations | What makes it correct |
|---|---|---|---|
| **AuthorityRegistry** (`authority.cpp`) | per shard: epoch, generation, lease and fence histories (bounded), id counters | grant, renew, request_fence, acknowledge_fence, revoke, expire_due, reattest, advance_epoch, validate_claim, to/from_json | one holder of the mutation slot; at most one claim accepted; stale claims stay stale; a fence can always be completed; restored leases are not current |
| **Handoff** (`handoff.cpp`) | phase, predecessor, successor, attempt, target position | validate_handoff_transition, reached | phases one step at a time; the phase never ahead of the facts |
| **Campaign** (`campaign.cpp`) | campaign state, boundary flag, window start | evaluate_campaign_action, evaluate_window | no pause between the two owners, no rollback past a boundary |
| **ControlPlaneNode** (`node.cpp`) | document, record log, log position, schema, lease and whether it is confirmed, lifecycle, last fence, source binding, boot counter | status, prepare_*, snapshot, install_snapshot, read_since, apply_records, migrate, readiness, fence, grant_authority, reattest, retire, write, open | writes only under its own live confirmed lease; acknowledged writes are durable; records applied once and in order |
| **EvolutionController** (`controller.cpp`) | registry, campaign, handoff, the predecessor's claim, manifest; all saved with `save_state` | plan, preflight, start, advance (one routine per phase), pause, resume, abort, reconcile, open | never two writers; no acknowledged write lost; an abort restores an owner; a campaign completes |
| **Transport** (`transport.cpp`, `framing.cpp`) | connection queue, registry of live sockets, accept thread, workers, deadlines | call, start, accept, serve, stop | a failed call may have been executed, or may still be; every socket has one owner; no wakeup is lost; `stop` ends every thread |
| **EpochLog** (`epoch_log.cpp`) | append-only journal, its newest events in memory | append, replay, compact | the journal leads the state file; what a replay cannot read is reported |
| **Persistence** (`persistence.cpp`) | integrity file with backup, record log | save, load, append, rewrite | a crash leaves the old or the new contents; what was acknowledged comes back |
| **Migration** (`migration.cpp`) | document (schema, fields), journal of steps | seven functions, migrate_forward, migrate_backward, record | a chain is applied as a whole; backward undoes forward; boundaries are not crossed back |
| **Negotiation, features** (`protocol.cpp`, `features.cpp`) | none | negotiate_group | a version and features everybody has; the negotiation never fails for components that are what was declared |
| **Manifest, compatibility** (`manifest.cpp`, `compatibility.cpp`) | registry of decisions | validate, migration_path, decide, verify_evidence | only certified evolutions start; the path that is admitted is the one that is run |
| **JSON, digests, ids, versions, explanations, tools** | none | conversions, printing | equality is kept |

**Interaction.** The controller is the only writer of the registry. It talks to the two components
by calls with a deadline (`io_deadline_ms`, 30 s), one at a time, under its mutex; an operation such as
`advance` is a chain of such calls. Leases live 6 s (`lease_ttl_ms`), and the component keeps its *own*
copy, whose life starts when the grant arrives. Clients write straight to the component that holds
the authority. The state of controller and components is on disk; connections, the source binding
and the confirmation of a lease are not.

**What is hard.** Between two calls of one operation clients write, leases expire, components
restart with a higher boot counter and the controller may die, so registry, handoff record and
components drift apart; a call that fails at the controller may have been executed, or may be later;
the catch-up reads a log that compacts under it; an abort may come at any phase; registry counters and
histories are bounded. Below that, a handler writes several files one after the other and may die or fail between any
two; the server's threads share a queue, a socket registry and a stop flag; and admission, negotiation and
migration each look at a manifest in their own way. The `hazards` of PROJECT.json list these at their lines.

## 2. Modules

| Module | Models |
|---|---|
| `ShardAuthority` | the registry's record for a shard and each operation on it as an operator (`GrantResult`, `RenewResult`, `RequestFenceResult`, ...) that returns a code and the record afterwards |
| `AuthorityRegistry` | the registry as a state machine: those operations in any order, a clock, a saved snapshot, restarts from it; history variables for the tokens minted and the claims handed out |
| `ShardAuthorityProofs` | lemmas: what each operation keeps true of a record (`Sound`), used by the next and by `EvolutionProofs` |
| `AuthorityRegistryProofs` | the theorems about its states and its steps |
| `HandoffCampaign` | phases as the enum's numbers (the code compares them with `<`), transitions, the campaign's decision table, the window budget |
| `ControlPlaneNode` | a component's state and, per request, what the handler makes of it; restart |
| `Evolution` | the composition: controller, two components, calls, clients, restarts, time |
| `EvolutionProofs` | the theorems about the composition: for any faults, and for handoffs whose components stay up |
| `RecordFile` | the two kinds of file of `persistence.cpp`: record logs whose last append may be torn, integrity files with a backup |
| `RecordFileProofs` | lemmas about logs (what a torn tail leaves readable, what appending and compacting do) and about repeated steps |
| `DurableDocument` | abstract: what a state directory promises |
| `NodeStore` | a component's state directory, one step per file operation; implements `DurableDocument` |
| `NodeStoreProofs` | the refinement of `DurableDocument`, the record log, the catch-up |
| `EpochJournal` | the controller's journal beside its state file, one step per write |
| `EpochJournalProofs` | the theorems about it |
| `FabricServer` | the threads of the server, one step per critical section, blocking call or test of `stopping_` |
| `FabricServerProofs` | the theorems about it, for any number of clients and workers |
| `Migration` | documents, the migration functions, chains forward and backward, the migration journal |
| `Manifest` | `validate`, the migration path, the check of evidence, `negotiate_group`, as operators |
| `Admission` | the way of a manifest from plan to readiness and back, composing the two |
| `AdmissionProofs` | the theorems about admission, negotiation and migration, for manifests and documents of any size |
| `MCAuthorityRegistry`, `MCEvolution`, `MCNodeStore`, `MCAdmission` | instances for TLC |

`Evolution` extends `ShardAuthority`, `ControlPlaneNode` and `HandoffCampaign`, so the registry that is
proved about is, operator for operator, the one the controller uses.

**State.** `ctl.mem` is what the controller holds and `ctl.disk` what `save_state` last wrote;
`Save(c)` stands exactly where the code saves. `ctl.pc` names the call about to be made
(`"fence"`, `"transfer.deliver"`, ...), and `src`, `tgt` are the component reports `bind_nodes` collected,
which go stale as the operation proceeds. A component's document is the sequence of writes applied to
it: its length is the log position, `base` is where the compacted log begins, `saved` how much of it
the state file covers. A write carries the schema its effect is expressed in and the incarnation that
accepted it. `Incarnation` is component and boot counter. Tokens are numbers, since `mint_token` never
repeats one.

**Actions.** Each operator command (`Plan` ... `Reconcile`) is an action; each call the controller
makes is one (`SourceReport`, `EnsureDeliver`, `CatchUpApply`, ...) and covers everything the code
does until the next call: registry changes, saves, phase records, early returns. `Call` gives the
possible fates of a call: answered; failed with the request lost, with the answer lost, or with the
request executed later (`late`, `ExecuteLate`); or the controller dies after the component executed
it. `ControllerRestart` is `open` on the saved state, `NodeRestart` the component's. `ClientWrite` uses the
component's current claim: `node.write` refuses every other one.

**Abstractions of `Evolution`.** One shard: shards share no state. JSON, digests, wording, I/O errors and the epoch
journal (written, never read back into the state) are left out; files, journal and I/O errors are in `NodeStore` and
`EpochJournal`. Preflight's negotiation and plan's admission are taken to succeed; they are in `Admission`. A migration changes the form of every entry it finds; whether
its path has an irreversible step is `ctl.irreversible`. A component's handler is one step, as it runs
under the node's mutex; a crash *inside* a handler is not modelled, except that a batch which stops
half-way leaves its prefix in memory only. Controller and components read one clock; on real hosts
they may differ, which the models do not cover.

**`NodeStore`.** `mem` is the process (document, `records_`), `file` its directory, `pc` the file operation under way. A handler
is a chain of operations: append to the log, compact it if it is too long, refresh the backup, rename the new image into
place, answer. The document is the sequence of writes applied, as in `Evolution`, and every write is a value of its own, so
that a record in the wrong place shows. An operation that does not complete leaves what the system call may leave
(`Interrupted`): an append part of a record, or all of it when only the flush behind it fails, the copy of the backup likewise,
the others nothing, as they write beside the file and rename. An I/O error ends the handler with memory as it is; a crash ends the process. The refinement
mapping takes what `load_state` would return as `committed`, the document in memory as `visible`, and `pc # "down"` as `up`.
A crash is the death of the process; what a power failure does to data the disk has not written is not modelled.

**`EpochJournal`.** The kinds of requests differ in where the event is appended: `apply_action`, `record_phase` and the like change
memory, append, save; a grant is delivered first, and `ensure_holder_authority` ignores the result of the append; a fence
request, a renewal or a deferral is saved without an event. `reconcile_incarnations`, which comes first in a request, journals the
revocation of a lease whose holder was replaced and saves nothing (`controller.cpp:1069`); the request goes on (`resume`), and may end
in an error that is none of a file with the revocation still unsaved (`GiveUp`), or add a transfer and its phase before the save.
There is nothing to revoke again until a lease was granted, which saves, so `held` is kept.

**`FabricServer`.** A lock is never held over a blocking call, so a critical section is one step. `notify_one` wakes one sleeping
worker of the scheduler's choice, a worker may also wake for no reason, and the copy of the socket handles and their
shutdown are two steps, as the lock is released in between. `CloseWakes` is the platform: on Linux `close` does not end an
accept blocked on the socket.

**`Admission`, `Manifest`, `Migration`.** A manifest is a record with its components, steps, rollback strategy, protocol path and
evidence; identifiers and texts that must only be present, digests of the manifest itself, and sizes are taken as met. A
value is a sequence of tokens, so that wrapping, unwrapping and changing case do what they do to a string. The registry's
decisions are arbitrary when the manifest is planned; no later step reads them.

## 3. Runs

Every property is also checked against a mutant of the code that must break it.

| Run | Faults and inputs | Properties |
|---|---|---|
| `registry` | two holders, both modes, restarts from an older snapshot | `TypeOK`, `SingleSlotHolder`, `IncumbentCurrent`, `FencingCanComplete`, `SingleAcceptedClaim`, `LiveLeaseKept`, `EraMonotonic`, `StaleStaysStale` |
| `evolution_faults` | one failed call, one controller crash (between or inside calls), leases expiring, reconcile at any time | `SingleWriter`, `NoLostWrite`, `PhaseIsReal`, `NobodyUnfenced` |
| `evolution_restarts` | each component restarts up to twice | `TypeOK`, `SingleWriter`, `NoLostWrite`, `FenceSettled` |
| `evolution_replication` | compaction under the reader, one request executed late | `AppliedOnce` |
| `evolution_abort` | pause, resume, abort at every phase, a second plan, reversible and irreversible migrations, a window that runs out | `SingleWriter`, `AbortRestores`, `NoRollbackPastBoundary` |
| `evolution_progress` | fair driver, leases to be renewed, writes and reconciles in between | `CampaignCompletes`, `FencedGetsOwner` |
| `store` | the process dies twice in any file operation, one operation fails, the state file is damaged once | `TypeOK`, `AckedSurvives`, `ImplementsDurableDocument`, `LogAgrees`, `NoHole` |
| `journal` | one crash, one failed write or flush, nine decisions of every kind, revocations that nothing saves | `JournalFirst`, `LossReported`, `GrowthPerBoot` |
| `server` | two clients, two workers, a queue of one, `stop` at any moment, with and without a deadline | `TypeOK`, `OneOwner`, `ReadersWoken`, `QueueServed`, `StopCompletes` |
| `admission` | some seven hundred manifests, 179 of them admissible, seven documents, components other than declared, both evidence policies | `TypeOK`, `DeclaredNegotiates`, `NegotiatedSafe`, `ReadyRanThePath`, `RoundTrip` |

**Bounds.**
- `registry`: `MaxCounter = 4` lets one holder be granted, fenced and replaced (three generations) and then puts the
  counters at their limit; `MaxFenceHistory = 1` trims on the second fence; a ttl above the maximum is offered as well.
  Two holders and three tokens give an incumbent with a reader, a hand-over, and a restart that reissues a lease id handed
  out before; with `MaxLeaseHistory = 2` the third lease pushes out the first, live or not. Longer histories are covered by
  the proofs. 564201 states.
- `evolution_*`: one or two client writes tell "copied" from "not copied" on both sides of each call; `MaxWrites = 4` with
  `MaxLog = 2`, `MaxBatch = 2` makes the log compact past a reader and a catch-up take several rounds. `MaxRestarts = 2`
  with two restarts per component goes past the limit on handoff restarts (the code's is larger; it only counts).
  `MaxTime = LeaseTtl` lets a lease granted at the start run out; in `evolution_abort` `MaxTime < LeaseTtl`,
  as a predecessor whose lease ran out on its own is not a writer whatever the abort does. `WindowOps = 1` with two writes
  exhausts the window, 0 switches it off, as in the code. In the passing runs the final catch-up has rounds enough
  (`MaxWrites <= MaxRounds * MaxBatch`), as it has with the default options.
- `MaxProbes` bounds the verification writes a component accepts, through the guard of `Advance`:
  `advance_verify` writes a probe every time it is repeated.
- `store`: `MaxLog = 2` compacts on the third record, three writes and a snapshot give a log before, in and after a compaction, and
  two crashes let a torn record be followed by appends of a second process and be met by a third. One failed
  operation of any kind and one damaged image: with two of each the order of the steps is no longer what is tested.
- `journal`: `Capacity = 2` compacts on the fifth event. Nine decisions fill the file to the edge of a compaction, crash, and let the
  process that trimmed it in memory only fill it again: the bound of `GrowthPerBoot` after a crash (8 records, untorn) is
  reached, as are the bounds of `JournalFirst` (a lead of 4 between requests and of 6 in one, after a crash). 3042926 states.
- `server`: a queue of one is full as soon as both workers are busy or asleep at the wrong moment; two requests against
  `MaxRequests = 1` reach the limit of a connection; two workers are what it takes for one to be missed by a notification.
- `admission`: chains of up to three steps cover every function, every pair of functions that touch one field, the wrong order, a
  step beside the path, one beyond the target, a boundary, and evidence bound to a state. `MaxFields = 3`, `MaxValue = 4` and
  documents with three fields put the limits within reach of one step; `JournalCapacity = 2` drops an entry on the second
  attempt.
- The clock stops at `MaxTime`, so liveness violations are kept only where the cause does not depend
  on time.

Deadlock checking is on, as an operator can always call `Reconcile`, except where the system may stop: a server that was stopped,
a manifest that failed or was taken back.

**What the runs of the lower layers show.** An acknowledged write is in what a restart loads, whatever operation the process dies in and
whichever fails, because the old image stays until the new one is renamed over it and the backup is only taken from an
image that verifies; so the directory implements one durable document. The record log is weaker: it never contradicts
the document as long as processes only die, and a process can serve every position since its start (`NoHole`), which is
what a handoff relies on. The journal leads the state file by no more than one unsaved revocation between requests, by three
decisions in a request (that revocation, a transfer, its phase), and by three more for every crash that lost them. In the server no open
socket is without an owner or with two, no wakeup is lost, and `stop` can only wait for a blocked accept. The negotiation
of preflight never fails for components that are what an admitted manifest declares; preflight may still refuse, as it
also resolves every declared step (`resolve_migration_step`, `controller.cpp:860`). A successor that is ready
has run the admitted path and no other step. Backward undoes forward where every step found its fields.

**Fairness of `FabricServer`.** Weak fairness of every server thread: threads run. None for clients, for the caller of `stop` or for
spurious wakeups. `QueueServed` needs the deadline: without it a silent client keeps a worker for ever.

**Fairness of `Evolution`** (`FairSpec`, in `evolution_progress`). Weak fairness of the
controller's steps: an operation that has begun makes its next call, since every call has a deadline. Weak
fairness of the clock. Strong fairness of `Preflight`, `Start` and `Advance`: whoever drives the campaign keeps
calling, as `run_to_completion` and the documented operator loop do; strong because other operations in
between disable them for a while. Nothing is assumed of clients, faults, pause or reconcile.

### Where code and documents disagree

| Run | What happens |
|---|---|
| `evolution_two_writers` | successor restarts before the transferring grant, accepts it, controller dies before recording it; the rewind grants the predecessor while the successor serves |
| `evolution_mixed_forms` | records written between migration and fence reach the successor in the final catch-up and are applied, unmigrated, to migrated state |

Each passing run leaves out exactly the combination that these and the following show: `evolution_faults` has no component
restarts, `evolution_restarts` no lost calls or crashes, `evolution_abort` no failed calls, and none has too few rounds.

Further disagreements were met with the same modules under other constants, or while translating; they are not kept as runs.

Registry and handoff:
- With more shared leases than the lease history holds, two mutating leases can be live at once: `grant` trims the history whatever
  it drops (`authority.cpp:395`), shared leases push a live mutating lease out, and the slot is granted again; `authority.hpp:12` says
  "A mutating lease is only granted to a new holder once the previous holder's lease is Fenced (acknowledged), Expired or
  Revoked". `LiveLeaseKept` says that this is the only way: what is left must be a full history of shared leases. The controller
  grants none.
- With one restart of the successor after the fence, `NobodyUnfenced` fails: the handoff is rewound to `Prepared` and the same
  operation grants the fenced predecessor authority again (`controller.cpp:1089`); `controller.cpp:2009` says "A predecessor that
  has already been fenced must never be re-granted authority", `ARCHITECTURE.md:147` "without unfencing anyone".
- With fewer rounds than the fenced predecessor has records to send (`MaxRounds = 1`, `MaxBatch = 1`, `MaxWrites = 2`, nothing fails), `NoLostWrite` fails:
  the loop of the final catch-up ends when its rounds are used up, the successor is granted authority without the rest, and the
  predecessor's position is recorded as reached (`controller.cpp:1496`, `1530`); `ARCHITECTURE.md:132` has "A final catch-up against the now-stable predecessor,
  then a new generation and token are granted". With the default options 128 rounds of 256 records (`controller.hpp:69`) carry the 20000
  records a log may hold (`node.hpp:141`), but nothing compares the three. `WritesArePreserved` (section 4) says that this is all it takes.
- With a lost answer to the transferring grant and `Abort`, `SingleWriter` fails: the lease is revoked in the registry only
  (`controller.cpp:1554`) and the predecessor granted: two writers until the successor's lease expires or it is retired;
  `README.md:99` says "At most one mutating authority per shard".
- With a window that runs out between fence and transfer, `FencedGetsOwner` fails: the pause is deferred but every `advance`
  returns at the window check (`controller.cpp:1719`); `campaign.cpp:131` gives as the reason for deferring "pausing here could
  leave a shard without an owner".
- With `Failures = {"late"}`, `NobodyUnfenced` fails: a renewal given up by the controller and executed after
  the fence puts the predecessor back to serving (`node.cpp:1239`); executed after the transfer, it makes two writers.
- With one lost answer and `Abort`, `AbortRestores` fails: the fence is open in the registry, the grant is
  refused, the successor is retired and nobody owns the shard (`controller.cpp:1929`).
- With one lost answer to `migrate` and an irreversible step, `NoRollbackPastBoundary` fails: the crossing is
  recorded from the answer only (`controller.cpp:1320`).
- With one controller crash, `FenceSettled` fails: `reconcile` records `PredecessorFenced` from a report and
  leaves the fence open, which blocks the transfer until the lease expires (`controller.cpp:2047`); this is why
  `FenceSettled` is not in `evolution_faults`.
- With one controller crash and fairness, `CampaignCompletes` fails: `Running` is saved before there is a handoff
  record; `start`, `resume` and `advance` are then refused, `pause` followed by `start` recovers (`controller.cpp:1806`).
- With `MaxTime = 3`, `LeaseTtl = 2`, `FencedGetsOwner` fails: a call longer than the lease leaves the predecessor's
  claim unrecorded, and the final catch-up has none to present (`controller.cpp:1842`).
- In the registry, the generation itself does go back, to 1, in `advance_epoch` (`authority.cpp:572`), where
  `authority.hpp` says it is strictly monotonic; what holds is `EraMonotonic`. And a grant to the holder of a
  restored lease attests it without a token (`authority.cpp:311`).

State directory and journal:
- A write whose append fails has taken a log position without a record (`node.cpp:508`): the catch-up that reaches it does not get on.
- A failed truncation or save in `install_snapshot` leaves memory with the new document and the file with the old one; records
  appended then continue a document that a restart does not find, and those at a position the old document has come back as
  its records.
- After the state file is damaged, the backup brings back an older document, and `load_records` drops acknowledged records
  as ones that were "never acknowledged" (`node.cpp:424`). The node does not look at `from_backup`, which `ARCHITECTURE.md:197` calls
  "reported ..., never silent". A state file that is missing altogether is a fresh directory, backup or not.
- `epoch_log.hpp:5` says every decision "is appended to a durable journal before it is acknowledged: authority grants, fence requests
  ...": grants are delivered before, the result of journaling one is ignored (`controller.cpp:797`), fence requests are not
  journaled, and after a failed append the next save makes the decision durable. The other way round, the revocation of a replaced
  holder is journaled and not saved: a restart brings the lease back, until the replacement is noticed again (`controller.cpp:1069`).
- `epoch_log.hpp:7` says "The log is bounded": compaction is triggered by the events in memory, which a replay trims without
  touching the file, so the file grows with every restart (`GrowthPerBoot`), until the reader's own limit makes `open` fail.

Server:
- `transport.cpp:477` closes the listener with the comment "wakes a blocked accept", which `close` does not do on Linux, one of the
  supported platforms (`README.md:122`): `stop` waits until a client connects. With `CloseWakes = TRUE` `stop` always completes.
- Connections in the queue that `stop` destroys stay registered, so `shutdown_all_sockets` shuts down numbers that may belong to
  other sockets by then. A second caller of `stop` returns while the first is still waiting. `receive_frame` keeps the first of
  several frames received at once and drops the others. `max_requests_per_connection` is tested after the receive: one
  request more is read, and not answered.

Admission and migration:
- `ARCHITECTURE.md:104` says "migration steps form a contiguous chain"; `validate` only needs that a path can be found by following
  the first step from each version, and all declared steps are sent in declared order. Steps in another order, or beside the
  path, are admitted and never migrate. A step beyond the target is run as well: the successor is then never ready, and
  may have crossed a boundary under `rollback_to_predecessor`. `ReadyRanThePath` is what readiness saves of it.
- `migration.cpp` says before the reversal "Each reversible function has an exact inverse; a function without one can never be
  marked reversible". `lowercase_field` or `remove_field` marked reversible is admitted; `add_field` over a field that was
  there, and an optional rename that found nothing, do not come back (hence `CleanRun` in `RoundTrip`).
- Under the refresh policy the campaign keeps the evidence in the manifest although the registry's has moved on (hence the exact
  policy in `NegotiatedSafe`).

## 4. Proofs

Every theorem is `Spec => []P` or `Spec => A`. For all but five the `P` or `A` is a property some run checks: the run shows it on a small
instance, the theorem for every value of the constants, or for every value under a named condition on them
(the theorems about handoffs). Four of the five are invariants from which others follow: `RegistrySound`,
`EvolutionInvariant`, as part of it `ControllerRecordSound`, and `HandoffInvariant`; the fifth is `MutatingGrantsDropNothingLive`. The proofs assume only the named `ASSUME`s of the modules: widths and limits are
naturals (positive where the code divides by them or would keep nothing), inputs have the types parsing gives them, `None`
is not a connection, lower case of a token is a token.

**The registry's states** (`AuthorityRegistryProofs`; `BoundsAssumption`, `InputsAssumption`). `RegistrySound` is the inductive invariant, of memory and
of the saved snapshot. From it, `TypeCorrect`, `SlotIsExclusive`, `IncumbentStaysCurrent`, `FencingNeverStrands`
(`TypeOK`, `SingleSlotHolder`, `IncumbentCurrent`, `FencingCanComplete`) and `ClaimIsExclusive` (of all claims ever handed out at
most one is accepted for mutation).
None of these is inductive alone. A mutating grant is refused only if the slot is taken, so
exclusivity needs that what is in the slot before the grant is what `active_mutating` finds
(`SlotLeases` after expiry equals `SlotIds`, `ExpireKeepsSound`). That a Fencing lease keeps its
fence although the fence history is trimmed rests on exclusivity: only the incumbent's fence is
outstanding for a Fencing lease, it is the newest, and trimming drops the oldest (`OldestIsMember`,
`PushedKeepsNewest`). A restart makes the snapshot current, so the invariant `Sound` is stated of a
record and holds of `auth` and `disk` alike. There is a lemma per
operation (`...KeepsSound`, in `ShardAuthorityProofs`), most by way of `ReleasesKeepSound`: whatever only moves leases out of the slot keeps the
record sound.

**The registry's steps** (`AuthorityRegistryProofs`). `EraNeverGoesBack` (`EraMonotonic`) and `StaleForGood` (`StaleStaysStale`). Every operation is shown to
*follow* the record it starts from: the era does not go back, every lease there is was there with the same claim and is not
live again, except the one it issues (`Follows`, a lemma per operation). The second theorem does not follow from the first: a
restart from an older snapshot leaves claims in the world that are ahead of the registry, which then counts up to the same
epoch, generation and lease id. The invariant `Tracking` says what keeps them out: tokens are never reissued, so a lease with
the token of a claim carries exactly that claim, in memory and in the snapshot.
`LimitSparesTheLive` (`LiveLeaseKept`) is about the lease the history drops. It is the oldest, so the invariant is `SharedAfter`: all that
was granted after the lease in the slot is shared, as a mutating grant needs the slot free. Then whatever is left when that
lease falls out is shared, and there is a full history of it (`IssuedTrims`). `MutatingGrantsDropNothingLive`: if no shared lease
is granted, nothing live falls out at all. All four grants of the controller are for mutation (`controller.cpp:729`, `767`, `1536`, `1931`),
so the hypothesis is met by the system as it is.

**The composition, under any faults** (`EvolutionProofs`; `EvolutionAssumption`, `NodeAssumption`, `BoundsAssumption`, `WindowAssumption`). The constants that
bound failed and late calls, crashes and restarts are arbitrary, so these theorems hold under any faults. `EvolutionInvariant` is the inductive invariant `EvolutionInv`; from it `EvolutionTypeCorrect`
(`TypeOK`), `NoWriteAppliedTwice` (`AppliedOnce`) and `ControllerRecordSound`: the record in the controller's memory and the one it
saved satisfy `Sound`, so that what is proved of the registry alone (one lease in the slot, the incumbent current, its fence
completable) holds in the controller's hands too. The invariant has three parts.

- *Documents* (`NodesInv`, `Replicated`). A component recognises a record it has by its position alone. That no write is
  applied twice rests on the source: its document only grows, holds no client's write twice, and its state
  file always covers all of it, so that a restart loses nothing. Every entry of the target's document is the source's at the same
  position (`Copy`, `Blend`) or one the source has nowhere, a write the target accepted itself or a probe.
- *What is on its way* (`Proper`). A snapshot is a copy of a prefix of the source's document, a batch a `Segment` of it that names its first
  position. Since the source only grows they stay so however late they arrive, which is why a request executed after it was
  given up does no harm, and why `ExecuteLate` needs no case of its own.
- *The controller* (`Fine`). `Base` says what holds wherever it is (memory and saved state well formed, the record `Sound`), `Stage` what
  holds at each `pc`: which claim, snapshot, batch or report is at hand for the call about to be made. There is a lemma for each
  function of the controller between two calls (`FenceStepIsFine`, `CatchUpRoundIsFine`, `GrantThenIsFine`, ...), and `Exchanged` covers
  the fates of a call once for all actions.

**Handoffs whose components stay up** (`EvolutionProofs`). `OneWriter` (`SingleWriter`), `FencedStaysFenced` (`NobodyUnfenced`), `FenceIsSettled`
(`FenceSettled`), `WritesArePreserved` (`NoLostWrite`) and `PhaseMatchesFacts` (`PhaseIsReal`): what the handoff protocol is for. They hold for any
number of lost requests, lost answers and controller crashes, at any call and in any order, for leases that run out wherever they are, and for
plans, pauses and reconciles at any time; writes, log, batches, rounds and clock have any size. They suppose

- `Steady`: components do not restart, no request is executed after the controller has given it up, and no campaign is rolled
  back. Section 3 shows that `SingleWriter` is false without each of the three, so this is where the code's guarantee ends and not where the
  proof does;
- `Enough` (for the last two): the rounds of the final catch-up can carry what the predecessor's log may hold, as they can with the default
  options, or what clients write at all; section 3 has what happens without it;
- `Settling` (for `FenceIsSettled`): nothing fails, or nobody reconciles, for the reason in section 3.

The invariant is `SafetyInv`, beside `EvolutionInv`; `HandoffInvariant` states it. TLC checked it before it was proved, on the instances of
`evolution_faults` and larger ones. Its parts:

- *What the controller remembers* (`Ordered`, `Recoverable`). The handoff is the one between the two processes; a campaign that is not under way has
  no handoff under way; and a restart of the controller finds the phase and the fences it knew, but for the very first phase. So a
  crash anywhere is no case of its own: it leads to an idle controller that knows the same.
- *What that says of the components* (`Truthful`). From `PredecessorFenced` on the source has stopped; the target has authority only then,
  and has it from `AuthorityTransferred` on. The difficulty is the source that has stopped while the phase does not say so, because
  the answer to the fence was lost: then a fence of it is open in the registry, and that, not the phase, is what keeps
  `ensure_holder_authority` from granting it authority again. There is at most one such fence.
- *What each call relies on* (`Course`). The reports an operation has collected are still true where they are used (`SourceKnown`, `TargetKnown`),
  authority is delivered only to whom it is due (`Served`), and in the final catch-up what the target lacks fits the rounds
  that are left, or its next batch is refused because the log does not reach back to it (`Finishing`).
- *Where the writes are* (`Preserved`). Until the target has authority its document is a copy of a part of the source's, which has every
  acknowledged write; afterwards the target's has them, and its state file covers it. The source's log is never empty while it
  has served anything: an empty answer would end the final catch-up.

There is a lemma for each function of the controller between two calls (`FenceStepIsTame`, `EnsureHolderIsTame`, `TransferRoundIsTame`, ...), one for what
each request does to a component (`GrantServes`, `ReadsOn`, `AcceptedInFull`, ...), and one for each group of actions (`...IsSafe`, `...AreSafe`).
Most functions change nothing of this; `Beside` is the relation between controller states that differ in nothing the invariant mentions, and is
what those lemmas prove.

**The state directory** (`NodeStoreProofs`; `StoreAssumption`). `StoreImplementsDurable`: every file operation, failed or cut short anywhere, is a
step of `DurableDocument` or a stutter, from the invariant `Stored`: an intact image is one that was saved, and only the medium
damages the state file. `AckedWritesSurvive` carries `AckedDurable` over, through `AckedDurableKept`, proved of the abstract
steps. `StoreTypeCorrect`. `LogNeverContradicts` (`LogAgrees`) needs the invariant `LogInv`: the log is compared with the document
in memory *and* with the one on disk, which differ while a snapshot is being installed, and what cannot be read behind a torn record
does not count although it is still in the file. `CatchUpHasNoHole` (`NoHole`) needs `Contiguous`, which counts from the end of the
records, since compaction and damaged tails take from the front.

**The journal** (`EpochJournalProofs`; `JournalAssumption`). `JournalLeads` (`JournalFirst`) from `Led`, which says at each step of a request which of
its decisions are journaled and how far the journal is ahead of the file (one revocation while nobody holds the slot, nothing otherwise, and
what the request has added); `NoSilentLoss` (`LossReported`) from `Kept`, by which file, memory and history agree counted
from the end, one record apart at most when a flush has failed, unless the damage was reported; `GrowthIsPerBoot` (`GrowthPerBoot`) from
`Grown`. The capacity is at least 2 (the code's is 4096): the recent half and the record that a failed flush has left must fit into it.

**The server** (`FabricServerProofs`; `ServerAssumption`). `ServerTypeCorrect`; `SocketsHaveOneOwner` (`OneOwner`), which counts holders, from
`Ownership`, which does not: no two places hold the same connection, and the sockets that are open are those held somewhere;
`StopReachesReaders` (`ReadersWoken`) from `Registered` and `Stages`, what `stop` has established when it comes to
each of its steps, although sockets are accepted while it runs.

**Admission and migration** (`AdmissionProofs`; `MigrationAssumption`, `AdmissionAssumption`, `InputsAssumption`). The invariant `IndInv` says what each phase of a campaign
has established: the manifest is admitted, the negotiation is that of the two hellos, the document is what the declared steps make of the
snapshot, the journal notes them, a downgraded document is the snapshot.
`AdmissionTypeCorrect`; `AdmissionSuffices` (`DeclaredNegotiates`); `NegotiationSafe` (`NegotiatedSafe`);
`ReadyMeansMigrated` (`ReadyRanThePath`), from `ChainIsPath`: steps that take a document from the source schema to the target schema in
the declared order are the path that `validate` found, as each step starts where the last ended and every step of a
valid manifest raises the version, so that no two of the chain leave the same one; `DowngradeRoundTrips` (`RoundTrip`), from `ReverseUndoes`, that each reversible function
is undone by its reverse when it found its fields, and `MigrationUndone`, that chains of them are.

**Induction.** The library's induction theorems have an operator for a parameter, which the provers do not instantiate. Where
a proof needs induction it goes over a *set* of numbers: `UpTo` (a set that holds 0 and is closed under successor up to `n` holds
all of `0..n`) and `LeastElement`, both from the well-foundedness of the naturals (`WFMin`), and `Iteration`, that a step given as a function
of the pair of index and state has a sequence of results. `migrate_forward`, `migrate_backward` and the reading of a
torn log are reasoned about this way.

**Only model-checked.**
- `Evolution` with restarts of the components and without lost calls or crashes (`evolution_restarts`): `SingleWriter`, `NoLostWrite` and
  `FenceSettled` are proved for components that stay up only. A handoff that is rewound grants the fenced predecessor again, so the invariant
  above does not carry over.
- `AbortRestores` and `NoRollbackPastBoundary` hold when no call fails and are false otherwise (section 3); rollback is outside `Steady`.
- Liveness (`QueueServed`, `StopCompletes`, `CampaignCompletes`, `FencedGetsOwner`): outside the prover's reach, as is `ENABLED`.

## 5. Not modelled, and the plan

Not modelled: JSON, digests, identifiers, explanations and the command-line tools (conversions
without state); the bytes of a frame; fault injection; the lock file; power failures that lose what the disk has not written
(the code has no `fsync` of directories); handle numbers the system uses again; clocks that differ between hosts.

Planned:

- Liveness with component restarts (the hazard at `controller.cpp:1010`).
