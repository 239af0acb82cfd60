-------------------------- MODULE ControlPlaneNode --------------------------
(***************************************************************************)
(* A control-plane component under evolution (src/src/node.cpp): its state, *)
(* and what each request it serves makes of that state.                     *)
(*                                                                          *)
(* The document is the sequence of writes applied to it, so the log         *)
(* position is its length, and the record log is its tail past `base`: a    *)
(* snapshot or a compaction moves base up.  A write keeps the schema its    *)
(* effect is expressed in (form) and the incarnation that accepted it.      *)
(* `saved` is the part of the document the state file covers; a handler     *)
(* runs under the node's mutex and, but for the two cases modelled, ends    *)
(* with save_state.  I/O errors are left out.                               *)
(*                                                                          *)
(* Every handler returns whether it succeeded, the node afterwards and the  *)
(* body of the answer.                                                      *)
(***************************************************************************)
EXTENDS Integers, Sequences, FiniteSets

CONSTANTS
    SourceSchema,  \* the manifest's source.schema
    TargetSchema,  \* the manifest's target.schema
    LeaseTtl,      \* lease_ttl_ms
    MaxBatch,      \* max_records_per_response
    MaxLog         \* max_log_records

ASSUME NodeAssumption ==
    /\ {SourceSchema, TargetSchema, LeaseTtl, MaxBatch, MaxLog} \subseteq Nat \ {0}
    /\ SourceSchema <= TargetSchema

NoLease == [token |-> -1]
NoBinding == [token |-> -1]

\* A node started on an empty directory with --schema.
FreshNode(schema) ==
    [boot |-> 1, doc |-> <<>>, base |-> 0, saved |-> 0, schema |-> schema,
     lease |-> NoLease, confirmed |-> FALSE, life |-> "Serving", retired |-> FALSE,
     lastFence |-> 0, expected |-> NoBinding]

Lsn(n) == Len(n.doc)

Ok(n, body) == [ok |-> TRUE, node |-> n, body |-> body]
Deny(n) == [ok |-> FALSE, node |-> n, body |-> 0]

Saved(n) == [n EXCEPT !.saved = Len(n.doc)]

----------------------------------------------------------------------------
(* Authority *)

\* What the node reports as has_authority.  The lifecycle does not enter into it.
HasAuthority(n, now) == n.lease # NoLease /\ n.confirmed /\ now < n.lease.expires

\* require_authority, the part that does not depend on the claim.  The controller grants
\* nothing but mutating leases.
MayMutate(n, now) == n.life \notin {"Fenced", "Retired"} /\ HasAuthority(n, now)

\* require_authority: the claim is the node's own current one.
ClaimMatches(n, inc, claim) ==
    /\ claim.holder = inc
    /\ claim.epoch = n.lease.epoch
    /\ claim.generation = n.lease.generation
    /\ claim.token = n.lease.token

Report(n, inc, now) ==
    [inc |-> inc, lsn |-> Lsn(n), schema |-> n.schema, life |-> n.life,
     hasAuthority |-> HasAuthority(n, now), lease |-> n.lease]

----------------------------------------------------------------------------
(* Document and log *)

\* append_record_entry: compaction keeps the newer half of a log that outgrew its bound.
Appended(n, entry) ==
    LET doc  == Append(n.doc, entry)
        keep == IF MaxLog \div 2 = 0 THEN 1 ELSE MaxLog \div 2
    IN  [n EXCEPT !.doc = doc,
                  !.base = IF Len(doc) - n.base > MaxLog THEN Len(doc) - keep ELSE n.base]

\* Mutant: a write is answered before the state file covers it.
Write_Unsaved(n, inc, claim, value, now) ==
    IF MayMutate(n, now) /\ ClaimMatches(n, inc, claim)
    THEN Ok(Appended(n, [value |-> value, origin |-> inc, form |-> n.schema]), 0)
    ELSE Deny(n)

Write(n, inc, claim, value, now) ==
    IF MayMutate(n, now) /\ ClaimMatches(n, inc, claim)
    THEN Ok(Saved(Appended(n, [value |-> value, origin |-> inc, form |-> n.schema])), 0)
    ELSE Deny(n)

\* read_since: at most MaxBatch logged records past from.  The log counts as truncated
\* only when it holds something and the reader is past the start.
ReadSince(n, from) ==
    LET first == IF from > n.base THEN from ELSE n.base
        last  == IF first + MaxBatch < Lsn(n) THEN first + MaxBatch ELSE Lsn(n)
    IN  Ok(n, [first |-> first + 1,
               entries |-> SubSeq(n.doc, first + 1, last),
               lsn |-> Lsn(n),
               truncated |-> from # 0 /\ n.base # Lsn(n) /\ n.base > from])

\* Mutant: the position of a record is not compared with the log's.
Fitting_AnyPosition(n, batch) ==
    {k \in 0..Len(batch.entries) : \A i \in 1..k : batch.entries[i].origin = n.expected.holder}

\* The records of a batch are applied one by one until one does not fit; only a batch that
\* fits entirely reaches the state file.
Fitting(n, batch) ==
    {k \in 0..Len(batch.entries) :
        k = 0 \/ /\ batch.first = Lsn(n) + 1
                 /\ \A i \in 1..k : batch.entries[i].origin = n.expected.holder}

AppliedPrefix(n, batch, k) ==
    LET grown[i \in 0..k] == IF i = 0 THEN n ELSE Appended(grown[i - 1], batch.entries[i])
    IN  grown[k]

ApplyRecords(n, binding, batch) ==
    LET k == CHOOSE i \in Fitting(n, batch) : \A j \in Fitting(n, batch) : j <= i
    IN  IF n.expected = NoBinding \/ n.expected # binding THEN Deny(n)
        ELSE IF k = Len(batch.entries)
             THEN LET m == Saved(AppliedPrefix(n, batch, k)) IN Ok(m, Lsn(m))
        ELSE Deny(AppliedPrefix(n, batch, k))

----------------------------------------------------------------------------
(* The handoff's requests *)

PreparePredecessor(n, now) == IF HasAuthority(n, now) THEN Ok(n, 0) ELSE Deny(n)

\* The binding is kept in memory only.
PrepareSuccessor(n, binding) ==
    IF SourceSchema > n.schema THEN Deny(n) ELSE Ok([n EXCEPT !.expected = binding], 0)

Snapshot(n) ==
    IF n.life = "Retired" \/ n.lease = NoLease THEN Deny(n)
    ELSE Ok(Saved(n), [doc |-> n.doc, schema |-> n.schema])

InstallSnapshot(n, snapshot) ==
    IF n.expected = NoBinding \/ snapshot.schema # SourceSchema THEN Deny(n)
    ELSE Ok(Saved([n EXCEPT !.doc = snapshot.doc, !.base = Len(snapshot.doc),
                            !.schema = snapshot.schema]), 0)

\* migrate_forward along the manifest's path, which starts at the source schema.
Migrate(n) ==
    IF n.schema # SourceSchema THEN Deny(n)
    ELSE Ok(Saved([n EXCEPT !.schema = TargetSchema,
                            !.doc = [i \in DOMAIN n.doc |-> [n.doc[i] EXCEPT !.form = TargetSchema]]]), 0)

Readiness(n, lsn) ==
    IF n.expected = NoBinding THEN Deny(n)
    ELSE Ok(n, [ready |-> /\ n.schema = TargetSchema
                          /\ Lsn(n) >= lsn
                          /\ n.life \notin {"Retired", "Fenced"},
                lsn |-> Lsn(n)])

\* Mutant: the fence is acknowledged and not obeyed.
AcceptFence_AcksOnly(n, inc, target, id) ==
    IF target # inc THEN Deny(n) ELSE Ok([n EXCEPT !.lastFence = id], 0)

AcceptFence(n, inc, target, id) ==
    IF target # inc THEN Deny(n)
    ELSE IF n.life = "Fenced" /\ n.lastFence = id THEN Ok(n, 0)
    ELSE Ok(Saved([n EXCEPT !.life = "Fenced", !.confirmed = FALSE, !.lastFence = id]), 0)

\* The lease starts when the request arrives, and whatever the node was, it serves again.
GrantAuthority(n, claim, now) ==
    IF n.life = "Retired" THEN Deny(n)
    ELSE Ok(Saved([n EXCEPT !.lease = [epoch |-> claim.epoch, generation |-> claim.generation,
                                       token |-> claim.token, expires |-> now + LeaseTtl],
                            !.confirmed = TRUE,
                            !.life = "Serving"]), 0)

Reattest(n, token, now) ==
    IF n.lease = NoLease \/ n.lease.token # token THEN Deny(n)
    ELSE IF now >= n.lease.expires THEN Deny(n)
    ELSE Ok([n EXCEPT !.confirmed = TRUE], 0)

Retire(n) ==
    Ok(Saved([n EXCEPT !.life = "Retired", !.retired = TRUE, !.confirmed = FALSE]), 0)

\* Mutant: the lease comes back from the state file as current authority.
Rebooted_KeepsLease(n) ==
    [n EXCEPT !.boot = n.boot + 1,
              !.doc = SubSeq(n.doc, 1, n.saved),
              !.confirmed = n.lease # NoLease,
              !.life = IF n.retired THEN "Retired" ELSE "Serving",
              !.lastFence = 0,
              !.expected = NoBinding]

\* The process dies and is started again on the same directory.  Its lease was saved with
\* lease id 0, which authority_lease_from_json refuses, so it does not come back.
Rebooted(n) ==
    [n EXCEPT !.boot = n.boot + 1,
              !.doc = SubSeq(n.doc, 1, n.saved),
              !.base = IF n.base > n.saved THEN n.saved ELSE n.base,
              !.lease = NoLease,
              !.confirmed = FALSE,
              !.life = IF n.retired THEN "Retired" ELSE "Serving",
              !.lastFence = 0,
              !.expected = NoBinding]

\* dispatch: the state-changing and the reading requests of one endpoint.
Dispatch(n, inc, req, now) ==
    CASE req.op = "status"           -> Ok(n, Report(n, inc, now))
      [] req.op = "prepare_source"   -> PreparePredecessor(n, now)
      [] req.op = "prepare_target"   -> PrepareSuccessor(n, req.binding)
      [] req.op = "snapshot"         -> Snapshot(n)
      [] req.op = "install_snapshot" -> InstallSnapshot(n, req.snapshot)
      [] req.op = "read_since"       -> ReadSince(n, req.from)
      [] req.op = "apply_records"    -> ApplyRecords(n, req.binding, req.batch)
      [] req.op = "migrate"          -> Migrate(n)
      [] req.op = "readiness"        -> Readiness(n, req.lsn)
      [] req.op = "fence"            -> AcceptFence(n, inc, req.target, req.fence)
      [] req.op = "grant_authority"  -> GrantAuthority(n, req.claim, now)
      [] req.op = "reattest"         -> Reattest(n, req.token, now)
      [] req.op = "retire"           -> Retire(n)
      [] req.op = "write"            -> Write(n, inc, req.claim, req.value, now)
=============================================================================
