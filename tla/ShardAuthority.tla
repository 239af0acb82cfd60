--------------------------- MODULE ShardAuthority ---------------------------
(***************************************************************************)
(* The authority record the registry keeps for one shard, and what each     *)
(* registry operation makes of it (src/src/authority.cpp).                  *)
(*                                                                          *)
(* The record's two histories are vectors in the code.  Both are appended   *)
(* at the back under an id that only grows and trimmed at the front, so a   *)
(* history is a function from ids to entries here: push_back adds the next  *)
(* id, erase(begin()) drops the least one, and "the first entry such that"  *)
(* is the entry of least id.                                                *)
(*                                                                          *)
(* Every operation is a function of the record, the time and its arguments. *)
(* It returns the status code, the record afterwards (a refused call may    *)
(* have expired leases on its way) and the id of the lease it returned.     *)
(* Left out: reasons, issue times, attestation_seq and the campaign and     *)
(* handoff labels, none of which any operation reads.                       *)
(***************************************************************************)
EXTENDS Integers, FiniteSets

CONSTANTS
    Incarnation,      \* the component incarnations that may hold authority
    MaxCounter,       \* largest Generation, LeaseId and FenceId: next() fails there
    MaxTtl,           \* kMaxLeaseTtlMs
    MaxLeaseHistory,  \* kMaxLeaseHistoryPerShard
    MaxFenceHistory,  \* kMaxFenceHistoryPerShard
    MaxReadOnly       \* kMaxReadOnlyLeasesPerShard

\* The counters start at 1 and the histories keep at least the entry just added;
\* in the code every one of these is a large positive constant.
ASSUME BoundsAssumption ==
    /\ MaxCounter \in Nat \ {0}
    /\ MaxTtl \in Nat \ {0}
    /\ MaxLeaseHistory \in Nat \ {0}
    /\ MaxFenceHistory \in Nat \ {0}
    /\ MaxReadOnly \in Nat

AuthorityMode == {"None", "ReadOnlyShared", "Mutating"}
LeaseState == {"Active", "Fencing", "Fenced", "Expired", "Revoked"}

Lease == [holder: Incarnation, epoch: Nat, generation: Nat, token: Nat,
          mode: AuthorityMode, state: LeaseState, expires: Nat, attested: BOOLEAN]

Fence == [target: Incarnation, generation: Nat, lease: Nat, acknowledged: BOOLEAN]

\* What a holder presents to prove its authority (AuthorityClaim).
Claim == [holder: Incarnation, epoch: Nat, generation: Nat, token: Nat]

ClaimOf(l) == [holder |-> l.holder, epoch |-> l.epoch,
               generation |-> l.generation, token |-> l.token]

\* establish: the record of a shard nobody has held yet.
Established(epoch) ==
    [epoch |-> epoch, generation |-> 1,
     nextLease |-> 1, leases |-> [i \in {} |-> 0],
     nextFence |-> 1, fences |-> [i \in {} |-> 0]]

----------------------------------------------------------------------------
(* Lease predicates *)

EffectiveState(l, now) ==
    IF l.state \in {"Active", "Fencing"} /\ now >= l.expires THEN "Expired" ELSE l.state

\* Mutant: a lease being fenced no longer holds the slot.
BlocksMutationSlot_FencingReleases(l, now) ==
    l.mode = "Mutating" /\ EffectiveState(l, now) = "Active"

BlocksMutationSlot(l, now) ==
    /\ l.mode = "Mutating"
    /\ EffectiveState(l, now) \notin {"Fenced", "Expired", "Revoked"}

\* AuthorityLease::authorizes_mutation, what a node asks of the lease it holds.
AuthorizesMutation(l, now) ==
    l.state = "Active" /\ now < l.expires /\ l.attested /\ l.mode = "Mutating"

\* Mutant: any live lease admits any request.
ModeAdmits_IgnoresMode(held, required) == held # "None"

\* authority_allows_mutation(required) and authority_allows_read(required) against a lease.
ModeAdmits(held, required) ==
    /\ required = "Mutating" => held = "Mutating"
    /\ required \in {"Mutating", "ReadOnlyShared"} => held \in {"Mutating", "ReadOnlyShared"}

----------------------------------------------------------------------------
(* Histories *)

Oldest(ids) == CHOOSE i \in ids : \A j \in ids : i <= j

\* Mutant: a history that has just become full is trimmed too.
Pushed_OffByOne(history, id, entry, limit) ==
    LET ids  == DOMAIN history \cup {id}
        kept == IF Cardinality(ids) >= limit THEN ids \ {Oldest(ids)} ELSE ids
    IN  [i \in kept |-> IF i = id THEN entry ELSE history[i]]

\* push_back of an entry under id, then erase(begin()) past the limit.
Pushed(history, id, entry, limit) ==
    LET ids  == DOMAIN history \cup {id}
        kept == IF Cardinality(ids) > limit THEN ids \ {Oldest(ids)} ELSE ids
    IN  [i \in kept |-> IF i = id THEN entry ELSE history[i]]

ExpireInPlace(a, now) ==
    [a EXCEPT !.leases = [i \in DOMAIN a.leases |->
        [a.leases[i] EXCEPT !.state = EffectiveState(a.leases[i], now)]]]

\* The leases in the mutation slot; active_mutating returns the oldest.
SlotLeases(a, now) == {i \in DOMAIN a.leases : BlocksMutationSlot(a.leases[i], now)}

\* Active leases of one holder in one mode, and of every reader.
ActiveOf(a, h, mode, now) ==
    {i \in DOMAIN a.leases : /\ a.leases[i].holder = h
                             /\ a.leases[i].mode = mode
                             /\ EffectiveState(a.leases[i], now) = "Active"}

ActiveReaders(a, now) ==
    {i \in DOMAIN a.leases : /\ a.leases[i].mode = "ReadOnlyShared"
                             /\ EffectiveState(a.leases[i], now) = "Active"}

----------------------------------------------------------------------------
(* Operations *)

Refused(a, code) == [code |-> code, auth |-> a, lease |-> 0]
Done(a, id) == [code |-> "Ok", auth |-> a, lease |-> id]

SetLease(a, id, l) == [a EXCEPT !.leases = [a.leases EXCEPT ![id] = l]]

\* A grant to the holder of a live lease renews it: same token, same generation.
Renewed(a, id, expires) ==
    Done(SetLease(a, id, [a.leases[id] EXCEPT !.expires = expires, !.attested = TRUE]), id)

\* The tail of grant: the lease joins the history under the record's generation.
Issued(a, h, mode, expires, token) ==
    IF a.nextLease = MaxCounter
    THEN Refused(a, "BoundsExceeded")
    ELSE LET l == [holder |-> h, epoch |-> a.epoch, generation |-> a.generation,
                   token |-> token, mode |-> mode, state |-> "Active",
                   expires |-> expires, attested |-> TRUE]
         IN  Done([a EXCEPT !.nextLease = a.nextLease + 1,
                            !.leases = Pushed(a.leases, a.nextLease, l, MaxLeaseHistory)],
                  a.nextLease)

GrantMutating(e, h, ttl, now, token) ==
    LET slot == SlotLeases(e, now)
        held == e.leases[Oldest(slot)]
    IN  IF slot # {} /\ held.holder = h /\ held.state = "Active"
        THEN Renewed(e, Oldest(slot), now + ttl)
        ELSE IF slot # {} THEN Refused(e, "AuthorityConflict")
        ELSE IF e.generation = MaxCounter THEN Refused(e, "BoundsExceeded")
        ELSE Issued([e EXCEPT !.generation = e.generation + 1], h, "Mutating", now + ttl, token)

\* Mutant: a shared lease takes a new generation too.
GrantReadOnly_NewGeneration(e, h, ttl, now, token) ==
    IF e.generation = MaxCounter THEN Refused(e, "BoundsExceeded")
    ELSE Issued([e EXCEPT !.generation = e.generation + 1], h, "ReadOnlyShared", now + ttl, token)

GrantReadOnly(e, h, ttl, now, token) ==
    LET own == ActiveOf(e, h, "ReadOnlyShared", now)
    IN  IF own # {} THEN Renewed(e, Oldest(own), now + ttl)
        ELSE IF Cardinality(ActiveReaders(e, now)) >= MaxReadOnly
             THEN Refused(e, "ResourceExhausted")
        ELSE Issued(e, h, "ReadOnlyShared", now + ttl, token)

\* grant, for the two modes the system grants.
GrantResult(a, h, mode, ttl, now, token) ==
    IF ttl = 0 THEN Refused(a, "InvalidArgument")
    ELSE IF ttl > MaxTtl THEN Refused(a, "BoundsExceeded")
    ELSE IF mode = "Mutating" THEN GrantMutating(ExpireInPlace(a, now), h, ttl, now, token)
    ELSE GrantReadOnly(ExpireInPlace(a, now), h, ttl, now, token)

\* Mutant: the lease is renewed as stored, without expiring what is due first.
RenewResult_StoredState(a, id, ttl, now) ==
    IF id \notin DOMAIN a.leases \/ ttl \notin 1..MaxTtl THEN Refused(a, "NotFound")
    ELSE IF a.leases[id].state # "Active" THEN Refused(a, "StaleAuthority")
    ELSE Done(SetLease(a, id, [a.leases[id] EXCEPT !.expires = now + ttl]), id)

\* renew extends a lease without re-attesting it.
RenewResult(a, id, ttl, now) ==
    LET e == ExpireInPlace(a, now)
    IN  IF ttl \notin 1..MaxTtl THEN Refused(a, "BoundsExceeded")
        ELSE IF id \notin DOMAIN e.leases THEN Refused(e, "NotFound")
        ELSE IF e.leases[id].state # "Active" THEN Refused(e, "StaleAuthority")
        ELSE Done(SetLease(e, id, [e.leases[id] EXCEPT !.expires = now + ttl]), id)

OutstandingFences(a, h) ==
    {f \in DOMAIN a.fences : ~a.fences[f].acknowledged /\ a.fences[f].target = h}

\* The holder's lease turns Fencing under a new generation, and a fence records it.
Fencing(e, h, id) ==
    LET f == [target |-> h, generation |-> e.generation + 1, lease |-> id,
              acknowledged |-> FALSE]
    IN  [SetLease(e, id, [e.leases[id] EXCEPT !.state = "Fencing"])
           EXCEPT !.generation = e.generation + 1,
                  !.nextFence = e.nextFence + 1,
                  !.fences = Pushed(e.fences, e.nextFence, f, MaxFenceHistory)]

\* Mutant: the counters are taken past their width.
RequestFenceResult_Overflow(a, h, now) ==
    LET e    == ExpireInPlace(a, now)
        held == ActiveOf(e, h, "Mutating", now)
    IN  IF OutstandingFences(e, h) # {} THEN Refused(e, "DuplicateFrame")
        ELSE IF held = {} THEN Refused(e, "NotFound")
        ELSE Done(Fencing(e, h, Oldest(held)), Oldest(held))

RequestFenceResult(a, h, now) ==
    LET e    == ExpireInPlace(a, now)
        held == ActiveOf(e, h, "Mutating", now)
    IN  IF OutstandingFences(e, h) # {} THEN Refused(e, "DuplicateFrame")
        ELSE IF held = {} THEN Refused(e, "NotFound")
        ELSE IF MaxCounter \in {e.generation, e.nextFence} THEN Refused(e, "BoundsExceeded")
        ELSE Done(Fencing(e, h, Oldest(held)), Oldest(held))

\* Mutant: the fence is marked acknowledged and its lease forgotten.
Acknowledged_LeaseForgotten(a, fence) ==
    [a EXCEPT !.fences = [a.fences EXCEPT ![fence] = [a.fences[fence] EXCEPT !.acknowledged = TRUE]]]

Acknowledged(a, fence) ==
    [a EXCEPT !.fences = [a.fences EXCEPT ![fence] = [a.fences[fence] EXCEPT !.acknowledged = TRUE]],
              !.leases = [i \in DOMAIN a.leases |->
                 IF i = a.fences[fence].lease /\ a.leases[i].state = "Fencing"
                 THEN [a.leases[i] EXCEPT !.state = "Fenced"]
                 ELSE a.leases[i]]]

\* acknowledge_fence neither expires leases nor looks at the time.
AcknowledgeFenceResult(a, h, fence) ==
    IF fence \notin DOMAIN a.fences THEN Refused(a, "NotFound")
    ELSE IF a.fences[fence].target # h THEN Refused(a, "StaleIncarnation")
    ELSE IF a.fences[fence].acknowledged THEN Done(a, a.fences[fence].lease)
    ELSE Done(Acknowledged(a, fence), a.fences[fence].lease)

RevokeResult(a, id) ==
    IF id \in DOMAIN a.leases
    THEN Done(SetLease(a, id, [a.leases[id] EXCEPT !.state = "Revoked"]), id)
    ELSE Refused(a, "NotFound")

ReattestResult(a, h, token, now) ==
    LET e     == ExpireInPlace(a, now)
        match == {i \in DOMAIN e.leases : e.leases[i].holder = h /\ e.leases[i].token = token}
        id    == Oldest(match)
    IN  IF match # {} /\ e.leases[id].state = "Active"
        THEN Done(SetLease(e, id, [e.leases[id] EXCEPT !.attested = TRUE]), id)
        ELSE Refused(e, "StaleAuthority")

\* Mutant: the current epoch is accepted again.
AdvanceEpochResult_NotStrict(a, epoch) ==
    IF epoch >= a.epoch THEN Done([a EXCEPT !.epoch = epoch, !.generation = 1], 0)
    ELSE Refused(a, "StaleEpoch")

\* advance_epoch restarts the generation and revokes what was live; fences stay as they are.
AdvanceEpochResult(a, epoch) ==
    IF epoch > a.epoch
    THEN Done([a EXCEPT !.epoch = epoch,
                        !.generation = 1,
                        !.leases = [i \in DOMAIN a.leases |->
                           IF a.leases[i].state \in {"Active", "Fencing"}
                           THEN [a.leases[i] EXCEPT !.state = "Revoked"]
                           ELSE a.leases[i]]], 0)
    ELSE Refused(a, "StaleEpoch")

\* The lease half of validate_claim.  "Unattested" is a StaleAuthority of its own kind.
LeaseVerdict(l, required, now) ==
    IF EffectiveState(l, now) # "Active" THEN "StaleAuthority"
    ELSE IF ~l.attested THEN "Unattested"
    ELSE IF ModeAdmits(l.mode, required) THEN "Ok" ELSE "NotAuthoritative"

ValidateClaim(a, c, required, now) ==
    LET match == {i \in DOMAIN a.leases :
                    a.leases[i].holder = c.holder /\ a.leases[i].token = c.token}
    IN  IF c.epoch # a.epoch THEN "StaleEpoch"
        ELSE IF c.generation # a.generation THEN "StaleGeneration"
        ELSE IF match = {} THEN "StaleAuthority"
        ELSE LeaseVerdict(a.leases[Oldest(match)], required, now)

\* to_json followed by load: everything comes back except the attestations.
Restored(a) ==
    [a EXCEPT !.leases = [i \in DOMAIN a.leases |-> [a.leases[i] EXCEPT !.attested = FALSE]]]

----------------------------------------------------------------------------
(* What the registry keeps true of a record *)

AuthorityOK(a) ==
    /\ a \in [epoch: Nat \ {0}, generation: 1..MaxCounter,
              nextLease: 1..MaxCounter, leases: [DOMAIN a.leases -> Lease],
              nextFence: 1..MaxCounter, fences: [DOMAIN a.fences -> Fence]]
    /\ DOMAIN a.leases \subseteq 1..(a.nextLease - 1)
    /\ DOMAIN a.fences \subseteq 1..(a.nextFence - 1)

\* The mutation slot as stored, before anything is expired: one lease at most.
SlotIds(a) ==
    {i \in DOMAIN a.leases : a.leases[i].mode = "Mutating" /\ a.leases[i].state \in {"Active", "Fencing"}}

OneSlotHolder(a) == \A i, j \in SlotIds(a) : i = j

IncumbentIsCurrent(a) ==
    \A i \in DOMAIN a.leases :
        a.leases[i].mode = "Mutating" /\ a.leases[i].state = "Active"
          => a.leases[i].epoch = a.epoch /\ a.leases[i].generation = a.generation

FenceIsOutstanding(a) ==
    \A i \in DOMAIN a.leases :
        a.leases[i].mode = "Mutating" /\ a.leases[i].state = "Fencing"
          => \E f \in DOMAIN a.fences : /\ a.fences[f].lease = i
                                        /\ a.fences[f].target = a.leases[i].holder
                                        /\ ~a.fences[f].acknowledged
=============================================================================
