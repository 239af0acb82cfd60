------------------------- MODULE AuthorityRegistry -------------------------
(***************************************************************************)
(* The authority registry as a state machine: who may mutate the shard, as  *)
(* the registry decides it, against any order of calls, the passing of      *)
(* time, and restarts that read back the last saved snapshot.  Shards do    *)
(* not interact (shards_ is a map of independent records), so one is        *)
(* modelled.                                                                *)
(*                                                                          *)
(* tokens and issued are history: the number of tokens minted (mint_token   *)
(* never repeats one) and the claims handed out with a lease.               *)
(***************************************************************************)
EXTENDS ShardAuthority

CONSTANTS
    GrantModes,    \* the modes callers ask for
    Ttls,          \* the ttls callers ask for
    MaxTime,       \* bound on the clock
    MaxTokens,     \* bound on the tokens minted
    MaxEpoch,      \* bound on advance_epoch
    MaxReloads     \* bound on restarts

ASSUME InputsAssumption ==
    /\ GrantModes \subseteq {"ReadOnlyShared", "Mutating"}
    /\ Ttls \subseteq Nat
    /\ {MaxTime, MaxTokens, MaxEpoch, MaxReloads} \subseteq Nat

VARIABLES
    auth,     \* ShardAuthority
    disk,     \* the snapshot last saved, as to_json wrote it
    now,      \* the clock the registry reads
    reloads,  \* restarts so far
    tokens, issued

vars == <<auth, disk, now, reloads, tokens, issued>>

Init ==
    /\ auth = Established(1)
    /\ disk = auth
    /\ now = 0
    /\ reloads = 0
    /\ tokens = 0
    /\ issued = {}

----------------------------------------------------------------------------
(* Steps *)

\* An operation that neither issues a lease nor touches the snapshot.
Apply(result) ==
    /\ auth' = result.auth
    /\ UNCHANGED <<disk, now, reloads, tokens, issued>>

Grant(h, mode, ttl) ==
    LET r == GrantResult(auth, h, mode, ttl, now, tokens)
    IN  /\ tokens < MaxTokens
        /\ auth' = r.auth
        /\ IF r.code = "Ok" /\ r.lease = auth.nextLease
           THEN tokens' = tokens + 1 /\ issued' = issued \cup {ClaimOf(r.auth.leases[r.lease])}
           ELSE UNCHANGED <<tokens, issued>>
        /\ UNCHANGED <<disk, now, reloads>>

Renew(id, ttl) == Apply(RenewResult(auth, id, ttl, now))

RequestFence(h) == Apply(RequestFenceResult(auth, h, now))

AcknowledgeFence(h, fence) == Apply(AcknowledgeFenceResult(auth, h, fence))

Revoke(id) == Apply(RevokeResult(auth, id))

ExpireDue == Apply(Done(ExpireInPlace(auth, now), 0))

\* A holder proves possession of a token it was given.
Reattest(c) == Apply(ReattestResult(auth, c.holder, c.token, now))

AdvanceEpoch(epoch) == Apply(AdvanceEpochResult(auth, epoch))

\* to_json, written by the owner.  After the last restart nothing reads it any more.
Save ==
    /\ reloads < MaxReloads
    /\ disk' = auth
    /\ UNCHANGED <<auth, now, reloads, tokens, issued>>

\* The process restarts: what was not saved is gone, what was saved is unattested.
Reload ==
    /\ reloads < MaxReloads
    /\ reloads' = reloads + 1
    /\ auth' = Restored(disk)
    /\ UNCHANGED <<disk, now, tokens, issued>>

Tick ==
    /\ now < MaxTime
    /\ now' = now + 1
    /\ UNCHANGED <<auth, disk, reloads, tokens, issued>>

Next ==
    \/ \E h \in Incarnation, mode \in GrantModes, ttl \in Ttls : Grant(h, mode, ttl)
    \/ \E id \in DOMAIN auth.leases, ttl \in Ttls : Renew(id, ttl)
    \/ \E h \in Incarnation : RequestFence(h)
    \/ \E h \in Incarnation, fence \in DOMAIN auth.fences : AcknowledgeFence(h, fence)
    \/ \E id \in DOMAIN auth.leases : Revoke(id)
    \/ ExpireDue
    \/ \E c \in issued : Reattest(c)
    \/ \E epoch \in 1..MaxEpoch : AdvanceEpoch(epoch)
    \/ Save
    \/ Reload
    \/ Tick

Spec == Init /\ [][Next]_vars

----------------------------------------------------------------------------
(* Properties *)

\* The registry's state, memory and disk, is well formed: ids below the counters, counters
\* within their width, every lease and fence complete.
TypeOK ==
    /\ AuthorityOK(auth)
    /\ AuthorityOK(disk)
    /\ now \in Nat /\ reloads \in Nat /\ tokens \in Nat
    /\ issued \subseteq Claim

\* I1 of authority.hpp, with the slot in place of Active: at most one mutating lease is Active
\* or Fencing, whatever grants, fences, revocations, epochs and restarts came before.
SingleSlotHolder == OneSlotHolder(auth)

\* The incumbent's lease is the registry's latest word: an Active mutating lease carries the
\* current epoch and generation, so a renewal never hands back a claim validate_claim refuses.
IncumbentCurrent == IncumbentIsCurrent(auth)

\* A slot that is being fenced can be released: the fence naming a Fencing lease is still in
\* the history, unacknowledged and addressed to the lease's holder, whatever was trimmed.
FencingCanComplete == FenceIsOutstanding(auth)

\* Of all the claims ever handed out, at most one is accepted for mutation.
Accepted == {c \in issued : ValidateClaim(auth, c, "Mutating", now) = "Ok"}

SingleAcceptedClaim == \A c, d \in Accepted : c = d

\* What the history limit may cost (the erase at the end of grant looks at no state): a live
\* mutating lease falls out only when a full history of shared leases granted after it is all
\* that is left.  A mutating grant drops nothing live, and neither does any other operation.
LiveSpared ==
    \A i \in DOMAIN auth.leases \ DOMAIN auth'.leases :
        BlocksMutationSlot(auth.leases[i], now) =>
            /\ Cardinality(DOMAIN auth'.leases) >= MaxLeaseHistory
            /\ \A j \in DOMAIN auth'.leases : auth'.leases[j].mode = "ReadOnlyShared"

LiveLeaseKept == [][~Reload => LiveSpared]_vars

\* I2 as the registry keeps it: epoch and generation together never go back, but for a restart.
EraNotBehind ==
    \/ auth'.epoch > auth.epoch
    \/ auth'.epoch = auth.epoch /\ auth'.generation >= auth.generation

EraMonotonic == [][~Reload => EraNotBehind]_vars

\* What I2 is for: a claim that validate_claim has once called stale is stale for good, until a
\* restart goes back to an older snapshot.
Stale(c) == ValidateClaim(auth, c, "ReadOnlyShared", now) \in {"StaleEpoch", "StaleGeneration", "StaleAuthority"}

StaleStaysStale == [][~Reload => \A c \in issued : Stale(c) => Stale(c)']_vars
=============================================================================
