---------------------- MODULE AuthorityRegistryProofs ----------------------
(***************************************************************************)
(* Proofs about the authority registry as a state machine.                  *)
(*                                                                          *)
(* Its states: the record in memory and the snapshot on disk are sound, and *)
(* the invariants follow.  Its steps: the era, which is epoch and           *)
(* generation together, never goes back while the process runs, and a claim *)
(* that was once refused as stale is refused for good.                      *)
(*                                                                          *)
(* The last does not follow from the era.  A restart from an older snapshot *)
(* leaves claims in the world that are ahead of the registry, and the       *)
(* registry then counts up to their epoch and generation again.  What keeps *)
(* them stale is that no lease with their token comes back: Tracked relates *)
(* the leases of the record, and of the snapshot, to every claim handed     *)
(* out.                                                                     *)
(*                                                                          *)
(* What the history limit drops is live only when shared leases alone are   *)
(* left: SharedAfter says that all that was granted after the lease in the  *)
(* slot is shared, and the history drops the oldest first.                  *)
(***************************************************************************)
EXTENDS AuthorityRegistry, ShardAuthorityProofs

----------------------------------------------------------------------------
(* The registry *)

IndInv ==
    /\ Sound(auth) /\ Sound(disk)
    /\ now \in Nat /\ reloads \in Nat /\ tokens \in Nat
    /\ issued \subseteq Claim

\* The initial record is sound.
LEMMA InitSound == Init => IndInv
BY EstablishedIsSound DEF Init, IndInv

\* Every step keeps the invariant.
LEMMA NextKeepsInv == IndInv /\ [Next]_vars => IndInv'
<1> SUFFICES ASSUME IndInv, [Next]_vars PROVE IndInv'
  OBVIOUS
<1>0. /\ Sound(auth) /\ Sound(disk) /\ now \in Nat /\ reloads \in Nat /\ tokens \in Nat
      /\ issued \subseteq Claim
  BY DEF IndInv
<1>1. ASSUME NEW r, Apply(r), Sound(r.auth)
      PROVE  IndInv'
  BY <1>0, <1>1 DEF Apply, IndInv
<1>2. ASSUME NEW h \in Incarnation, NEW mode \in GrantModes, NEW ttl \in Ttls, Grant(h, mode, ttl)
      PROVE  IndInv'
  <2> DEFINE r == GrantResult(auth, h, mode, ttl, now, tokens)
  <2>1. Sound(r.auth) /\ (r.code = "Ok" => r.lease \in DOMAIN r.auth.leases)
    BY <1>0, GrantKeepsSound, InputsAssumption DEF GrantOK
  <2> HIDE DEF r
  <2>2. \A i \in DOMAIN r.auth.leases : r.auth.leases[i] \in Lease
    BY <2>1 DEF Sound, AuthorityOK
  <2>3. /\ auth' = r.auth /\ UNCHANGED <<disk, now, reloads>>
        /\ \/ /\ r.code = "Ok" /\ r.lease = auth.nextLease
              /\ tokens' = tokens + 1
              /\ issued' = issued \cup {ClaimOf(r.auth.leases[r.lease])}
           \/ UNCHANGED <<tokens, issued>>
    BY <1>2 DEF Grant, r
  <2>4. issued' \subseteq Claim /\ tokens' \in Nat
    <3>1. CASE UNCHANGED <<tokens, issued>>
      BY <1>0, <3>1
    <3>2. CASE r.code = "Ok" /\ r.lease = auth.nextLease /\ tokens' = tokens + 1
               /\ issued' = issued \cup {ClaimOf(r.auth.leases[r.lease])}
      <4>1. r.lease \in DOMAIN r.auth.leases
        BY <2>1, <3>2
      <4>2. QED
        BY <1>0, <2>2, <3>2, <4>1 DEF ClaimOf, Claim, Lease
    <3>3. QED
      BY <2>3, <3>1, <3>2
  <2>5. QED
    BY <1>0, <2>1, <2>3, <2>4 DEF IndInv
<1>3. ASSUME NEW id \in DOMAIN auth.leases, NEW ttl \in Ttls, Renew(id, ttl)
      PROVE  IndInv'
  BY <1>0, <1>1, <1>3, RenewKeepsSound, InputsAssumption DEF Renew
<1>4. ASSUME NEW h \in Incarnation, RequestFence(h)
      PROVE  IndInv'
  BY <1>0, <1>1, <1>4, RequestFenceKeepsSound DEF RequestFence
<1>5. ASSUME NEW h \in Incarnation, NEW fence \in DOMAIN auth.fences, AcknowledgeFence(h, fence)
      PROVE  IndInv'
  <2>1. Sound(AcknowledgeFenceResult(auth, h, fence).auth)
    BY <1>0, AcknowledgeKeepsSound DEF AcknowledgeFenceResult, Refused, Done
  <2>2. QED
    BY <1>1, <1>5, <2>1 DEF AcknowledgeFence
<1>6. ASSUME NEW id \in DOMAIN auth.leases, Revoke(id)
      PROVE  IndInv'
  BY <1>0, <1>1, <1>6, RevokeKeepsSound DEF Revoke
<1>7. CASE ExpireDue
  <2>1. Sound(Done(ExpireInPlace(auth, now), 0).auth)
    BY <1>0, ExpireKeepsSound DEF Done
  <2>2. QED
    BY <1>1, <1>7, <2>1 DEF ExpireDue
<1>8. ASSUME NEW c \in issued, Reattest(c)
      PROVE  IndInv'
  BY <1>0, <1>1, <1>8, ReattestKeepsSound DEF Reattest
<1>9. ASSUME NEW epoch \in 1..MaxEpoch, AdvanceEpoch(epoch)
      PROVE  IndInv'
  <2>1. epoch \in Nat
    BY InputsAssumption
  <2>2. QED
    BY <1>0, <1>1, <1>9, <2>1, AdvanceEpochKeepsSound DEF AdvanceEpoch
<1>10. CASE Save
  BY <1>0, <1>10 DEF Save, IndInv
<1>11. CASE Reload
  BY <1>0, <1>11, RestoredKeepsSound DEF Reload, IndInv
<1>12. CASE Tick
  BY <1>0, <1>12 DEF Tick, IndInv
<1>13. CASE UNCHANGED vars
  BY <1>0, <1>13 DEF vars, IndInv
<1>14. QED
  BY <1>2, <1>3, <1>4, <1>5, <1>6, <1>7, <1>8, <1>9, <1>10, <1>11, <1>12, <1>13 DEF Next

\* The inductive invariant holds in every reachable state.
THEOREM RegistrySound == Spec => []IndInv
BY InitSound, NextKeepsInv, PTL DEF Spec

\* Type correctness: the registry's record and its snapshot stay well formed.
THEOREM TypeCorrect == Spec => []TypeOK
<1>1. IndInv => TypeOK
  BY DEF IndInv, Sound, TypeOK
<1>2. QED
  BY <1>1, RegistrySound, PTL

\* I1: at most one mutating lease is Active or Fencing, whatever was granted, fenced, revoked,
\* expired, trimmed or restored before.
THEOREM SlotIsExclusive == Spec => []SingleSlotHolder
<1>1. IndInv => SingleSlotHolder
  BY DEF IndInv, Sound, SingleSlotHolder
<1>2. QED
  BY <1>1, RegistrySound, PTL

\* The incumbent's lease always carries the current epoch and generation.
THEOREM IncumbentStaysCurrent == Spec => []IncumbentCurrent
<1>1. IndInv => IncumbentCurrent
  BY DEF IndInv, Sound, IncumbentCurrent
<1>2. QED
  BY <1>1, RegistrySound, PTL

\* A fence that was asked for can always be acknowledged: its record outlives every trim.
THEOREM FencingNeverStrands == Spec => []FencingCanComplete
<1>1. IndInv => FencingCanComplete
  BY DEF IndInv, Sound, FencingCanComplete
<1>2. QED
  BY <1>1, RegistrySound, PTL

\* Of all the claims handed out, at most one is accepted for mutation.
THEOREM ClaimIsExclusive == Spec => []SingleAcceptedClaim
<1>1. ASSUME IndInv, NEW c \in Accepted
      PROVE  \E i \in SlotIds(auth) : /\ auth.leases[i].holder = c.holder
                                        /\ auth.leases[i].token = c.token
                                        /\ c.epoch = auth.epoch /\ c.generation = auth.generation
  <2> DEFINE match == {i \in DOMAIN auth.leases :
                        auth.leases[i].holder = c.holder /\ auth.leases[i].token = c.token}
  <2>1. match \in SUBSET Nat
    BY <1>1 DEF IndInv, Sound, AuthorityOK
  <2>2. /\ c.epoch = auth.epoch /\ c.generation = auth.generation /\ match # {}
        /\ LeaseVerdict(auth.leases[Oldest(match)], "Mutating", now) = "Ok"
    BY DEF Accepted, ValidateClaim
  <2>3. Oldest(match) \in match
    BY <2>1, <2>2, OldestIsMember
  <2>4. Oldest(match) \in SlotIds(auth)
    BY <2>2, <2>3 DEF LeaseVerdict, ModeAdmits, EffectiveState, SlotIds
  <2>5. QED
    BY <2>2, <2>3, <2>4
<1>2. IndInv => SingleAcceptedClaim
  <2> SUFFICES ASSUME IndInv, NEW c \in Accepted, NEW d \in Accepted
               PROVE  c = d
    BY DEF SingleAcceptedClaim
  <2>1. c \in Claim /\ d \in Claim
    BY DEF IndInv, Accepted
  <2>2. /\ c.holder = d.holder /\ c.token = d.token
        /\ c.epoch = d.epoch /\ c.generation = d.generation
    BY <1>1 DEF IndInv, Sound, OneSlotHolder
  <2>3. QED
    BY <2>1, <2>2 DEF Claim
<1>3. QED
  BY <1>2, RegistrySound, PTL

----------------------------------------------------------------------------
(* What falls out of the history *)

\* Everything granted after the lease in the slot is shared.
SharedAfter(a) ==
    \A i \in SlotIds(a), j \in DOMAIN a.leases : j > i => a.leases[j].mode = "ReadOnlyShared"

\* b has the leases of a, and no more of them in the slot.
SameLeases(a, b) ==
    /\ DOMAIN b.leases = DOMAIN a.leases
    /\ \A i \in DOMAIN a.leases : b.leases[i].mode = a.leases[i].mode
    /\ SlotIds(b) \subseteq SlotIds(a)

\* b follows a, and trimmed nothing but what the limit leaves no choice about: a lease in the
\* slot is gone only when a full history of shared leases is left.
Trims(a, b) ==
    /\ SharedAfter(b)
    /\ \A i \in SlotIds(a) \ DOMAIN b.leases :
          /\ Cardinality(DOMAIN b.leases) >= MaxLeaseHistory
          /\ \A j \in DOMAIN b.leases : b.leases[j].mode = "ReadOnlyShared"

\* Where no lease comes or goes, nothing is trimmed.
LEMMA SameLeasesTrims ==
    ASSUME NEW a, NEW b, SharedAfter(a), SameLeases(a, b)
    PROVE  Trims(a, b)
<1>1. SharedAfter(b)
  BY DEF SharedAfter, SameLeases
<1>2. SlotIds(a) \ DOMAIN b.leases = {}
  BY DEF SameLeases, SlotIds
<1>3. QED
  BY <1>1, <1>2 DEF Trims

\* Replacing a lease by one of its mode that is not live again.
LEMMA SetLeaseSame ==
    ASSUME NEW a, Sound(a), NEW id \in DOMAIN a.leases, NEW l \in Lease, l.mode = a.leases[id].mode,
           l.state \in {"Active", "Fencing"} => a.leases[id].state \in {"Active", "Fencing"}
    PROVE  SameLeases(a, SetLease(a, id, l))
<1> DEFINE b == SetLease(a, id, l)
<1>1. /\ DOMAIN b.leases = DOMAIN a.leases /\ b.leases[id] = l
      /\ \A i \in DOMAIN a.leases : i # id => b.leases[i] = a.leases[i]
  BY SetLeaseFacts DEF Sound
<1> HIDE DEF b
<1>2. SameLeases(a, b)
  BY <1>1 DEF SameLeases, SlotIds
<1>3. QED
  BY <1>2 DEF b

\* Marking what has expired; a lease that is live stays in the slot.
LEMMA ExpireSame ==
    ASSUME NEW a, Sound(a), NEW t \in Nat
    PROVE  LET e == ExpireInPlace(a, t)
           IN  /\ SameLeases(a, e)
               /\ \A i \in DOMAIN a.leases : BlocksMutationSlot(a.leases[i], t) => i \in SlotIds(e)
<1> DEFINE e == ExpireInPlace(a, t)
           Aged(l) == [l EXCEPT !.state = EffectiveState(l, t)]
<1>1. \A i \in DOMAIN a.leases : a.leases[i] \in Lease
  BY DEF Sound, AuthorityOK
<1>2. ASSUME NEW l \in Lease
      PROVE  /\ Aged(l).mode = l.mode
             /\ Aged(l).state \in {"Active", "Fencing"} => l.state \in {"Active", "Fencing"}
             /\ BlocksMutationSlot(l, t) => Aged(l).mode = "Mutating" /\ Aged(l).state \in {"Active", "Fencing"}
  BY DEF Lease, LeaseState, EffectiveState, BlocksMutationSlot
<1> HIDE DEF Aged
<1>3. e = [a EXCEPT !.leases = [i \in DOMAIN a.leases |-> Aged(a.leases[i])]]
  BY DEF ExpireInPlace, Aged
<1>4. DOMAIN e.leases = DOMAIN a.leases /\ \A i \in DOMAIN a.leases : e.leases[i] = Aged(a.leases[i])
  BY <1>3 DEF Sound, AuthorityOK
<1> HIDE DEF e
<1>5. SameLeases(a, e)
  BY <1>1, <1>2, <1>4 DEF SameLeases, SlotIds
<1>6. \A i \in DOMAIN a.leases : BlocksMutationSlot(a.leases[i], t) => i \in SlotIds(e)
  BY <1>1, <1>2, <1>4 DEF SlotIds
<1>7. QED
  BY <1>5, <1>6 DEF e

\* Issuing a lease pushes out the oldest one, past the limit.  If that one is in the slot, the new
\* lease is shared, and so is everything between the two.
LEMMA IssuedTrims ==
    ASSUME NEW a, Sound(a), SharedAfter(a), NEW h \in Incarnation,
           NEW mode \in {"ReadOnlyShared", "Mutating"}, NEW x \in Nat, NEW token \in Nat,
           mode = "Mutating" => SlotIds(a) = {}
    PROVE  Trims(a, Issued(a, h, mode, x, token).auth)
<1> DEFINE l == [holder |-> h, epoch |-> a.epoch, generation |-> a.generation,
                 token |-> token, mode |-> mode, state |-> "Active",
                 expires |-> x, attested |-> TRUE]
           ids == DOMAIN a.leases \cup {a.nextLease}
           old == Oldest(ids)
           b == [a EXCEPT !.nextLease = a.nextLease + 1,
                          !.leases = Pushed(a.leases, a.nextLease, l, MaxLeaseHistory)]
<1>1. CASE a.nextLease = MaxCounter
  <2>1. Issued(a, h, mode, x, token).auth = a
    BY <1>1 DEF Issued, Refused
  <2>2. SameLeases(a, a)
    BY DEF SameLeases
  <2>3. QED
    BY <2>1, <2>2, SameLeasesTrims
<1>2. CASE a.nextLease # MaxCounter
  <2>1. Issued(a, h, mode, x, token).auth = b
    BY <1>2 DEF Issued, Done
  <2>2. l.mode = mode
    OBVIOUS
  <2> HIDE DEF l
  <2>3. /\ a.nextLease \in Nat \ {0} /\ DOMAIN a.leases \subseteq 1..(a.nextLease - 1)
        /\ MaxLeaseHistory \in Nat \ {0}
    BY BoundsAssumption DEF Sound, AuthorityOK
  <2>4. ids \subseteq 1..a.nextLease /\ ids # {} /\ ids \in SUBSET Nat
    BY <2>3
  <2>5. old \in ids /\ \A j \in ids : old <= j
    BY <2>4, OldestIsMember
  <2>6. IsFiniteSet(ids)
    <3>1. IsFiniteSet(1..a.nextLease)
      BY <2>3, FS_Interval
    <3>2. QED
      BY <2>4, <3>1, FS_Subset
  <2>7. Cardinality(ids) \in Nat /\ Cardinality(ids \ {old}) = Cardinality(ids) - 1
    <3> HIDE DEF ids, old
    <3>1. QED
      BY <2>5, <2>6, FS_CardinalityType, FS_RemoveElement
  <2> HIDE DEF old
  <2>8. /\ DOMAIN b.leases = IF Cardinality(ids) > MaxLeaseHistory THEN ids \ {old} ELSE ids
        /\ \A i \in DOMAIN b.leases : b.leases[i] = IF i = a.nextLease THEN l ELSE a.leases[i]
    <3>1. b.leases = Pushed(a.leases, a.nextLease, l, MaxLeaseHistory)
      BY DEF Sound, AuthorityOK
    <3>2. QED
      BY <3>1 DEF Pushed, old
  <2> HIDE DEF b, ids
  <2>9. \A i \in DOMAIN b.leases : i # a.nextLease => i \in DOMAIN a.leases /\ b.leases[i] = a.leases[i]
    BY <2>8 DEF ids
  <2>10. a.nextLease \in DOMAIN b.leases => b.leases[a.nextLease].mode = mode
    BY <2>2, <2>8
  <2>11. SharedAfter(b)
    <3> SUFFICES ASSUME NEW i \in SlotIds(b), NEW j \in DOMAIN b.leases, j > i
                 PROVE  b.leases[j].mode = "ReadOnlyShared"
      BY DEF SharedAfter
    <3>1. i \in DOMAIN b.leases /\ j \in 1..a.nextLease
      BY <2>4, <2>8 DEF SlotIds
    <3>2. i # a.nextLease
      BY <2>3, <2>4, <2>8, <3>1
    <3>3. i \in SlotIds(a)
      BY <2>9, <3>1, <3>2 DEF SlotIds
    <3>4. CASE j = a.nextLease
      BY <2>10, <3>3, <3>4
    <3>5. CASE j # a.nextLease
      BY <2>9, <3>3, <3>5 DEF SharedAfter
    <3>6. QED
      BY <3>4, <3>5
  <2>12. ASSUME NEW i \in SlotIds(a), i \notin DOMAIN b.leases
         PROVE  /\ Cardinality(DOMAIN b.leases) >= MaxLeaseHistory
                /\ \A j \in DOMAIN b.leases : b.leases[j].mode = "ReadOnlyShared"
    <3>1. i \in ids /\ i \in DOMAIN a.leases
      BY DEF SlotIds, ids
    <3>2. i = old /\ Cardinality(ids) > MaxLeaseHistory /\ DOMAIN b.leases = ids \ {old}
      BY <2>8, <2>12, <3>1
    <3>3. Cardinality(DOMAIN b.leases) >= MaxLeaseHistory
      BY <2>3, <2>7, <3>2
    <3>4. ASSUME NEW j \in DOMAIN b.leases PROVE b.leases[j].mode = "ReadOnlyShared"
      <4>1. CASE j = a.nextLease
        BY <2>10, <4>1
      <4>2. CASE j # a.nextLease
        <5>1. j \in ids /\ j # i /\ j \in Nat /\ i \in Nat
          BY <2>4, <3>1, <3>2
        <5>2. j > i
          BY <2>5, <3>2, <5>1
        <5>3. QED
          BY <2>9, <4>2, <5>2 DEF SharedAfter
      <4>3. QED
        BY <4>1, <4>2
    <3>5. QED
      BY <3>3, <3>4
  <2>13. QED
    BY <2>1, <2>11, <2>12 DEF Trims
<1>3. QED
  BY <1>1, <1>2

\* Two things happened, neither of them a grant.
LEMMA SameLeasesTransitive ==
    ASSUME NEW a, NEW e, NEW b, SameLeases(a, e), SameLeases(e, b)
    PROVE  SameLeases(a, b)
BY DEF SameLeases

\* A grant spares what is live, but for the limit.
LEMMA GrantTrims ==
    ASSUME NEW a, Sound(a), SharedAfter(a), NEW h \in Incarnation,
           NEW mode \in {"ReadOnlyShared", "Mutating"}, NEW ttl \in Nat, NEW t \in Nat, NEW token \in Nat
    PROVE  LET b == GrantResult(a, h, mode, ttl, t, token).auth
           IN  b = a \/ Trims(ExpireInPlace(a, t), b)
<1> DEFINE e == ExpireInPlace(a, t)
<1>1. Sound(e) /\ SlotLeases(e, t) = SlotIds(e) /\ SameLeases(a, e)
  BY ExpireKeepsSound, ExpireSame
<1>2. DOMAIN e.leases \in SUBSET Nat
  BY <1>1 DEF Sound, AuthorityOK
<1>3. SharedAfter(e)
  BY <1>1, SameLeasesTrims DEF Trims
<1> HIDE DEF e
<1>4. Trims(e, e)
  BY <1>3, SameLeasesTrims DEF SameLeases
<1>5. ASSUME NEW id \in DOMAIN e.leases PROVE Trims(e, Renewed(e, id, t + ttl).auth)
  <2> DEFINE x == t + ttl
             l == [e.leases[id] EXCEPT !.expires = x, !.attested = TRUE]
  <2>1. e.leases[id] \in Lease /\ x \in Nat
    BY <1>1 DEF Sound, AuthorityOK
  <2> HIDE DEF x
  <2>2. l \in Lease /\ l.mode = e.leases[id].mode /\ l.state = e.leases[id].state
    BY <2>1 DEF Lease
  <2> HIDE DEF l
  <2>3. Trims(e, SetLease(e, id, l))
    BY <1>1, <1>3, <2>2, SetLeaseSame, SameLeasesTrims
  <2>4. QED
    BY <2>3 DEF Renewed, Done, l, x
<1>6. Trims(e, GrantMutating(e, h, ttl, t, token).auth)
  <2> DEFINE slot == SlotLeases(e, t)
             g    == [e EXCEPT !.generation = e.generation + 1]
  <2>1. CASE slot # {}
    <3>1. Oldest(slot) \in DOMAIN e.leases
      BY <2>1, <1>2, OldestIsMember DEF SlotLeases
    <3>2. Trims(e, Renewed(e, Oldest(slot), t + ttl).auth)
      BY <1>5, <3>1
    <3>3. QED
      BY <1>4, <2>1, <3>2 DEF GrantMutating, Refused
  <2>2. CASE slot = {} /\ e.generation = MaxCounter
    BY <1>4, <2>2 DEF GrantMutating, Refused
  <2>3. CASE slot = {} /\ e.generation # MaxCounter
    <3>1. Sound(g) /\ SlotIds(g) = {}
      BY <2>3, <1>1, GenerationOfFreeSlot
    <3>2. GrantMutating(e, h, ttl, t, token) = Issued(g, h, "Mutating", t + ttl, token)
      BY <2>3 DEF GrantMutating
    <3> HIDE DEF g
    <3>3. SharedAfter(g)
      BY <3>1 DEF SharedAfter
    <3>4. Trims(g, Issued(g, h, "Mutating", t + ttl, token).auth)
      BY <3>1, <3>3, IssuedTrims
    <3>5. SlotIds(e) = {}
      BY <1>1, <2>3
    <3>6. QED
      BY <3>2, <3>4, <3>5 DEF Trims
  <2>4. QED
    BY <2>1, <2>2, <2>3
<1>7. Trims(e, GrantReadOnly(e, h, ttl, t, token).auth)
  <2> DEFINE own == ActiveOf(e, h, "ReadOnlyShared", t)
  <2>1. CASE own # {}
    <3>1. Oldest(own) \in DOMAIN e.leases
      BY <2>1, <1>2, OldestIsMember DEF ActiveOf
    <3>2. Trims(e, Renewed(e, Oldest(own), t + ttl).auth)
      BY <1>5, <3>1
    <3>3. QED
      BY <2>1, <3>2 DEF GrantReadOnly
  <2>2. CASE own = {}
    <3>1. Trims(e, Issued(e, h, "ReadOnlyShared", t + ttl, token).auth)
      BY <1>1, <1>3, IssuedTrims
    <3>2. QED
      BY <1>4, <2>2, <3>1 DEF GrantReadOnly, Refused
  <2>3. QED
    BY <2>1, <2>2
<1>8. QED
  BY <1>6, <1>7 DEF GrantResult, Refused, e

\* renew.
LEMMA RenewSame ==
    ASSUME NEW a, Sound(a), NEW id, NEW ttl \in Nat, NEW t \in Nat
    PROVE  SameLeases(a, RenewResult(a, id, ttl, t).auth)
<1> DEFINE e == ExpireInPlace(a, t)
           l == [e.leases[id] EXCEPT !.expires = t + ttl]
<1>1. Sound(e) /\ SameLeases(a, e) /\ SameLeases(a, a)
  BY ExpireKeepsSound, ExpireSame DEF SameLeases
<1> HIDE DEF e
<1>2. CASE id \in DOMAIN e.leases
  <2>1. e.leases[id] \in Lease
    BY <1>1, <1>2 DEF Sound, AuthorityOK
  <2>2. l \in Lease /\ l.mode = e.leases[id].mode /\ l.state = e.leases[id].state
    BY <2>1 DEF Lease
  <2> HIDE DEF l
  <2>3. SameLeases(a, SetLease(e, id, l))
    BY <1>1, <1>2, <2>2, SetLeaseSame, SameLeasesTransitive
  <2>4. QED
    BY <1>1, <2>3 DEF RenewResult, Refused, Done, e, l
<1>3. CASE id \notin DOMAIN e.leases
  BY <1>1, <1>3 DEF RenewResult, Refused, e
<1>4. QED
  BY <1>2, <1>3

\* request_fence: the lease that turns Fencing was in the slot.
LEMMA RequestFenceSame ==
    ASSUME NEW a, Sound(a), NEW h \in Incarnation, NEW t \in Nat
    PROVE  SameLeases(a, RequestFenceResult(a, h, t).auth)
<1> DEFINE e    == ExpireInPlace(a, t)
           held == ActiveOf(e, h, "Mutating", t)
           id   == Oldest(held)
           l    == [e.leases[id] EXCEPT !.state = "Fencing"]
<1>1. Sound(e) /\ SameLeases(a, e)
  BY ExpireKeepsSound, ExpireSame
<1> HIDE DEF e
<1>2. CASE held # {}
  <2>1. held \in SUBSET Nat
    BY <1>1 DEF ActiveOf, Sound, AuthorityOK
  <2>2. id \in held
    BY <1>2, <2>1, OldestIsMember
  <2>3. id \in DOMAIN e.leases /\ e.leases[id].state = "Active"
    BY <2>2 DEF ActiveOf, EffectiveState
  <2> HIDE DEF held, id
  <2>4. e.leases[id] \in Lease
    BY <1>1, <2>3 DEF Sound, AuthorityOK
  <2>5. l \in Lease /\ l.mode = e.leases[id].mode /\ l.state = "Fencing"
    BY <2>4 DEF Lease, LeaseState
  <2> HIDE DEF l
  <2>6. SameLeases(a, SetLease(e, id, l)) /\ AuthorityOK(SetLease(e, id, l))
    BY <1>1, <2>3, <2>5, SetLeaseSame, SameLeasesTransitive, SetLeaseFacts DEF Sound
  <2>7. Fencing(e, h, id).leases = SetLease(e, id, l).leases
    BY <2>6 DEF Fencing, AuthorityOK, l
  <2>8. SameLeases(a, Fencing(e, h, id))
    BY <2>6, <2>7 DEF SameLeases, SlotIds
  <2>9. QED
    BY <1>1, <2>8 DEF RequestFenceResult, Refused, Done, e, held, id
<1>3. CASE held = {}
  BY <1>1, <1>3 DEF RequestFenceResult, Refused, e
<1>4. QED
  BY <1>2, <1>3

\* acknowledge_fence.
LEMMA AcknowledgeSame ==
    ASSUME NEW a, Sound(a), NEW h, NEW fence \in DOMAIN a.fences
    PROVE  SameLeases(a, AcknowledgeFenceResult(a, h, fence).auth)
<1> DEFINE b == Acknowledged(a, fence)
           n == a.fences[fence].lease
           Ended(l) == [l EXCEPT !.state = "Fenced"]
<1>1. \A i \in DOMAIN a.leases : /\ Ended(a.leases[i]).mode = a.leases[i].mode
                                 /\ Ended(a.leases[i]).state = "Fenced"
  BY DEF Sound, AuthorityOK, Lease
<1> HIDE DEF Ended
<1>2. b.leases = [i \in DOMAIN a.leases |->
                    IF i = n /\ a.leases[i].state = "Fencing" THEN Ended(a.leases[i]) ELSE a.leases[i]]
  BY DEF Acknowledged, Sound, AuthorityOK, Ended
<1> HIDE DEF b
<1>3. SameLeases(a, b)
  BY <1>1, <1>2 DEF SameLeases, SlotIds
<1>4. SameLeases(a, a)
  BY DEF SameLeases
<1>5. QED
  BY <1>3, <1>4 DEF AcknowledgeFenceResult, Refused, Done, b

\* revoke.
LEMMA RevokeSame ==
    ASSUME NEW a, Sound(a), NEW id
    PROVE  SameLeases(a, RevokeResult(a, id).auth)
<1> DEFINE l == [a.leases[id] EXCEPT !.state = "Revoked"]
<1>1. CASE id \in DOMAIN a.leases
  <2>1. a.leases[id] \in Lease
    BY <1>1 DEF Sound, AuthorityOK
  <2>2. l \in Lease /\ l.mode = a.leases[id].mode /\ l.state = "Revoked"
    BY <2>1 DEF Lease, LeaseState
  <2> HIDE DEF l
  <2>3. SameLeases(a, SetLease(a, id, l))
    BY <1>1, <2>2, SetLeaseSame
  <2>4. QED
    BY <1>1, <2>3 DEF RevokeResult, Done, l
<1>2. CASE id \notin DOMAIN a.leases
  BY <1>2 DEF RevokeResult, Refused, SameLeases
<1>3. QED
  BY <1>1, <1>2

\* reattest.
LEMMA ReattestSame ==
    ASSUME NEW a, Sound(a), NEW h, NEW token, NEW t \in Nat
    PROVE  SameLeases(a, ReattestResult(a, h, token, t).auth)
<1> DEFINE e     == ExpireInPlace(a, t)
           match == {i \in DOMAIN e.leases : e.leases[i].holder = h /\ e.leases[i].token = token}
           id    == Oldest(match)
           l     == [e.leases[id] EXCEPT !.attested = TRUE]
<1>1. Sound(e) /\ SameLeases(a, e)
  BY ExpireKeepsSound, ExpireSame
<1> HIDE DEF e
<1>2. CASE match # {}
  <2>1. match \in SUBSET Nat
    BY <1>1 DEF Sound, AuthorityOK
  <2>2. id \in DOMAIN e.leases
    BY <1>2, <2>1, OldestIsMember
  <2>3. e.leases[id] \in Lease
    BY <1>1, <2>2 DEF Sound, AuthorityOK
  <2>4. l \in Lease /\ l.mode = e.leases[id].mode /\ l.state = e.leases[id].state
    BY <2>3 DEF Lease
  <2> HIDE DEF l, id
  <2>5. SameLeases(a, SetLease(e, id, l))
    BY <1>1, <2>2, <2>4, SetLeaseSame, SameLeasesTransitive
  <2>6. QED
    BY <1>1, <2>5 DEF ReattestResult, Done, Refused, e, id, l
<1>3. CASE match = {}
  BY <1>1, <1>3 DEF ReattestResult, Refused, e
<1>4. QED
  BY <1>2, <1>3

\* advance_epoch.
LEMMA AdvanceEpochSame ==
    ASSUME NEW a, Sound(a), NEW epoch
    PROVE  SameLeases(a, AdvanceEpochResult(a, epoch).auth)
<1> DEFINE Ended(l) == [l EXCEPT !.state = "Revoked"]
           b == AdvanceEpochResult(a, epoch).auth
<1>1. CASE epoch > a.epoch
  <2>1. \A i \in DOMAIN a.leases : /\ Ended(a.leases[i]).mode = a.leases[i].mode
                                   /\ Ended(a.leases[i]).state = "Revoked"
    BY DEF Sound, AuthorityOK, Lease
  <2> HIDE DEF Ended
  <2>2. b.leases = [i \in DOMAIN a.leases |->
                      IF a.leases[i].state \in {"Active", "Fencing"} THEN Ended(a.leases[i]) ELSE a.leases[i]]
    BY <1>1 DEF AdvanceEpochResult, Done, Sound, AuthorityOK, Ended
  <2> HIDE DEF b
  <2>3. SameLeases(a, b)
    BY <2>1, <2>2 DEF SameLeases, SlotIds
  <2>4. QED
    BY <2>3 DEF b
<1>2. CASE ~(epoch > a.epoch)
  BY <1>2 DEF AdvanceEpochResult, Refused, SameLeases
<1>3. QED
  BY <1>1, <1>2

\* A snapshot that is read back.
LEMMA RestoredSame ==
    ASSUME NEW a, Sound(a)
    PROVE  SameLeases(a, Restored(a))
<1> DEFINE Unattested(l) == [l EXCEPT !.attested = FALSE]
           b == Restored(a)
<1>1. \A i \in DOMAIN a.leases : /\ Unattested(a.leases[i]).mode = a.leases[i].mode
                                 /\ Unattested(a.leases[i]).state = a.leases[i].state
  BY DEF Sound, AuthorityOK, Lease
<1> HIDE DEF Unattested
<1>2. b.leases = [i \in DOMAIN a.leases |-> Unattested(a.leases[i])]
  BY DEF Restored, Sound, AuthorityOK, Unattested
<1> HIDE DEF b
<1>3. SameLeases(a, b)
  BY <1>1, <1>2 DEF SameLeases, SlotIds
<1>4. QED
  BY <1>3 DEF b

\* Every step keeps the order of the leases, on disk too, and spares what is live.
LEMMA StepsSpare ==
    ASSUME IndInv, SharedAfter(auth), SharedAfter(disk), [Next]_vars
    PROVE  SharedAfter(auth') /\ SharedAfter(disk') /\ (Reload \/ LiveSpared)
<1>1. Sound(auth) /\ Sound(disk) /\ now \in Nat /\ tokens \in Nat
  BY DEF IndInv
<1> DEFINE Good == SharedAfter(auth') /\ SharedAfter(disk') /\ (Reload \/ LiveSpared)
<1>2. ASSUME NEW r, Apply(r), SameLeases(auth, r.auth) PROVE Good
  <2>1. SharedAfter(r.auth)
    BY <1>2, SameLeasesTrims DEF Trims
  <2>2. QED
    BY <1>2, <2>1 DEF Apply, LiveSpared, SameLeases
<1>3. ASSUME NEW h \in Incarnation, NEW mode \in GrantModes, NEW ttl \in Ttls, Grant(h, mode, ttl)
      PROVE  Good
  <2> DEFINE r == GrantResult(auth, h, mode, ttl, now, tokens)
             e == ExpireInPlace(auth, now)
  <2>1. ttl \in Nat /\ mode \in {"ReadOnlyShared", "Mutating"}
    BY InputsAssumption
  <2>2. r.auth = auth \/ Trims(e, r.auth)
    BY <1>1, <2>1, GrantTrims
  <2>3. \A i \in DOMAIN auth.leases : BlocksMutationSlot(auth.leases[i], now) => i \in SlotIds(e)
    BY <1>1, ExpireSame
  <2>4. auth' = r.auth /\ disk' = disk
    BY <1>3 DEF Grant
  <2> HIDE DEF r, e
  <2>5. QED
    BY <2>2, <2>3, <2>4 DEF Trims, LiveSpared
<1>4. ASSUME NEW id \in DOMAIN auth.leases, NEW ttl \in Ttls, Renew(id, ttl) PROVE Good
  BY <1>1, <1>2, <1>4, RenewSame, InputsAssumption DEF Renew
<1>5. ASSUME NEW h \in Incarnation, RequestFence(h) PROVE Good
  BY <1>1, <1>2, <1>5, RequestFenceSame DEF RequestFence
<1>6. ASSUME NEW h \in Incarnation, NEW fence \in DOMAIN auth.fences, AcknowledgeFence(h, fence)
      PROVE  Good
  BY <1>1, <1>2, <1>6, AcknowledgeSame DEF AcknowledgeFence
<1>7. ASSUME NEW id \in DOMAIN auth.leases, Revoke(id) PROVE Good
  BY <1>1, <1>2, <1>7, RevokeSame DEF Revoke
<1>8. CASE ExpireDue
  <2>1. SameLeases(auth, Done(ExpireInPlace(auth, now), 0).auth)
    BY <1>1, ExpireSame DEF Done
  <2>2. QED
    BY <1>2, <1>8, <2>1 DEF ExpireDue
<1>9. ASSUME NEW c \in issued, Reattest(c) PROVE Good
  BY <1>1, <1>2, <1>9, ReattestSame DEF Reattest
<1>10. ASSUME NEW epoch \in 1..MaxEpoch, AdvanceEpoch(epoch) PROVE Good
  BY <1>1, <1>2, <1>10, AdvanceEpochSame DEF AdvanceEpoch
<1>11. CASE Save
  BY <1>11 DEF Save, LiveSpared
<1>12. CASE Reload
  <2>1. SharedAfter(Restored(disk))
    BY <1>1, RestoredSame, SameLeasesTrims DEF Trims
  <2>2. QED
    BY <1>12, <2>1 DEF Reload
<1>13. CASE auth' = auth /\ disk' = disk
  BY <1>13 DEF LiveSpared
<1>14. QED
  BY <1>3, <1>4, <1>5, <1>6, <1>7, <1>8, <1>9, <1>10, <1>11, <1>12, <1>13 DEF Next, Tick, vars

\* The limit on the lease history never costs a live mutating lease, but for a full history of
\* shared leases granted after it; the restart apart, no other step drops a lease at all.
THEOREM LimitSparesTheLive == Spec => LiveLeaseKept
<1>1. Init => SharedAfter(auth) /\ SharedAfter(disk)
  BY DEF Init, Established, SharedAfter, SlotIds
<1>2. IndInv /\ SharedAfter(auth) /\ SharedAfter(disk) /\ [Next]_vars
        => /\ SharedAfter(auth)' /\ SharedAfter(disk)'
           /\ [~Reload => LiveSpared]_vars
  BY StepsSpare
<1>3. QED
  BY <1>1, <1>2, RegistrySound, PTL DEF Spec, LiveLeaseKept

\* I3: as long as every lease is granted for mutation, as the controller grants them
\* (controller.cpp:729, 767, 1536, 1931), no live lease falls out of the history, however short it
\* is: whoever is live is the one in the slot.
THEOREM MutatingGrantsDropNothingLive ==
    ASSUME "ReadOnlyShared" \notin GrantModes
    PROVE  Spec => [][~Reload => \A i \in DOMAIN auth.leases \ DOMAIN auth'.leases :
                                    ~BlocksMutationSlot(auth.leases[i], now)]_vars
<1>1. IndInv /\ [Next]_vars
        => [~Reload => \A i \in DOMAIN auth.leases \ DOMAIN auth'.leases :
                          ~BlocksMutationSlot(auth.leases[i], now)]_vars
  <2> SUFFICES ASSUME IndInv, Next, ~Reload, NEW i \in DOMAIN auth.leases, i \notin DOMAIN auth'.leases
               PROVE  ~BlocksMutationSlot(auth.leases[i], now)
    BY DEF vars
  <2>1. Sound(auth) /\ now \in Nat /\ tokens \in Nat
    BY DEF IndInv
  <2>2. ASSUME NEW h \in Incarnation, NEW mode \in GrantModes, NEW ttl \in Ttls, Grant(h, mode, ttl)
        PROVE  ~BlocksMutationSlot(auth.leases[i], now)
    <3>1. mode = "Mutating" /\ ttl \in Nat
      BY InputsAssumption
    <3>2. auth' = GrantResult(auth, h, "Mutating", ttl, now, tokens).auth
      BY <2>2, <3>1 DEF Grant
    <3>3. QED
      BY <2>1, <3>1, <3>2, GrantDropsNothingLive
  <2>3. ASSUME NEW r, Apply(r), SameLeases(auth, r.auth) PROVE FALSE
    BY <2>3 DEF Apply, SameLeases
  <2>4. ~(Tick \/ Save)
    BY DEF Tick, Save
  <2>5. ASSUME NEW id, NEW ttl \in Ttls, Renew(id, ttl) PROVE FALSE
    BY <2>1, <2>3, <2>5, RenewSame, InputsAssumption DEF Renew
  <2>6. ASSUME NEW h \in Incarnation, RequestFence(h) PROVE FALSE
    BY <2>1, <2>3, <2>6, RequestFenceSame DEF RequestFence
  <2>7. ASSUME NEW h, NEW fence \in DOMAIN auth.fences, AcknowledgeFence(h, fence) PROVE FALSE
    BY <2>1, <2>3, <2>7, AcknowledgeSame DEF AcknowledgeFence
  <2>8. ASSUME NEW id, Revoke(id) PROVE FALSE
    BY <2>1, <2>3, <2>8, RevokeSame DEF Revoke
  <2>9. ~ExpireDue
    BY <2>1, <2>3, ExpireSame DEF ExpireDue, Done
  <2>10. ASSUME NEW c, Reattest(c) PROVE FALSE
    BY <2>1, <2>3, <2>10, ReattestSame DEF Reattest
  <2>11. ASSUME NEW epoch, AdvanceEpoch(epoch) PROVE FALSE
    BY <2>1, <2>3, <2>11, AdvanceEpochSame DEF AdvanceEpoch
  <2>12. QED
    BY <2>2, <2>4, <2>5, <2>6, <2>7, <2>8, <2>9, <2>10, <2>11 DEF Next
<1>2. QED
  BY <1>1, RegistrySound, PTL DEF Spec

----------------------------------------------------------------------------
(* What an operation may do to the record *)

NotBehind(a, b) == b.epoch > a.epoch \/ (b.epoch = a.epoch /\ b.generation >= a.generation)

\* m is what became of the lease l: the same claim, and not live again.
Carries(l, m, t) ==
    /\ ClaimOf(m) = ClaimOf(l)
    /\ EffectiveState(m, t) = "Active" => EffectiveState(l, t) = "Active"

\* b is what became of the record a, the leases in new apart.
Follows(a, b, t, new) ==
    /\ NotBehind(a, b)
    /\ \A i \in DOMAIN b.leases \ new : i \in DOMAIN a.leases /\ Carries(a.leases[i], b.leases[i], t)

\* Nothing happened.
LEMMA FollowsItself ==
    ASSUME NEW a, Sound(a), NEW t
    PROVE  Follows(a, a, t, {})
BY DEF Sound, AuthorityOK, Follows, NotBehind, Carries

\* Two things happened.
LEMMA FollowsTransitive ==
    ASSUME NEW a, NEW e, NEW b, Sound(a), Sound(e), Sound(b), NEW t, NEW new,
           Follows(a, e, t, {}), Follows(e, b, t, new)
    PROVE  Follows(a, b, t, new)
<1>1. /\ {a.epoch, e.epoch, b.epoch} \subseteq Nat
      /\ {a.generation, e.generation, b.generation} \subseteq Nat
  BY BoundsAssumption DEF Sound, AuthorityOK
<1>2. NotBehind(a, b)
  BY <1>1 DEF Follows, NotBehind
<1>3. ASSUME NEW i \in DOMAIN b.leases \ new
      PROVE  i \in DOMAIN a.leases /\ Carries(a.leases[i], b.leases[i], t)
  BY DEF Follows, Carries
<1>4. QED
  BY <1>2, <1>3 DEF Follows

\* Marking what has expired.
LEMMA ExpireFollows ==
    ASSUME NEW a, Sound(a), NEW t \in Nat
    PROVE  Follows(a, ExpireInPlace(a, t), t, {}) /\ ExpireInPlace(a, t).nextLease = a.nextLease
<1> DEFINE e == ExpireInPlace(a, t)
           Aged(l) == [l EXCEPT !.state = EffectiveState(l, t)]
<1>1. \A i \in DOMAIN a.leases : a.leases[i] \in Lease
  BY DEF Sound, AuthorityOK
<1>2. ASSUME NEW l \in Lease PROVE Carries(l, Aged(l), t)
  BY DEF Lease, LeaseState, EffectiveState, Carries, ClaimOf
<1> HIDE DEF Aged
<1>3. e = [a EXCEPT !.leases = [i \in DOMAIN a.leases |-> Aged(a.leases[i])]]
  BY DEF ExpireInPlace, Aged
<1>4. /\ DOMAIN e.leases = DOMAIN a.leases /\ \A i \in DOMAIN a.leases : e.leases[i] = Aged(a.leases[i])
      /\ e.epoch = a.epoch /\ e.generation = a.generation /\ e.nextLease = a.nextLease
  BY <1>3 DEF Sound, AuthorityOK
<1>5. NotBehind(a, e)
  BY <1>4 DEF NotBehind, Sound, AuthorityOK
<1> HIDE DEF e
<1>6. Follows(a, e, t, {})
  BY <1>1, <1>2, <1>4, <1>5 DEF Follows
<1>7. QED
  BY <1>4, <1>6 DEF e

\* Replacing a lease by what became of it.
LEMMA SetLeaseFollows ==
    ASSUME NEW a, Sound(a), NEW id \in DOMAIN a.leases, NEW l \in Lease, NEW t,
           Carries(a.leases[id], l, t)
    PROVE  Follows(a, SetLease(a, id, l), t, {})
<1> DEFINE b == SetLease(a, id, l)
<1>1. /\ DOMAIN b.leases = DOMAIN a.leases /\ b.leases[id] = l
      /\ \A i \in DOMAIN a.leases : i # id => b.leases[i] = a.leases[i]
      /\ b.epoch = a.epoch /\ b.generation = a.generation
  BY SetLeaseFacts DEF Sound
<1> HIDE DEF b
<1>2. NotBehind(a, b)
  BY <1>1 DEF NotBehind, Sound, AuthorityOK
<1>3. \A i \in DOMAIN a.leases : Carries(a.leases[i], b.leases[i], t)
  BY <1>1 DEF Carries
<1>4. Follows(a, b, t, {})
  BY <1>1, <1>2, <1>3 DEF Follows
<1>5. QED
  BY <1>4 DEF b

----------------------------------------------------------------------------
(* The operations *)

\* What a grant owes the claims: the lease it returns is new, with the token minted for it and
\* the era of the record, or there is none that is new.
GrantFollows(a, r, t, token) ==
    IF r.code = "Ok" /\ r.lease = a.nextLease
    THEN /\ Follows(a, r.auth, t, {a.nextLease})
         /\ r.auth.leases[a.nextLease].token = token
         /\ r.auth.leases[a.nextLease].epoch = r.auth.epoch
         /\ r.auth.leases[a.nextLease].generation = r.auth.generation
    ELSE Follows(a, r.auth, t, {})

\* A grant that renews a live lease.
LEMMA RenewedFollows ==
    ASSUME NEW a, Sound(a), NEW id \in DOMAIN a.leases, NEW x \in Nat, NEW t \in Nat, NEW token,
           EffectiveState(a.leases[id], t) = "Active"
    PROVE  GrantFollows(a, Renewed(a, id, x), t, token)
<1> DEFINE l == [a.leases[id] EXCEPT !.expires = x, !.attested = TRUE]
<1>1. a.leases[id] \in Lease
  BY DEF Sound, AuthorityOK
<1>2. l \in Lease /\ Carries(a.leases[id], l, t)
  BY <1>1 DEF Lease, Carries, ClaimOf
<1> HIDE DEF l
<1>3. Follows(a, SetLease(a, id, l), t, {})
  BY <1>2, SetLeaseFollows
<1>4. id # a.nextLease
  BY DEF Sound, AuthorityOK
<1>5. QED
  BY <1>3, <1>4 DEF GrantFollows, Renewed, Done, l

\* A grant that issues a lease.
LEMMA IssuedFollows ==
    ASSUME NEW a, Sound(a), NEW h \in Incarnation, NEW mode \in {"ReadOnlyShared", "Mutating"},
           NEW x \in Nat, NEW t \in Nat, NEW token \in Nat
    PROVE  GrantFollows(a, Issued(a, h, mode, x, token), t, token)
<1> DEFINE l == [holder |-> h, epoch |-> a.epoch, generation |-> a.generation,
                 token |-> token, mode |-> mode, state |-> "Active",
                 expires |-> x, attested |-> TRUE]
           p == Pushed(a.leases, a.nextLease, l, MaxLeaseHistory)
           b == [a EXCEPT !.nextLease = a.nextLease + 1, !.leases = p]
<1>1. CASE a.nextLease = MaxCounter
  BY <1>1, FollowsItself DEF Issued, Refused, GrantFollows
<1>2. CASE a.nextLease # MaxCounter
  <2>1. Issued(a, h, mode, x, token) = Done(b, a.nextLease)
    BY <1>2 DEF Issued
  <2>2. l \in Lease
    BY DEF Sound, AuthorityOK, Lease, LeaseState, AuthorityMode
  <2>3. l.token = token /\ l.epoch = a.epoch /\ l.generation = a.generation
    OBVIOUS
  <2> HIDE DEF l
  <2>4. a.nextLease \in DOMAIN p /\ p[a.nextLease] = l
    <3>1. /\ HistoryOK(a.leases, a.nextLease, Lease) /\ a.nextLease \in Nat \ {0}
          /\ MaxLeaseHistory \in Nat \ {0}
      BY BoundsAssumption DEF Sound, AuthorityOK, HistoryOK
    <3>2. QED
      BY <2>2, <3>1, PushedKeepsNewest
  <2>5. ASSUME NEW i \in DOMAIN p, i # a.nextLease
        PROVE  i \in DOMAIN a.leases /\ p[i] = a.leases[i]
    BY <2>5, PushedKeepsOlder
  <2>6. b.leases = p /\ b.epoch = a.epoch /\ b.generation = a.generation
    BY DEF Sound, AuthorityOK
  <2> HIDE DEF p, b
  <2>7. NotBehind(a, b)
    BY <2>6 DEF NotBehind, Sound, AuthorityOK
  <2>8. Follows(a, b, t, {a.nextLease})
    BY <2>5, <2>6, <2>7 DEF Follows, Carries
  <2>9. QED
    BY <2>1, <2>3, <2>4, <2>6, <2>8 DEF GrantFollows, Done
<1>3. QED
  BY <1>1, <1>2

\* A grant after something else happened.
LEMMA GrantAfter ==
    ASSUME NEW a, NEW e, NEW r, Sound(a), Sound(e), Sound(r.auth), NEW t, NEW token,
           Follows(a, e, t, {}), e.nextLease = a.nextLease, GrantFollows(e, r, t, token)
    PROVE  GrantFollows(a, r, t, token)
<1>1. CASE r.code = "Ok" /\ r.lease = a.nextLease
  <2>1. Follows(e, r.auth, t, {a.nextLease})
    BY <1>1 DEF GrantFollows
  <2>2. Follows(a, r.auth, t, {a.nextLease})
    BY <2>1, FollowsTransitive
  <2>3. QED
    BY <1>1, <2>2 DEF GrantFollows
<1>2. CASE ~(r.code = "Ok" /\ r.lease = a.nextLease)
  <2>1. Follows(e, r.auth, t, {})
    BY <1>2 DEF GrantFollows
  <2>2. Follows(a, r.auth, t, {})
    BY <2>1, FollowsTransitive
  <2>3. QED
    BY <1>2, <2>2 DEF GrantFollows
<1>3. QED
  BY <1>1, <1>2

\* grant
LEMMA GrantResultFollows ==
    ASSUME NEW a, Sound(a), NEW h \in Incarnation, NEW mode \in {"ReadOnlyShared", "Mutating"},
           NEW ttl \in Nat, NEW t \in Nat, NEW token \in Nat
    PROVE  GrantFollows(a, GrantResult(a, h, mode, ttl, t, token), t, token)
<1> DEFINE e == ExpireInPlace(a, t)
           r == GrantResult(a, h, mode, ttl, t, token)
<1>1. Sound(e) /\ SlotLeases(e, t) = SlotIds(e)
  BY ExpireKeepsSound
<1>2. Follows(a, e, t, {}) /\ e.nextLease = a.nextLease
  BY ExpireFollows
<1>3. Sound(r.auth)
  BY GrantKeepsSound DEF GrantOK
<1>4. ASSUME NEW code, code # "Ok"
      PROVE  GrantFollows(a, Refused(a, code), t, token) /\ GrantFollows(e, Refused(e, code), t, token)
  BY <1>1, <1>4, FollowsItself DEF Refused, GrantFollows
<1> HIDE DEF e
<1>5. DOMAIN e.leases \in SUBSET Nat
  BY <1>1 DEF Sound, AuthorityOK
<1>6. GrantFollows(e, GrantMutating(e, h, ttl, t, token), t, token)
  <2> DEFINE slot == SlotLeases(e, t)
             held == e.leases[Oldest(slot)]
             g    == [e EXCEPT !.generation = e.generation + 1]
  <2>1. CASE slot # {} /\ held.holder = h /\ held.state = "Active"
    <3>1. Oldest(slot) \in slot
      BY <2>1, <1>5, OldestIsMember DEF SlotLeases
    <3>2. Oldest(slot) \in DOMAIN e.leases /\ EffectiveState(held, t) = "Active"
      BY <2>1, <3>1 DEF SlotLeases, BlocksMutationSlot, EffectiveState
    <3>3. GrantFollows(e, Renewed(e, Oldest(slot), t + ttl), t, token)
      BY <3>2, <1>1, RenewedFollows
    <3>4. QED
      BY <2>1, <3>3 DEF GrantMutating
  <2>2. CASE slot # {} /\ ~(held.holder = h /\ held.state = "Active")
    BY <1>4, <2>2 DEF GrantMutating
  <2>3. CASE slot = {} /\ e.generation = MaxCounter
    BY <1>4, <2>3 DEF GrantMutating
  <2>4. CASE slot = {} /\ e.generation # MaxCounter
    <3>1. Sound(g) /\ SlotIds(g) = {}
      BY <2>4, <1>1, GenerationOfFreeSlot
    <3>2. Follows(e, g, t, {}) /\ g.nextLease = e.nextLease
      <4>1. /\ g.epoch = e.epoch /\ g.generation = e.generation + 1 /\ g.leases = e.leases
            /\ g.nextLease = e.nextLease /\ e.generation \in Nat
        BY <1>1, BoundsAssumption DEF Sound, AuthorityOK
      <4> HIDE DEF g
      <4>2. QED
        BY <4>1 DEF Follows, NotBehind, Carries
    <3> HIDE DEF g
    <3>3. GrantFollows(g, Issued(g, h, "Mutating", t + ttl, token), t, token)
      BY <3>1, IssuedFollows
    <3>4. Sound(Issued(g, h, "Mutating", t + ttl, token).auth)
      BY <3>1, IssuedKeepsSound DEF GrantOK
    <3>5. GrantFollows(e, Issued(g, h, "Mutating", t + ttl, token), t, token)
      BY <1>1, <3>1, <3>2, <3>3, <3>4, GrantAfter
    <3>6. QED
      BY <2>4, <3>5 DEF GrantMutating, g
  <2>5. QED
    BY <2>1, <2>2, <2>3, <2>4
<1>7. GrantFollows(e, GrantReadOnly(e, h, ttl, t, token), t, token)
  <2> DEFINE own == ActiveOf(e, h, "ReadOnlyShared", t)
  <2>1. CASE own # {}
    <3>1. Oldest(own) \in own
      BY <2>1, <1>5, OldestIsMember DEF ActiveOf
    <3>2. Oldest(own) \in DOMAIN e.leases /\ EffectiveState(e.leases[Oldest(own)], t) = "Active"
      BY <3>1 DEF ActiveOf
    <3>3. GrantFollows(e, Renewed(e, Oldest(own), t + ttl), t, token)
      BY <3>2, <1>1, RenewedFollows
    <3>4. QED
      BY <2>1, <3>3 DEF GrantReadOnly
  <2>2. CASE own = {}
    <3>1. GrantFollows(e, Issued(e, h, "ReadOnlyShared", t + ttl, token), t, token)
      BY <1>1, IssuedFollows
    <3>2. QED
      BY <1>4, <2>2, <3>1 DEF GrantReadOnly
  <2>3. QED
    BY <2>1, <2>2
<1>8. CASE ttl = 0 \/ ttl > MaxTtl
  BY <1>4, <1>8 DEF GrantResult
<1>9. CASE ~(ttl = 0 \/ ttl > MaxTtl)
  <2>1. \/ r = GrantMutating(e, h, ttl, t, token)
        \/ r = GrantReadOnly(e, h, ttl, t, token)
    BY <1>9 DEF GrantResult, e
  <2>2. GrantFollows(e, r, t, token)
    BY <1>6, <1>7, <2>1
  <2> HIDE DEF r
  <2>3. GrantFollows(a, r, t, token)
    BY <1>1, <1>2, <1>3, <2>2, GrantAfter
  <2>4. QED
    BY <2>3 DEF r
<1>10. QED
  BY <1>8, <1>9

\* renew
LEMMA RenewFollows ==
    ASSUME NEW a, Sound(a), NEW id, NEW ttl \in Nat, NEW t \in Nat
    PROVE  Follows(a, RenewResult(a, id, ttl, t).auth, t, {})
<1> DEFINE e == ExpireInPlace(a, t)
           l == [e.leases[id] EXCEPT !.expires = t + ttl]
<1>1. Sound(e) /\ Follows(a, e, t, {})
  BY ExpireKeepsSound, ExpireFollows
<1>2. Sound(RenewResult(a, id, ttl, t).auth) /\ Follows(a, a, t, {})
  BY RenewKeepsSound, FollowsItself
<1>3. CASE ttl \in 1..MaxTtl /\ id \in DOMAIN e.leases /\ e.leases[id].state = "Active"
  <2>1. RenewResult(a, id, ttl, t).auth = SetLease(e, id, l)
    BY <1>3 DEF RenewResult, Done
  <2>2. e.leases[id] \in Lease
    BY <1>1, <1>3 DEF Sound, AuthorityOK
  <2>3. EffectiveState(e.leases[id], t) = "Active"
    <3>1. a.leases[id] \in Lease /\ e.leases[id] = [a.leases[id] EXCEPT !.state = EffectiveState(a.leases[id], t)]
      BY <1>3 DEF ExpireInPlace, Sound, AuthorityOK
    <3> HIDE DEF e
    <3>2. e.leases[id].state = EffectiveState(a.leases[id], t) /\ e.leases[id].expires = a.leases[id].expires
      BY <3>1 DEF Lease
    <3>3. QED
      BY <1>3, <3>1, <3>2 DEF EffectiveState
  <2>4. l \in Lease /\ Carries(e.leases[id], l, t)
    <3> HIDE DEF e
    <3> QED BY <2>2, <2>3 DEF Lease, Carries, ClaimOf
  <2> HIDE DEF l, e
  <2>5. Follows(e, SetLease(e, id, l), t, {})
    BY <1>1, <1>3, <2>4, SetLeaseFollows
  <2>6. Sound(SetLease(e, id, l))
    BY <1>2, <2>1
  <2>7. Follows(a, SetLease(e, id, l), t, {})
    BY <1>1, <2>5, <2>6, FollowsTransitive
  <2>8. QED
    BY <2>1, <2>7
<1>4. CASE ~(ttl \in 1..MaxTtl /\ id \in DOMAIN e.leases /\ e.leases[id].state = "Active")
  BY <1>1, <1>2, <1>4 DEF RenewResult, Refused
<1>5. QED
  BY <1>3, <1>4

\* request_fence
LEMMA RequestFenceFollows ==
    ASSUME NEW a, Sound(a), NEW h \in Incarnation, NEW t \in Nat
    PROVE  Follows(a, RequestFenceResult(a, h, t).auth, t, {})
<1> DEFINE e == ExpireInPlace(a, t)
           held == ActiveOf(e, h, "Mutating", t)
           b == Fencing(e, h, Oldest(held))
<1>1. Sound(e) /\ Follows(a, e, t, {})
  BY ExpireKeepsSound, ExpireFollows
<1>2. Sound(RequestFenceResult(a, h, t).auth)
  BY RequestFenceKeepsSound
<1> HIDE DEF e
<1>3. CASE OutstandingFences(e, h) = {} /\ held # {} /\ MaxCounter \notin {e.generation, e.nextFence}
  <2>1. RequestFenceResult(a, h, t).auth = b
    BY <1>3 DEF RequestFenceResult, Done, e
  <2>2. held \in SUBSET Nat
    BY <1>1 DEF ActiveOf, Sound, AuthorityOK
  <2>3. Oldest(held) \in DOMAIN e.leases
    BY <1>3, <2>2, OldestIsMember DEF ActiveOf
  <2> HIDE DEF held
  <2> DEFINE l == [e.leases[Oldest(held)] EXCEPT !.state = "Fencing"]
             m == SetLease(e, Oldest(held), l)
  <2>4. e.leases[Oldest(held)] \in Lease
    BY <1>1, <2>3 DEF Sound, AuthorityOK
  <2>5. l \in Lease /\ Carries(e.leases[Oldest(held)], l, t)
    BY <2>4 DEF Lease, LeaseState, Carries, ClaimOf, EffectiveState
  <2> HIDE DEF l
  <2>6. Follows(e, m, t, {}) /\ AuthorityOK(m) /\ m.epoch = e.epoch /\ m.generation = e.generation
    BY <1>1, <2>3, <2>5, SetLeaseFollows, SetLeaseFacts DEF Sound
  <2>7. b.epoch = m.epoch /\ b.generation = m.generation + 1 /\ b.leases = m.leases
    BY <2>6 DEF Fencing, l, AuthorityOK
  <2>8. m.generation \in Nat
    BY <2>6, BoundsAssumption DEF AuthorityOK
  <2> HIDE DEF m, b
  <2>9. NotBehind(e, b)
    BY <2>6, <2>7, <2>8 DEF NotBehind
  <2>10. Follows(e, b, t, {})
    BY <2>6, <2>7, <2>9 DEF Follows
  <2>11. Follows(a, b, t, {})
    BY <1>1, <1>2, <2>1, <2>10, FollowsTransitive
  <2>12. QED
    BY <2>1, <2>11
<1>4. CASE ~(OutstandingFences(e, h) = {} /\ held # {} /\ MaxCounter \notin {e.generation, e.nextFence})
  BY <1>1, <1>4 DEF RequestFenceResult, Refused, e
<1>5. QED
  BY <1>3, <1>4

\* acknowledge_fence
LEMMA AcknowledgeFollows ==
    ASSUME NEW a, Sound(a), NEW h, NEW fence, NEW t
    PROVE  Follows(a, AcknowledgeFenceResult(a, h, fence).auth, t, {})
<1> DEFINE b == Acknowledged(a, fence)
           Released(l) == [l EXCEPT !.state = "Fenced"]
           named(i) == i = a.fences[fence].lease /\ a.leases[i].state = "Fencing"
<1>1. \A i \in DOMAIN a.leases : a.leases[i] \in Lease
  BY DEF Sound, AuthorityOK
<1>2. ASSUME NEW l \in Lease PROVE Carries(l, Released(l), t) /\ Carries(l, l, t)
  BY DEF Lease, Carries, ClaimOf, EffectiveState
<1> HIDE DEF Released
<1>3. /\ b.epoch = a.epoch /\ b.generation = a.generation
      /\ b.leases = [i \in DOMAIN a.leases |->
                        IF named(i) THEN Released(a.leases[i]) ELSE a.leases[i]]
  BY DEF Acknowledged, Sound, AuthorityOK, Released
<1> HIDE DEF b, named
<1>4. NotBehind(a, b)
  BY <1>3 DEF NotBehind, Sound, AuthorityOK
<1>5. Follows(a, b, t, {})
  BY <1>1, <1>2, <1>3, <1>4 DEF Follows
<1>6. AcknowledgeFenceResult(a, h, fence).auth \in {a, b}
  BY DEF AcknowledgeFenceResult, Refused, Done, b
<1>7. QED
  BY <1>5, <1>6, FollowsItself

\* revoke
LEMMA RevokeFollows ==
    ASSUME NEW a, Sound(a), NEW id, NEW t
    PROVE  Follows(a, RevokeResult(a, id).auth, t, {})
<1> DEFINE l == [a.leases[id] EXCEPT !.state = "Revoked"]
<1>1. CASE id \in DOMAIN a.leases
  <2>1. a.leases[id] \in Lease
    BY <1>1 DEF Sound, AuthorityOK
  <2>2. l \in Lease /\ Carries(a.leases[id], l, t)
    BY <2>1 DEF Lease, LeaseState, Carries, ClaimOf, EffectiveState
  <2> HIDE DEF l
  <2>3. Follows(a, SetLease(a, id, l), t, {})
    BY <1>1, <2>2, SetLeaseFollows
  <2>4. QED
    BY <1>1, <2>3 DEF RevokeResult, Done, l
<1>2. CASE id \notin DOMAIN a.leases
  BY <1>2, FollowsItself DEF RevokeResult, Refused
<1>3. QED
  BY <1>1, <1>2

\* reattest
LEMMA ReattestFollows ==
    ASSUME NEW a, Sound(a), NEW h, NEW token, NEW t \in Nat
    PROVE  Follows(a, ReattestResult(a, h, token, t).auth, t, {})
<1> DEFINE e     == ExpireInPlace(a, t)
           match == {i \in DOMAIN e.leases : e.leases[i].holder = h /\ e.leases[i].token = token}
           id    == Oldest(match)
           l     == [e.leases[id] EXCEPT !.attested = TRUE]
<1>1. Sound(e) /\ Follows(a, e, t, {})
  BY ExpireKeepsSound, ExpireFollows
<1>2. Sound(ReattestResult(a, h, token, t).auth)
  BY ReattestKeepsSound
<1> HIDE DEF e
<1>3. CASE match # {} /\ e.leases[id].state = "Active"
  <2>1. ReattestResult(a, h, token, t).auth = SetLease(e, id, l)
    BY <1>3 DEF ReattestResult, Done, e
  <2>2. match \in SUBSET Nat
    BY <1>1 DEF Sound, AuthorityOK
  <2>3. id \in DOMAIN e.leases
    BY <1>3, <2>2, OldestIsMember
  <2>4. e.leases[id] \in Lease
    BY <1>1, <2>3 DEF Sound, AuthorityOK
  <2> HIDE DEF id
  <2>5. l \in Lease /\ Carries(e.leases[id], l, t)
    BY <2>4 DEF Lease, Carries, ClaimOf, EffectiveState
  <2> HIDE DEF l
  <2>6. Follows(e, SetLease(e, id, l), t, {})
    BY <1>1, <2>3, <2>5, SetLeaseFollows
  <2>7. QED
    BY <1>1, <1>2, <2>1, <2>6, FollowsTransitive
<1>4. CASE ~(match # {} /\ e.leases[id].state = "Active")
  BY <1>1, <1>4 DEF ReattestResult, Refused, e
<1>5. QED
  BY <1>3, <1>4

\* advance_epoch: the generation starts again, under a later epoch.
LEMMA AdvanceEpochFollows ==
    ASSUME NEW a, Sound(a), NEW epoch \in Nat, NEW t
    PROVE  Follows(a, AdvanceEpochResult(a, epoch).auth, t, {})
<1> DEFINE b == AdvanceEpochResult(a, epoch).auth
           Ended(l) == [l EXCEPT !.state = "Revoked"]
<1>1. CASE epoch > a.epoch
  <2>1. \A i \in DOMAIN a.leases : a.leases[i] \in Lease
    BY DEF Sound, AuthorityOK
  <2>2. ASSUME NEW l \in Lease PROVE Carries(l, Ended(l), t) /\ Carries(l, l, t)
    BY DEF Lease, Carries, ClaimOf, EffectiveState
  <2> HIDE DEF Ended
  <2>3. /\ b.epoch = epoch
        /\ b.leases = [i \in DOMAIN a.leases |->
                          IF a.leases[i].state \in {"Active", "Fencing"}
                          THEN Ended(a.leases[i]) ELSE a.leases[i]]
    BY <1>1 DEF AdvanceEpochResult, Done, Sound, AuthorityOK, Ended
  <2> HIDE DEF b
  <2>4. NotBehind(a, b)
    BY <1>1, <2>3 DEF NotBehind
  <2>5. Follows(a, b, t, {})
    BY <2>1, <2>2, <2>3, <2>4 DEF Follows
  <2>6. QED
    BY <2>5 DEF b
<1>2. CASE ~(epoch > a.epoch)
  BY <1>2, FollowsItself DEF AdvanceEpochResult, Refused
<1>3. QED
  BY <1>1, <1>2

----------------------------------------------------------------------------
(* The registry *)

\* The leases of a record and the claims handed out: a token names one lease and one claim, and
\* no lease is ahead of its record.
Tracked(a) ==
    /\ \A i \in DOMAIN a.leases :
        /\ a.leases[i].token < tokens
        /\ NotBehind(a.leases[i], a)
    /\ \A i, j \in DOMAIN a.leases : a.leases[i].token = a.leases[j].token => i = j
    /\ \A c \in issued, i \in DOMAIN a.leases :
        a.leases[i].token = c.token => ClaimOf(a.leases[i]) = c

Tracking ==
    /\ Tracked(auth) /\ Tracked(disk)
    /\ \A c \in issued : c.token < tokens

\* A step that issues nothing.
Continues ==
    /\ Follows(auth, auth', now, {})
    /\ UNCHANGED <<disk, now, tokens, issued>>

\* A step that issues a lease, with its claim.
Issues ==
    LET id == auth.nextLease
    IN  /\ id \in DOMAIN auth'.leases /\ id \notin DOMAIN auth.leases
        /\ Follows(auth, auth', now, {id})
        /\ auth'.leases[id].token = tokens /\ NotBehind(auth'.leases[id], auth')
        /\ issued' = issued \cup {ClaimOf(auth'.leases[id])} /\ tokens' = tokens + 1
        /\ UNCHANGED <<disk, now>>

\* Every step is one of these.
LEMMA Steps ==
    ASSUME IndInv, [Next]_vars
    PROVE  Continues \/ Issues \/ Reload \/ Tick \/ Save
<1>1. Sound(auth) /\ now \in Nat /\ tokens \in Nat
  BY DEF IndInv
<1>2. ASSUME NEW r, Apply(r), Follows(auth, r.auth, now, {})
      PROVE  Continues
  BY <1>2 DEF Apply, Continues
<1>3. ASSUME NEW h \in Incarnation, NEW mode \in GrantModes, NEW ttl \in Ttls, Grant(h, mode, ttl)
      PROVE  Continues \/ Issues
  <2> DEFINE r == GrantResult(auth, h, mode, ttl, now, tokens)
  <2>1. ttl \in Nat /\ mode \in {"ReadOnlyShared", "Mutating"}
    BY InputsAssumption
  <2>2. GrantOK(r) /\ GrantFollows(auth, r, now, tokens)
    BY <1>1, <2>1, GrantKeepsSound, GrantResultFollows
  <2>3. /\ auth' = r.auth /\ UNCHANGED <<disk, now>>
        /\ IF r.code = "Ok" /\ r.lease = auth.nextLease
           THEN tokens' = tokens + 1 /\ issued' = issued \cup {ClaimOf(r.auth.leases[r.lease])}
           ELSE UNCHANGED <<tokens, issued>>
    BY <1>3 DEF Grant
  <2> HIDE DEF r
  <2>4. CASE r.code = "Ok" /\ r.lease = auth.nextLease
    <3>1. auth.nextLease \in DOMAIN auth'.leases
      BY <2>2, <2>3, <2>4 DEF GrantOK
    <3>2. auth.nextLease \notin DOMAIN auth.leases
      BY <1>1 DEF Sound, AuthorityOK
    <3>3. /\ Follows(auth, auth', now, {auth.nextLease})
          /\ auth'.leases[auth.nextLease].token = tokens
          /\ auth'.leases[auth.nextLease].epoch = auth'.epoch
          /\ auth'.leases[auth.nextLease].generation = auth'.generation
      BY <2>2, <2>3, <2>4 DEF GrantFollows
    <3>4. auth'.epoch \in Nat /\ auth'.generation \in Nat
      BY <2>2, <2>3, BoundsAssumption DEF GrantOK, Sound, AuthorityOK
    <3>5. NotBehind(auth'.leases[auth.nextLease], auth')
      BY <3>3, <3>4 DEF NotBehind
    <3>6. QED
      BY <2>3, <2>4, <3>1, <3>2, <3>3, <3>5 DEF Issues
  <2>5. CASE ~(r.code = "Ok" /\ r.lease = auth.nextLease)
    <3>1. Follows(auth, auth', now, {})
      BY <2>2, <2>3, <2>5 DEF GrantFollows
    <3>2. QED
      BY <2>3, <2>5, <3>1 DEF Continues
  <2>6. QED
    BY <2>4, <2>5
<1>4. ASSUME NEW id \in DOMAIN auth.leases, NEW ttl \in Ttls, Renew(id, ttl) PROVE Continues
  BY <1>1, <1>2, <1>4, RenewFollows, InputsAssumption DEF Renew
<1>5. ASSUME NEW h \in Incarnation, RequestFence(h) PROVE Continues
  BY <1>1, <1>2, <1>5, RequestFenceFollows DEF RequestFence
<1>6. ASSUME NEW h \in Incarnation, NEW fence \in DOMAIN auth.fences, AcknowledgeFence(h, fence)
      PROVE  Continues
  BY <1>1, <1>2, <1>6, AcknowledgeFollows DEF AcknowledgeFence
<1>7. ASSUME NEW id \in DOMAIN auth.leases, Revoke(id) PROVE Continues
  BY <1>1, <1>2, <1>7, RevokeFollows DEF Revoke
<1>8. CASE ExpireDue
  <2>1. Follows(auth, Done(ExpireInPlace(auth, now), 0).auth, now, {})
    BY <1>1, ExpireFollows DEF Done
  <2>2. QED
    BY <1>2, <1>8, <2>1 DEF ExpireDue
<1>9. ASSUME NEW c \in issued, Reattest(c) PROVE Continues
  BY <1>1, <1>2, <1>9, ReattestFollows DEF Reattest
<1>10. ASSUME NEW epoch \in 1..MaxEpoch, AdvanceEpoch(epoch) PROVE Continues
  <2>1. epoch \in Nat
    BY InputsAssumption
  <2>2. QED
    BY <1>1, <1>2, <1>10, <2>1, AdvanceEpochFollows DEF AdvanceEpoch
<1>11. CASE UNCHANGED vars
  BY <1>1, <1>11, FollowsItself DEF vars, Continues
<1>12. QED
  BY <1>3, <1>4, <1>5, <1>6, <1>7, <1>8, <1>9, <1>10, <1>11 DEF Next

\* I2: epoch and generation never go back while the process runs, whatever is granted, fenced,
\* revoked or advanced.
THEOREM EraNeverGoesBack == Spec => EraMonotonic
<1>1. IndInv /\ [Next]_vars => [~Reload => EraNotBehind]_vars
  <2> SUFFICES ASSUME IndInv, [Next]_vars, ~Reload PROVE EraNotBehind
    OBVIOUS
  <2>1. CASE Continues \/ Issues
    BY <2>1 DEF Continues, Issues, Follows, NotBehind, EraNotBehind
  <2>2. CASE Tick \/ Save
    BY <2>2, BoundsAssumption DEF Tick, Save, EraNotBehind, IndInv, Sound, AuthorityOK
  <2>3. QED
    BY <2>1, <2>2, Steps
<1>2. QED
  BY <1>1, RegistrySound, PTL DEF Spec, EraMonotonic

\* The record that a step leaves is tracked as the one before.
LEMMA ContinuesTracked ==
    ASSUME IndInv, Sound(auth'), Tracked(auth), Continues
    PROVE  Tracked(auth)'
<1>1. \A i \in DOMAIN auth'.leases :
        /\ i \in DOMAIN auth.leases /\ ClaimOf(auth'.leases[i]) = ClaimOf(auth.leases[i])
        /\ auth'.leases[i].token = auth.leases[i].token
        /\ auth'.leases[i].epoch = auth.leases[i].epoch
        /\ auth'.leases[i].generation = auth.leases[i].generation
  BY DEF Continues, Follows, Carries, ClaimOf
<1>2. /\ \A i \in DOMAIN auth.leases : auth.leases[i].epoch \in Nat /\ auth.leases[i].generation \in Nat
      /\ {auth.epoch, auth.generation, auth'.epoch, auth'.generation} \subseteq Nat
  BY BoundsAssumption DEF IndInv, Sound, AuthorityOK, Lease
<1>3. NotBehind(auth, auth')
  BY DEF Continues, Follows
<1>4. \A i \in DOMAIN auth'.leases : NotBehind(auth'.leases[i], auth')
  BY <1>1, <1>2, <1>3 DEF Tracked, NotBehind
<1>5. UNCHANGED <<tokens, issued>>
  BY DEF Continues
<1>6. QED
  BY <1>1, <1>4, <1>5 DEF Tracked

\* A new lease has a token that no lease and no claim has.
LEMMA IssuesTracked ==
    ASSUME IndInv, Sound(auth'), Tracking, Issues
    PROVE  Tracking'
<1> DEFINE id == auth.nextLease
<1>1. \A i \in DOMAIN auth'.leases \ {id} :
        /\ i \in DOMAIN auth.leases /\ ClaimOf(auth'.leases[i]) = ClaimOf(auth.leases[i])
        /\ auth'.leases[i].token = auth.leases[i].token
        /\ auth'.leases[i].epoch = auth.leases[i].epoch
        /\ auth'.leases[i].generation = auth.leases[i].generation
  BY DEF Issues, Follows, Carries, ClaimOf
<1>2. /\ \A i \in DOMAIN auth.leases : auth.leases[i].epoch \in Nat /\ auth.leases[i].generation \in Nat
      /\ {auth.epoch, auth.generation, auth'.epoch, auth'.generation} \subseteq Nat
      /\ \A i \in DOMAIN auth.leases : auth.leases[i].token \in Nat
      /\ \A i \in DOMAIN disk.leases : disk.leases[i].token \in Nat
      /\ \A c \in issued : c.token \in Nat
      /\ tokens \in Nat
  BY BoundsAssumption DEF IndInv, Sound, AuthorityOK, Lease, Claim
<1>3. /\ NotBehind(auth, auth') /\ NotBehind(auth'.leases[id], auth')
      /\ auth'.leases[id].token = tokens /\ tokens' = tokens + 1
      /\ issued' = issued \cup {ClaimOf(auth'.leases[id])} /\ UNCHANGED disk
  BY DEF Issues, Follows
<1>4. ClaimOf(auth'.leases[id]).token = tokens
  BY <1>3 DEF ClaimOf
<1> HIDE DEF id
<1>5. Tracked(auth)'
  <2>1. ASSUME NEW i \in DOMAIN auth'.leases
        PROVE  auth'.leases[i].token < tokens' /\ NotBehind(auth'.leases[i], auth')
    <3>1. CASE i = id
      BY <1>2, <1>3, <3>1
    <3>2. CASE i # id
      <4>1. i \in DOMAIN auth.leases /\ auth.leases[i].token < tokens /\ NotBehind(auth.leases[i], auth)
        BY <1>1, <3>2 DEF Tracking, Tracked
      <4>2. auth'.leases[i].token < tokens'
        BY <1>1, <1>2, <1>3, <3>2, <4>1
      <4>3. NotBehind(auth'.leases[i], auth')
        BY <1>1, <1>2, <1>3, <3>2, <4>1 DEF NotBehind
      <4>4. QED
        BY <4>2, <4>3
    <3>3. QED
      BY <3>1, <3>2
  <2>2. \A i \in DOMAIN auth'.leases \ {id} : auth'.leases[i].token < tokens
    BY <1>1 DEF Tracking, Tracked
  <2>3. ASSUME NEW i \in DOMAIN auth'.leases, NEW j \in DOMAIN auth'.leases,
               auth'.leases[i].token = auth'.leases[j].token
        PROVE  i = j
    BY <1>1, <1>2, <1>3, <2>2, <2>3 DEF Tracking, Tracked
  <2>4. ASSUME NEW c \in issued', NEW i \in DOMAIN auth'.leases, auth'.leases[i].token = c.token
        PROVE  ClaimOf(auth'.leases[i]) = c
    <3>1. CASE c \in issued
      <4>1. c.token < tokens
        BY <3>1 DEF Tracking
      <4>2. i # id
        BY <1>2, <1>3, <2>4, <4>1
      <4>3. QED
        BY <1>1, <2>4, <3>1, <4>2 DEF Tracking, Tracked
    <3>2. CASE c = ClaimOf(auth'.leases[id])
      <4>1. i = id
        BY <1>2, <1>4, <2>2, <2>4, <3>2
      <4>2. QED
        BY <3>2, <4>1
    <3>3. QED
      BY <1>3, <3>1, <3>2
  <2>5. QED
    BY <2>1, <2>3, <2>4 DEF Tracked
<1>6. Tracked(disk)'
  <2>1. \A i \in DOMAIN disk.leases : disk.leases[i].token < tokens /\ NotBehind(disk.leases[i], disk)
    BY DEF Tracking, Tracked
  <2>2. \A i \in DOMAIN disk.leases : disk.leases[i].token < tokens'
    BY <1>2, <1>3, <2>1
  <2>3. ASSUME NEW c \in issued', NEW i \in DOMAIN disk.leases, disk.leases[i].token = c.token
        PROVE  ClaimOf(disk.leases[i]) = c
    <3>1. c # ClaimOf(auth'.leases[id])
      BY <1>2, <1>4, <2>1, <2>3
    <3>2. QED
      BY <1>3, <2>3, <3>1 DEF Tracking, Tracked
  <2>4. QED
    BY <1>3, <2>1, <2>2, <2>3 DEF Tracking, Tracked
<1>7. \A c \in issued' : c.token < tokens'
  BY <1>2, <1>3, <1>4 DEF Tracking
<1>8. QED
  BY <1>5, <1>6, <1>7 DEF Tracking

\* A snapshot read back is tracked as it was when it was saved.
LEMMA RestoredTracked ==
    ASSUME NEW a, Sound(a), Tracked(a)
    PROVE  Tracked(Restored(a))
<1> DEFINE b == Restored(a)
           Unattested(l) == [l EXCEPT !.attested = FALSE]
<1>1. \A i \in DOMAIN a.leases : a.leases[i] \in Lease
  BY DEF Sound, AuthorityOK
<1>2. ASSUME NEW l \in Lease
      PROVE  /\ ClaimOf(Unattested(l)) = ClaimOf(l) /\ Unattested(l).token = l.token
             /\ Unattested(l).epoch = l.epoch /\ Unattested(l).generation = l.generation
  BY DEF Lease, ClaimOf
<1> HIDE DEF Unattested
<1>3. /\ b.epoch = a.epoch /\ b.generation = a.generation
      /\ b.leases = [i \in DOMAIN a.leases |-> Unattested(a.leases[i])]
  BY DEF Restored, Sound, AuthorityOK, Unattested
<1> HIDE DEF b
<1>4. Tracked(b)
  BY <1>1, <1>2, <1>3 DEF Tracked, NotBehind
<1>5. QED
  BY <1>4 DEF b

\* The claims stay tracked, in memory and in the snapshot.
LEMMA TrackingHolds == Spec => []Tracking
<1>1. Init => Tracking
  <2> SUFFICES ASSUME Init PROVE Tracking
    OBVIOUS
  <2>1. DOMAIN auth.leases = {} /\ disk = auth /\ issued = {}
    BY DEF Init, Established
  <2>2. QED
    BY <2>1 DEF Tracking, Tracked
<1>2. IndInv /\ IndInv' /\ Tracking /\ [Next]_vars => Tracking'
  <2> SUFFICES ASSUME IndInv, IndInv', Tracking, [Next]_vars PROVE Tracking'
    OBVIOUS
  <2>1. Sound(auth') /\ Sound(disk)
    BY DEF IndInv
  <2>2. CASE Continues
    <3>1. Tracked(auth)'
      BY <2>1, <2>2, ContinuesTracked DEF Tracking
    <3>2. UNCHANGED <<disk, tokens, issued>>
      BY <2>2 DEF Continues
    <3>3. QED
      BY <3>1, <3>2 DEF Tracking, Tracked
  <2>3. CASE Issues
    BY <2>1, <2>3, IssuesTracked
  <2>4. CASE Reload
    <3>1. Tracked(Restored(disk))
      BY <2>1, RestoredTracked DEF Tracking
    <3>2. QED
      BY <2>4, <3>1 DEF Reload, Tracking, Tracked
  <2>5. CASE Tick \/ Save
    BY <2>5 DEF Tick, Save, Tracking, Tracked
  <2>6. QED
    BY <2>2, <2>3, <2>4, <2>5, Steps
<1>3. QED
  BY <1>1, <1>2, RegistrySound, PTL DEF Spec

\* A stale claim is stale against every record and every time that follow.
LEMMA StaleAgainst ==
    ASSUME IndInv, Tracking, NEW b, Sound(b), NEW t, NotBehind(auth, b), NEW c \in issued, Stale(c),
           \A i \in DOMAIN b.leases : b.leases[i].token = c.token =>
                /\ i \in DOMAIN auth.leases
                /\ ClaimOf(b.leases[i]) = ClaimOf(auth.leases[i])
                /\ EffectiveState(b.leases[i], t) = "Active" =>
                        EffectiveState(auth.leases[i], now) = "Active"
    PROVE  ValidateClaim(b, c, "ReadOnlyShared", t)
                \in {"StaleEpoch", "StaleGeneration", "StaleAuthority"}
<1> DEFINE m == {i \in DOMAIN b.leases : b.leases[i].holder = c.holder /\ b.leases[i].token = c.token}
           n == {i \in DOMAIN auth.leases :
                    auth.leases[i].holder = c.holder /\ auth.leases[i].token = c.token}
           i == Oldest(m)
<1>1. CASE c.epoch # b.epoch \/ c.generation # b.generation \/ m = {}
  BY <1>1 DEF ValidateClaim
<1>2. CASE c.epoch = b.epoch /\ c.generation = b.generation /\ m # {}
  <2>1. i \in m
    <3>1. m \in SUBSET Nat
      BY DEF Sound, AuthorityOK
    <3>2. QED
      BY <1>2, <3>1, OldestIsMember
  <2> HIDE DEF i
  <2>2. /\ i \in DOMAIN b.leases /\ i \in DOMAIN auth.leases /\ b.leases[i].token = c.token
        /\ ClaimOf(b.leases[i]) = ClaimOf(auth.leases[i])
        /\ EffectiveState(b.leases[i], t) = "Active" => EffectiveState(auth.leases[i], now) = "Active"
    BY <2>1
  <2>3. auth.leases[i].token = c.token
    BY <2>2 DEF ClaimOf
  <2>4. ClaimOf(auth.leases[i]) = c
    BY <2>2, <2>3 DEF Tracking, Tracked
  <2>5. auth.leases[i].epoch = c.epoch /\ auth.leases[i].generation = c.generation
        /\ auth.leases[i].holder = c.holder
    BY <2>4 DEF ClaimOf
  <2>6. c.epoch = auth.epoch /\ c.generation = auth.generation
    <3>1. NotBehind(auth.leases[i], auth)
      BY <2>2 DEF Tracking, Tracked
    <3>2. {auth.epoch, b.epoch, auth.generation, b.generation} \subseteq Nat
      BY BoundsAssumption DEF IndInv, Sound, AuthorityOK
    <3>3. QED
      BY <1>2, <2>5, <3>1, <3>2 DEF NotBehind
  <2>7. n = {i}
    BY <2>2, <2>3, <2>5 DEF Tracking, Tracked
  <2>8. Oldest(n) = i
    <3>1. n \in SUBSET Nat
      <4>1. DOMAIN auth.leases \subseteq Nat
        BY DEF IndInv, Sound, AuthorityOK
      <4>2. n \subseteq DOMAIN auth.leases
        OBVIOUS
      <4>3. QED
        BY <4>1, <4>2
    <3>2. n # {}
      BY <2>7
    <3>3. Oldest(n) \in n
      BY <3>1, <3>2, OldestIsMember
    <3>4. QED
      BY <2>7, <3>3
  <2>9. EffectiveState(auth.leases[i], now) # "Active"
    <3>1. ValidateClaim(auth, c, "ReadOnlyShared", now) = LeaseVerdict(auth.leases[i], "ReadOnlyShared", now)
      BY <2>6, <2>7, <2>8 DEF ValidateClaim
    <3>2. QED
      BY <3>1 DEF Stale, LeaseVerdict
  <2>10. LeaseVerdict(b.leases[i], "ReadOnlyShared", t) = "StaleAuthority"
    BY <2>2, <2>9 DEF LeaseVerdict
  <2>11. ValidateClaim(b, c, "ReadOnlyShared", t) = LeaseVerdict(b.leases[i], "ReadOnlyShared", t)
    BY <1>2 DEF ValidateClaim, i
  <2>12. QED
    BY <2>10, <2>11
<1>3. QED
  BY <1>1, <1>2

\* A claim once refused as stale is refused for good, until a restart: not even the registry's
\* counting up to the claim's own epoch and generation, after a restart from an older snapshot,
\* makes it current again.
THEOREM StaleForGood == Spec => StaleStaysStale
<1>1. IndInv /\ IndInv' /\ Tracking /\ [Next]_vars
        => [~Reload => \A c \in issued : Stale(c) => Stale(c)']_vars
  <2> SUFFICES ASSUME IndInv, IndInv', Tracking, [Next]_vars, ~Reload, NEW c \in issued, Stale(c)
               PROVE  Stale(c)'
    OBVIOUS
  <2>1. Sound(auth') /\ Sound(auth) /\ c.token < tokens /\ now \in Nat /\ tokens \in Nat
    BY DEF IndInv, Tracking
  <2>2. CASE Continues
    <3>1. NotBehind(auth, auth') /\ now' = now
      BY <2>2 DEF Continues, Follows
    <3>2. \A i \in DOMAIN auth'.leases :
            i \in DOMAIN auth.leases /\ Carries(auth.leases[i], auth'.leases[i], now)
      BY <2>2 DEF Continues, Follows
    <3>3. ValidateClaim(auth', c, "ReadOnlyShared", now)
            \in {"StaleEpoch", "StaleGeneration", "StaleAuthority"}
      BY <2>1, <3>1, <3>2, StaleAgainst DEF Carries
    <3>4. QED
      BY <3>1, <3>3 DEF Stale
  <2>3. CASE Issues
    <3>1. NotBehind(auth, auth') /\ now' = now /\ auth'.leases[auth.nextLease].token = tokens
      BY <2>3 DEF Issues, Follows
    <3>2. \A i \in DOMAIN auth'.leases \ {auth.nextLease} :
            i \in DOMAIN auth.leases /\ Carries(auth.leases[i], auth'.leases[i], now)
      BY <2>3 DEF Issues, Follows
    <3>3. c.token \in Nat
      BY DEF IndInv, Claim
    <3>4. \A i \in DOMAIN auth'.leases : auth'.leases[i].token = c.token => i # auth.nextLease
      BY <2>1, <3>1, <3>3
    <3>5. ValidateClaim(auth', c, "ReadOnlyShared", now)
            \in {"StaleEpoch", "StaleGeneration", "StaleAuthority"}
      BY <2>1, <3>1, <3>2, <3>4, StaleAgainst DEF Carries
    <3>6. QED
      BY <3>1, <3>5 DEF Stale
  <2>4. CASE Tick
    <3>1. auth' = auth /\ now' = now + 1
      BY <2>4 DEF Tick
    <3>2. \A i \in DOMAIN auth.leases :
            EffectiveState(auth.leases[i], now + 1) = "Active" =>
                EffectiveState(auth.leases[i], now) = "Active"
      BY <2>1 DEF EffectiveState, Sound, AuthorityOK, Lease
    <3>3. NotBehind(auth, auth)
      BY <2>1, BoundsAssumption DEF NotBehind, Sound, AuthorityOK
    <3>4. ValidateClaim(auth, c, "ReadOnlyShared", now + 1)
            \in {"StaleEpoch", "StaleGeneration", "StaleAuthority"}
      BY <2>1, <3>2, <3>3, StaleAgainst
    <3>5. QED
      BY <3>1, <3>4 DEF Stale
  <2>5. CASE Save
    BY <2>5 DEF Save, Stale
  <2>6. QED
    BY <2>2, <2>3, <2>4, <2>5, Steps
<1>2. QED
  BY <1>1, RegistrySound, TrackingHolds, PTL DEF Spec, StaleStaysStale
=============================================================================
