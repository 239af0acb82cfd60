------------------------ MODULE ShardAuthorityProofs ------------------------
(***************************************************************************)
(* Lemmas about the authority record of a shard, for any number of          *)
(* incarnations, any counter width and any history limits.                  *)
(*                                                                          *)
(* What makes a record sound is one predicate, Sound, and the lemmas show   *)
(* that every operation of ShardAuthority keeps it.  They are used for the  *)
(* registry on its own and for the registry inside the controller.          *)
(***************************************************************************)
EXTENDS ShardAuthority, FiniteSetTheorems,
        WellFoundedInduction, TLAPS

Sound(a) ==
    /\ AuthorityOK(a)
    /\ OneSlotHolder(a)
    /\ IncumbentIsCurrent(a)
    /\ FenceIsOutstanding(a)

----------------------------------------------------------------------------
(* Histories *)

\* The oldest entry of a nonempty history exists and is one of its entries.
LEMMA OldestIsMember ==
    ASSUME NEW ids \in SUBSET Nat, ids # {}
    PROVE  Oldest(ids) \in ids /\ \A j \in ids : Oldest(ids) <= j
<1> DEFINE Less == {ss \in Nat \X Nat : ss[1] < ss[2]}
<1>1. IsWellFoundedOn(Less, Nat)
  BY NatLessThanWellFounded, Zenon DEF OpToRel
<1>2. PICK i \in ids : \A j \in ids : ~(<<j, i>> \in Less)
  <2> HIDE DEF Less
  <2> QED BY <1>1, WFMin
<1>3. ASSUME NEW j \in ids
      PROVE  i <= j
  <2>1. j \in Nat /\ i \in Nat
    OBVIOUS
  <2>2. j < i => <<j, i>> \in Less
    BY <2>1
  <2>3. ~(j < i)
    BY <1>2, <2>2
  <2>4. QED
    BY <2>1, <2>3
<1>4. QED
  BY <1>3 DEF Oldest

\* What push_back-and-trim leaves is older entries as they were ...
LEMMA PushedKeepsOlder ==
    ASSUME NEW history, NEW id, NEW entry, NEW limit,
           NEW i \in DOMAIN Pushed(history, id, entry, limit), i # id
    PROVE  i \in DOMAIN history /\ Pushed(history, id, entry, limit)[i] = history[i]
BY DEF Pushed

\* A history of entries in S whose ids are below next.
HistoryOK(history, next, S) ==
    history \in [DOMAIN history -> S] /\ DOMAIN history \subseteq 1..(next - 1)

\* ... and the new entry.
LEMMA PushedKeepsNewest ==
    ASSUME NEW S, NEW history, NEW id \in Nat \ {0}, HistoryOK(history, id, S),
           NEW entry \in S, NEW limit \in Nat \ {0},
           NEW p, p = Pushed(history, id, entry, limit)
    PROVE  HistoryOK(p, id + 1, S) /\ id \in DOMAIN p /\ p[id] = entry
<1> DEFINE D    == DOMAIN history
           ids  == D \cup {id}
           kept == IF Cardinality(ids) > limit THEN ids \ {Oldest(ids)} ELSE ids
<1>1. history \in [D -> S] /\ D \subseteq 1..(id - 1)
  BY DEF HistoryOK
<1>2. p = [i \in kept |-> IF i = id THEN entry ELSE history[i]]
  BY DEF Pushed
<1>3. kept \subseteq ids /\ ids \subseteq 1..id /\ ids \in SUBSET Nat /\ ids # {}
  BY <1>1
<1>4. id \in kept
  <2>1. CASE Cardinality(ids) > limit
    <3>1. D # {}
      <4> SUFFICES ASSUME D = {} PROVE FALSE
        OBVIOUS
      <4>1. ids = {id}
        OBVIOUS
      <4>2. Cardinality(ids) = 1
        BY <4>1, FS_Singleton
      <4> HIDE DEF ids
      <4>3. QED
        BY <2>1, <4>2
    <3>2. PICK j \in D : TRUE
      BY <3>1
    <3>3. Oldest(ids) <= j /\ Oldest(ids) \in ids
      BY <1>3, OldestIsMember
    <3>4. Oldest(ids) # id
      BY <3>3, <1>1, <1>3
    <3>5. QED
      BY <3>4
  <2>2. QED
    BY <2>1
<1> HIDE DEF kept
<1>5. id + 1 - 1 = id
  OBVIOUS
<1>6. QED
  BY <1>1, <1>2, <1>3, <1>4, <1>5 DEF HistoryOK

----------------------------------------------------------------------------
(* Operations *)

\* b is a with every lease either where it was or out of the mutation slot.
OnlyReleases(a, b) ==
    /\ b.epoch = a.epoch /\ b.generation = a.generation /\ b.fences = a.fences
    /\ DOMAIN b.leases \subseteq DOMAIN a.leases
    /\ \A i \in DOMAIN b.leases :
          /\ b.leases[i].mode = a.leases[i].mode
          /\ b.leases[i].holder = a.leases[i].holder
          /\ b.leases[i].epoch = a.leases[i].epoch
          /\ b.leases[i].generation = a.leases[i].generation
          /\ b.leases[i].state \in {a.leases[i].state, "Fenced", "Expired", "Revoked"}

\* Giving up the slot, or changing what the slot does not depend on, keeps the record sound.
LEMMA ReleasesKeepSound ==
    ASSUME NEW a, NEW b, Sound(a), AuthorityOK(b), OnlyReleases(a, b)
    PROVE  Sound(b)
BY DEF Sound, OnlyReleases, OneSlotHolder, IncumbentIsCurrent, FenceIsOutstanding, SlotIds

\* Replacing one lease by a well-formed one changes that lease only.
LEMMA SetLeaseFacts ==
    ASSUME NEW a, AuthorityOK(a), NEW id \in DOMAIN a.leases, NEW l \in Lease
    PROVE  LET b == SetLease(a, id, l)
           IN  /\ AuthorityOK(b)
               /\ DOMAIN b.leases = DOMAIN a.leases
               /\ b.leases[id] = l
               /\ \A i \in DOMAIN a.leases : i # id => b.leases[i] = a.leases[i]
               /\ b.epoch = a.epoch /\ b.generation = a.generation
               /\ b.fences = a.fences /\ b.nextFence = a.nextFence /\ b.nextLease = a.nextLease
BY DEF AuthorityOK, SetLease

\* Marking what has expired keeps the record sound, and what is left in the slot is unexpired.
LEMMA ExpireKeepsSound ==
    ASSUME NEW a, Sound(a), NEW t \in Nat
    PROVE  LET e == ExpireInPlace(a, t)
           IN  Sound(e) /\ SlotLeases(e, t) = SlotIds(e)
<1> DEFINE e == ExpireInPlace(a, t)
           Aged(l) == [l EXCEPT !.state = EffectiveState(l, t)]
<1>1. \A i \in DOMAIN a.leases : a.leases[i] \in Lease
  BY DEF Sound, AuthorityOK
<1>2. ASSUME NEW l \in Lease
      PROVE  /\ Aged(l) \in Lease
             /\ Aged(l).mode = l.mode /\ Aged(l).holder = l.holder
             /\ Aged(l).epoch = l.epoch /\ Aged(l).generation = l.generation
             /\ Aged(l).state \in {l.state, "Expired"}
             /\ BlocksMutationSlot(Aged(l), t)
                  <=> Aged(l).mode = "Mutating" /\ Aged(l).state \in {"Active", "Fencing"}
  BY DEF Lease, LeaseState, EffectiveState, BlocksMutationSlot
<1> HIDE DEF Aged
<1>3. e = [a EXCEPT !.leases = [i \in DOMAIN a.leases |-> Aged(a.leases[i])]]
  BY DEF ExpireInPlace, Aged
<1>4. AuthorityOK(e)
  BY <1>1, <1>2, <1>3 DEF Sound, AuthorityOK
<1>5. DOMAIN e.leases = DOMAIN a.leases /\ \A i \in DOMAIN a.leases : e.leases[i] = Aged(a.leases[i])
  BY <1>3 DEF Sound, AuthorityOK
<1>6. OnlyReleases(a, e)
  BY <1>1, <1>2, <1>3, <1>5 DEF Sound, AuthorityOK, OnlyReleases
<1>7. SlotLeases(e, t) = SlotIds(e)
  BY <1>1, <1>2, <1>5 DEF SlotLeases, SlotIds
<1>8. QED
  BY <1>4, <1>6, <1>7, ReleasesKeepSound

\* Replacing a lease by one that differs in expiry, attestation or by leaving the slot is harmless.
LEMMA SetLeaseKeepsSound ==
    ASSUME NEW a, Sound(a), NEW id \in DOMAIN a.leases, NEW l \in Lease,
           l.mode = a.leases[id].mode, l.holder = a.leases[id].holder,
           l.epoch = a.leases[id].epoch, l.generation = a.leases[id].generation,
           l.state \in {a.leases[id].state, "Fenced", "Expired", "Revoked"}
    PROVE  Sound(SetLease(a, id, l))
<1> DEFINE b == SetLease(a, id, l)
<1>1. AuthorityOK(a)
  BY DEF Sound
<1>2. AuthorityOK(b) /\ OnlyReleases(a, b)
  BY <1>1, SetLeaseFacts DEF OnlyReleases
<1>3. QED
  BY <1>2, ReleasesKeepSound

\* What a grant owes: a sound record and, if it succeeded, a lease that is in it.
GrantOK(r) ==
    Sound(r.auth) /\ (r.code = "Ok" => r.lease \in DOMAIN r.auth.leases)

\* Renewing a lease moves its expiry and attests it, and nothing else.
LEMMA RenewedKeepsSound ==
    ASSUME NEW a, Sound(a), NEW id \in DOMAIN a.leases, NEW t \in Nat
    PROVE  GrantOK(Renewed(a, id, t))
<1> DEFINE l == [a.leases[id] EXCEPT !.expires = t, !.attested = TRUE]
<1>1. a.leases[id] \in Lease
  BY DEF Sound, AuthorityOK
<1>2. /\ l \in Lease
      /\ l.mode = a.leases[id].mode /\ l.holder = a.leases[id].holder
      /\ l.epoch = a.leases[id].epoch /\ l.generation = a.leases[id].generation
      /\ l.state = a.leases[id].state
  BY <1>1 DEF Lease
<1> HIDE DEF l
<1>3. Sound(SetLease(a, id, l)) /\ DOMAIN SetLease(a, id, l).leases = DOMAIN a.leases
  BY <1>2, SetLeaseKeepsSound, SetLeaseFacts DEF Sound
<1>4. QED
  BY <1>3 DEF GrantOK, Renewed, Done, l

\* Issuing a lease is sound when it is a reader's or the slot is free.
LEMMA IssuedKeepsSound ==
    ASSUME NEW a, Sound(a), NEW h \in Incarnation, NEW mode \in {"ReadOnlyShared", "Mutating"},
           NEW t \in Nat, NEW token \in Nat, mode = "Mutating" => SlotIds(a) = {}
    PROVE  GrantOK(Issued(a, h, mode, t, token))
<1> DEFINE l == [holder |-> h, epoch |-> a.epoch, generation |-> a.generation,
                 token |-> token, mode |-> mode, state |-> "Active",
                 expires |-> t, attested |-> TRUE]
           p == Pushed(a.leases, a.nextLease, l, MaxLeaseHistory)
           b == [a EXCEPT !.nextLease = a.nextLease + 1, !.leases = p]
<1>1. CASE a.nextLease = MaxCounter
  BY <1>1 DEF Issued, Refused, GrantOK
<1>2. CASE a.nextLease # MaxCounter
  <2>1. Issued(a, h, mode, t, token) = Done(b, a.nextLease)
    BY <1>2 DEF Issued
  <2>2. l \in Lease
    BY DEF Sound, AuthorityOK, Lease, LeaseState, AuthorityMode
  <2>3. /\ l.mode = mode /\ l.state = "Active" /\ l.epoch = a.epoch
        /\ l.generation = a.generation
    OBVIOUS
  <2> HIDE DEF l
  <2>4. PICK q : q = p
    OBVIOUS
  <2>5. /\ q \in [DOMAIN q -> Lease] /\ DOMAIN q \subseteq 1..a.nextLease
        /\ a.nextLease \in DOMAIN q /\ q[a.nextLease] = l
        /\ \A i \in DOMAIN q : i # a.nextLease => i \in DOMAIN a.leases /\ q[i] = a.leases[i]
    <3>1. /\ HistoryOK(a.leases, a.nextLease, Lease) /\ a.nextLease \in Nat \ {0}
          /\ MaxLeaseHistory \in Nat \ {0} /\ a.nextLease + 1 - 1 = a.nextLease
      BY BoundsAssumption DEF Sound, AuthorityOK, HistoryOK
    <3>2. q = Pushed(a.leases, a.nextLease, l, MaxLeaseHistory)
      BY <2>4
    <3>3. HistoryOK(q, a.nextLease + 1, Lease) /\ a.nextLease \in DOMAIN q /\ q[a.nextLease] = l
      BY <3>1, <2>2, <3>2, PushedKeepsNewest
    <3>4. ASSUME NEW i \in DOMAIN q, i # a.nextLease
          PROVE  i \in DOMAIN a.leases /\ q[i] = a.leases[i]
      BY <3>2, <3>4, PushedKeepsOlder
    <3>5. QED
      BY <3>1, <3>3, <3>4 DEF HistoryOK
  <2>6. b = [a EXCEPT !.nextLease = a.nextLease + 1, !.leases = q]
    BY <2>4
  <2> HIDE DEF p, b
  <2>7. AuthorityOK(b)
    <3>1. a.nextLease + 1 \in 1..MaxCounter /\ a.nextLease + 1 - 1 = a.nextLease
      <4>1. a.nextLease \in 1..MaxCounter
        BY DEF Sound, AuthorityOK
      <4>2. QED
        BY <4>1, <1>2, BoundsAssumption
    <3>2. b \in [epoch: Nat \ {0}, generation: 1..MaxCounter,
                 nextLease: 1..MaxCounter, leases: [DOMAIN q -> Lease],
                 nextFence: 1..MaxCounter, fences: [DOMAIN a.fences -> Fence]]
      BY <2>5, <2>6, <3>1 DEF Sound, AuthorityOK
    <3>3. /\ b.leases = q /\ b.fences = a.fences
          /\ b.nextLease = a.nextLease + 1 /\ b.nextFence = a.nextFence
      BY <2>6 DEF Sound, AuthorityOK
    <3>4. QED
      BY <2>5, <3>1, <3>2, <3>3 DEF Sound, AuthorityOK
  <2>8. /\ b.leases = q /\ b.epoch = a.epoch /\ b.generation = a.generation /\ b.fences = a.fences
    BY <2>6 DEF Sound, AuthorityOK
  <2>9. SlotIds(b) \subseteq SlotIds(a) \cup (IF mode = "Mutating" THEN {a.nextLease} ELSE {})
    BY <2>3, <2>5, <2>8 DEF SlotIds
  <2>10. OneSlotHolder(b)
    BY <2>9 DEF Sound, OneSlotHolder
  <2>11. IncumbentIsCurrent(b)
    BY <2>3, <2>5, <2>8 DEF Sound, IncumbentIsCurrent
  <2>12. FenceIsOutstanding(b)
    BY <2>3, <2>5, <2>8 DEF Sound, FenceIsOutstanding
  <2>13. QED
    BY <2>1, <2>5, <2>7, <2>8, <2>10, <2>11, <2>12 DEF Sound, GrantOK, Done
<1>3. QED
  BY <1>1, <1>2

\* A record whose slot is free stays sound when its generation moves.
LEMMA GenerationOfFreeSlot ==
    ASSUME NEW a, Sound(a), SlotIds(a) = {}, a.generation # MaxCounter
    PROVE  LET b == [a EXCEPT !.generation = a.generation + 1]
           IN  Sound(b) /\ SlotIds(b) = {}
BY BoundsAssumption
DEF Sound, AuthorityOK, OneSlotHolder, IncumbentIsCurrent, FenceIsOutstanding, SlotIds

\* grant keeps the record sound.
LEMMA GrantKeepsSound ==
    ASSUME NEW a, Sound(a), NEW h \in Incarnation, NEW mode \in {"ReadOnlyShared", "Mutating"},
           NEW ttl \in Nat, NEW t \in Nat, NEW token \in Nat
    PROVE  GrantOK(GrantResult(a, h, mode, ttl, t, token))
<1> DEFINE e == ExpireInPlace(a, t)
<1>1. Sound(e) /\ SlotLeases(e, t) = SlotIds(e)
  BY ExpireKeepsSound
<1>2. DOMAIN e.leases \in SUBSET Nat
  BY <1>1 DEF Sound, AuthorityOK
<1> HIDE DEF e
<1>3. GrantOK(GrantMutating(e, h, ttl, t, token))
  <2> DEFINE slot == SlotLeases(e, t)
             held == e.leases[Oldest(slot)]
             g    == [e EXCEPT !.generation = e.generation + 1]
  <2>1. CASE slot # {}
    <3>1. Oldest(slot) \in DOMAIN e.leases
      BY <2>1, <1>2, OldestIsMember DEF SlotLeases
    <3>2. GrantOK(Renewed(e, Oldest(slot), t + ttl))
      BY <3>1, <1>1, RenewedKeepsSound
    <3>3. QED
      BY <2>1, <3>2, <1>1 DEF GrantMutating, Refused, GrantOK
  <2>2. CASE slot = {} /\ e.generation = MaxCounter
    BY <2>2, <1>1 DEF GrantMutating, Refused, GrantOK
  <2>3. CASE slot = {} /\ e.generation # MaxCounter
    <3>1. Sound(g) /\ SlotIds(g) = {}
      BY <2>3, <1>1, GenerationOfFreeSlot
    <3> HIDE DEF g
    <3>2. GrantOK(Issued(g, h, "Mutating", t + ttl, token))
      BY <3>1, IssuedKeepsSound
    <3>3. QED
      BY <2>3, <3>2 DEF GrantMutating, g
  <2>4. QED
    BY <2>1, <2>2, <2>3
<1>4. GrantOK(GrantReadOnly(e, h, ttl, t, token))
  <2> DEFINE own == ActiveOf(e, h, "ReadOnlyShared", t)
  <2>1. CASE own # {}
    <3>1. Oldest(own) \in DOMAIN e.leases
      BY <2>1, <1>2, OldestIsMember DEF ActiveOf
    <3>2. GrantOK(Renewed(e, Oldest(own), t + ttl))
      BY <3>1, <1>1, RenewedKeepsSound
    <3>3. QED
      BY <2>1, <3>2 DEF GrantReadOnly
  <2>2. CASE own = {}
    <3>1. GrantOK(Issued(e, h, "ReadOnlyShared", t + ttl, token))
      BY <1>1, IssuedKeepsSound
    <3>2. QED
      BY <2>2, <3>1, <1>1 DEF GrantReadOnly, Refused, GrantOK
  <2>3. QED
    BY <2>1, <2>2
<1>5. QED
  BY <1>3, <1>4 DEF GrantResult, Refused, GrantOK, e

\* renew keeps the record sound.
LEMMA RenewKeepsSound ==
    ASSUME NEW a, Sound(a), NEW id, NEW ttl \in Nat, NEW t \in Nat
    PROVE  Sound(RenewResult(a, id, ttl, t).auth)
<1> DEFINE e == ExpireInPlace(a, t)
           l == [e.leases[id] EXCEPT !.expires = t + ttl]
<1>1. Sound(e)
  BY ExpireKeepsSound
<1> HIDE DEF e
<1>2. CASE id \in DOMAIN e.leases
  <2>1. e.leases[id] \in Lease
    BY <1>1, <1>2 DEF Sound, AuthorityOK
  <2>2. /\ l \in Lease
        /\ l.mode = e.leases[id].mode /\ l.holder = e.leases[id].holder
        /\ l.epoch = e.leases[id].epoch /\ l.generation = e.leases[id].generation
        /\ l.state = e.leases[id].state
    BY <2>1 DEF Lease
  <2> HIDE DEF l
  <2>3. Sound(SetLease(e, id, l))
    BY <1>1, <1>2, <2>2, SetLeaseKeepsSound
  <2>4. QED
    BY <1>1, <2>3 DEF RenewResult, Refused, Done, e, l
<1>3. CASE id \notin DOMAIN e.leases
  BY <1>1, <1>3 DEF RenewResult, Refused, e
<1>4. QED
  BY <1>2, <1>3

\* request_fence keeps the record sound: the slot's only lease turns Fencing, and its fence is
\* the newest entry of the fence history, which trimming never removes.
LEMMA FencingKeepsSound ==
    ASSUME NEW e, Sound(e), NEW h \in Incarnation, NEW id \in SlotIds(e),
           e.leases[id].holder = h,
           e.generation # MaxCounter, e.nextFence # MaxCounter
    PROVE  Sound(Fencing(e, h, id))
<1> DEFINE f == [target |-> h, generation |-> e.generation + 1, lease |-> id,
                 acknowledged |-> FALSE]
           l == [e.leases[id] EXCEPT !.state = "Fencing"]
           s == SetLease(e, id, l)
           b == Fencing(e, h, id)
<1>1. /\ AuthorityOK(e) /\ id \in DOMAIN e.leases /\ e.leases[id] \in Lease
      /\ id \in Nat /\ e.generation \in 1..MaxCounter /\ e.nextFence \in 1..MaxCounter
      /\ HistoryOK(e.fences, e.nextFence, Fence)
  BY DEF Sound, AuthorityOK, SlotIds, HistoryOK
<1>2. /\ l \in Lease /\ l.mode = "Mutating" /\ l.state = "Fencing" /\ l.holder = h
  BY <1>1 DEF SlotIds, Lease, LeaseState
<1>3. f \in Fence /\ f.lease = id /\ f.target = h /\ ~f.acknowledged
  BY <1>1 DEF Fence
<1> HIDE DEF l, f
<1>4. /\ AuthorityOK(s) /\ DOMAIN s.leases = DOMAIN e.leases /\ s.leases[id] = l
      /\ \A i \in DOMAIN e.leases : i # id => s.leases[i] = e.leases[i]
      /\ s.epoch = e.epoch /\ s.generation = e.generation
      /\ s.fences = e.fences /\ s.nextFence = e.nextFence /\ s.nextLease = e.nextLease
  BY <1>1, <1>2, SetLeaseFacts
<1> HIDE DEF s
<1>5. PICK q : q = Pushed(e.fences, e.nextFence, f, MaxFenceHistory)
  OBVIOUS
<1>6. HistoryOK(q, e.nextFence + 1, Fence) /\ e.nextFence \in DOMAIN q /\ q[e.nextFence] = f
  <2>1. e.nextFence \in Nat \ {0} /\ MaxFenceHistory \in Nat \ {0}
    BY <1>1, BoundsAssumption
  <2>2. QED
    BY <1>1, <1>3, <1>5, <2>1, PushedKeepsNewest
<1>7. b = [s EXCEPT !.generation = e.generation + 1, !.nextFence = e.nextFence + 1, !.fences = q]
  BY <1>5 DEF Fencing, s, l, f
<1> HIDE DEF b
<1>8. /\ e.generation + 1 \in 1..MaxCounter /\ e.nextFence + 1 \in 1..MaxCounter
  BY <1>1, BoundsAssumption
<1>9. /\ b.epoch = s.epoch /\ b.generation = e.generation + 1 /\ b.leases = s.leases
      /\ b.nextLease = s.nextLease /\ b.nextFence = e.nextFence + 1 /\ b.fences = q
  BY <1>4, <1>7 DEF AuthorityOK
<1>10. AuthorityOK(b)
  <2>1. b \in [epoch: Nat \ {0}, generation: 1..MaxCounter,
               nextLease: 1..MaxCounter, leases: [DOMAIN s.leases -> Lease],
               nextFence: 1..MaxCounter, fences: [DOMAIN q -> Fence]]
    BY <1>4, <1>6, <1>7, <1>8 DEF AuthorityOK, HistoryOK
  <2>2. QED
    BY <2>1, <1>4, <1>6, <1>9 DEF AuthorityOK, HistoryOK
<1>11. \A i \in DOMAIN b.leases : i # id => ~(b.leases[i].mode = "Mutating"
                                            /\ b.leases[i].state \in {"Active", "Fencing"})
  BY <1>4, <1>9 DEF Sound, OneSlotHolder, SlotIds
<1>12. OneSlotHolder(b)
  BY <1>11 DEF OneSlotHolder, SlotIds
<1>13. IncumbentIsCurrent(b)
  BY <1>2, <1>4, <1>9, <1>11 DEF IncumbentIsCurrent
<1>14. FenceIsOutstanding(b)
  BY <1>2, <1>3, <1>4, <1>6, <1>9, <1>11 DEF FenceIsOutstanding
<1>15. QED
  BY <1>10, <1>12, <1>13, <1>14 DEF Sound, b

\* request_fence as a whole, refusals included, keeps the record sound.
LEMMA RequestFenceKeepsSound ==
    ASSUME NEW a, Sound(a), NEW h \in Incarnation, NEW t \in Nat
    PROVE  Sound(RequestFenceResult(a, h, t).auth)
<1> DEFINE e == ExpireInPlace(a, t)
           held == ActiveOf(e, h, "Mutating", t)
<1>1. Sound(e)
  BY ExpireKeepsSound
<1> HIDE DEF e
<1>2. CASE held # {} /\ e.generation # MaxCounter /\ e.nextFence # MaxCounter
  <2>1. held \in SUBSET Nat
    BY <1>1 DEF ActiveOf, Sound, AuthorityOK
  <2>2. Oldest(held) \in held
    BY <1>2, <2>1, OldestIsMember
  <2>3. Oldest(held) \in SlotIds(e) /\ e.leases[Oldest(held)].holder = h
    BY <2>2 DEF ActiveOf, SlotIds, EffectiveState
  <2> HIDE DEF held
  <2>4. Sound(Fencing(e, h, Oldest(held)))
    BY <1>1, <1>2, <2>3, FencingKeepsSound
  <2>5. QED
    BY <1>1, <2>4 DEF RequestFenceResult, Refused, Done, e, held
<1>3. CASE ~(held # {} /\ e.generation # MaxCounter /\ e.nextFence # MaxCounter)
  BY <1>1, <1>3 DEF RequestFenceResult, Refused, e
<1>4. QED
  BY <1>2, <1>3

\* acknowledge_fence keeps the record sound: the lease the fence names leaves the slot with it.
LEMMA AcknowledgeKeepsSound ==
    ASSUME NEW a, Sound(a), NEW fence \in DOMAIN a.fences
    PROVE  Sound(Acknowledged(a, fence))
<1> DEFINE b    == Acknowledged(a, fence)
           n    == a.fences[fence].lease
           Ended(l) == [l EXCEPT !.state = "Fenced"]
<1>1. AuthorityOK(a) /\ a.fences[fence] \in Fence
  BY DEF Sound, AuthorityOK
<1>2. \A i \in DOMAIN a.leases : a.leases[i] \in Lease /\ Ended(a.leases[i]) \in Lease
  BY <1>1 DEF AuthorityOK, Lease, LeaseState
<1>3. \A i \in DOMAIN a.leases :
        /\ Ended(a.leases[i]).mode = a.leases[i].mode
        /\ Ended(a.leases[i]).state = "Fenced"
  BY <1>2 DEF Lease
<1> HIDE DEF Ended
<1>4. PICK q : q = [i \in DOMAIN a.leases |->
                      IF i = n /\ a.leases[i].state = "Fencing" THEN Ended(a.leases[i]) ELSE a.leases[i]]
  OBVIOUS
<1>5. PICK g : g = [a.fences EXCEPT ![fence] = [a.fences[fence] EXCEPT !.acknowledged = TRUE]]
  OBVIOUS
<1>6. b = [a EXCEPT !.fences = g, !.leases = q]
  BY <1>4, <1>5 DEF Acknowledged, Ended
<1> HIDE DEF b
<1>7. /\ b.epoch = a.epoch /\ b.generation = a.generation /\ b.leases = q /\ b.fences = g
      /\ b.nextLease = a.nextLease /\ b.nextFence = a.nextFence
  BY <1>1, <1>6 DEF AuthorityOK
<1>8. q \in [DOMAIN a.leases -> Lease]
  BY <1>2, <1>4
<1>9. /\ g \in [DOMAIN a.fences -> Fence]
      /\ \A i \in DOMAIN a.fences : i # fence => g[i] = a.fences[i]
  BY <1>1, <1>5 DEF AuthorityOK, Fence
<1>10. AuthorityOK(b)
  <2>1. b \in [epoch: Nat \ {0}, generation: 1..MaxCounter,
               nextLease: 1..MaxCounter, leases: [DOMAIN a.leases -> Lease],
               nextFence: 1..MaxCounter, fences: [DOMAIN a.fences -> Fence]]
    BY <1>1, <1>6, <1>8, <1>9 DEF AuthorityOK
  <2>2. QED
    BY <2>1, <1>1, <1>7, <1>8, <1>9 DEF AuthorityOK
<1>11. OneSlotHolder(b) /\ IncumbentIsCurrent(b)
  BY <1>3, <1>4, <1>7 DEF Sound, OneSlotHolder, IncumbentIsCurrent, SlotIds
<1>12. FenceIsOutstanding(b)
  <2> SUFFICES ASSUME NEW i \in DOMAIN b.leases,
                      b.leases[i].mode = "Mutating", b.leases[i].state = "Fencing"
               PROVE  \E k \in DOMAIN b.fences : /\ b.fences[k].lease = i
                                                  /\ b.fences[k].target = b.leases[i].holder
                                                  /\ ~b.fences[k].acknowledged
    BY DEF FenceIsOutstanding
  <2>1. i \in DOMAIN a.leases /\ b.leases[i] = a.leases[i] /\ i # n
    BY <1>3, <1>4, <1>7
  <2>2. PICK k \in DOMAIN a.fences : /\ a.fences[k].lease = i
                                     /\ a.fences[k].target = a.leases[i].holder
                                     /\ ~a.fences[k].acknowledged
    BY <2>1 DEF Sound, FenceIsOutstanding
  <2>3. k # fence
    BY <2>1, <2>2
  <2>4. QED
    BY <1>7, <1>9, <2>1, <2>2, <2>3
<1>13. QED
  BY <1>10, <1>11, <1>12 DEF Sound, b

\* revoke keeps the record sound.
LEMMA RevokeKeepsSound ==
    ASSUME NEW a, Sound(a), NEW id
    PROVE  Sound(RevokeResult(a, id).auth)
<1> DEFINE l == [a.leases[id] EXCEPT !.state = "Revoked"]
<1>1. CASE id \in DOMAIN a.leases
  <2>1. a.leases[id] \in Lease
    BY <1>1 DEF Sound, AuthorityOK
  <2>2. /\ l \in Lease /\ l.mode = a.leases[id].mode /\ l.holder = a.leases[id].holder
        /\ l.epoch = a.leases[id].epoch /\ l.generation = a.leases[id].generation
        /\ l.state = "Revoked"
    BY <2>1 DEF Lease, LeaseState
  <2> HIDE DEF l
  <2>3. Sound(SetLease(a, id, l))
    BY <1>1, <2>2, SetLeaseKeepsSound
  <2>4. QED
    BY <1>1, <2>3 DEF RevokeResult, Done, l
<1>2. CASE id \notin DOMAIN a.leases
  BY <1>2 DEF RevokeResult, Refused
<1>3. QED
  BY <1>1, <1>2

\* reattest keeps the record sound.
LEMMA ReattestKeepsSound ==
    ASSUME NEW a, Sound(a), NEW h, NEW token, NEW t \in Nat
    PROVE  Sound(ReattestResult(a, h, token, t).auth)
<1> DEFINE e     == ExpireInPlace(a, t)
           match == {i \in DOMAIN e.leases : e.leases[i].holder = h /\ e.leases[i].token = token}
           id    == Oldest(match)
           l     == [e.leases[id] EXCEPT !.attested = TRUE]
<1>1. Sound(e)
  BY ExpireKeepsSound
<1> HIDE DEF e
<1>2. CASE match # {}
  <2>1. match \in SUBSET Nat
    BY <1>1 DEF Sound, AuthorityOK
  <2>2. id \in DOMAIN e.leases
    BY <1>2, <2>1, OldestIsMember
  <2>3. e.leases[id] \in Lease
    BY <1>1, <2>2 DEF Sound, AuthorityOK
  <2>4. /\ l \in Lease /\ l.mode = e.leases[id].mode /\ l.holder = e.leases[id].holder
        /\ l.epoch = e.leases[id].epoch /\ l.generation = e.leases[id].generation
        /\ l.state = e.leases[id].state
    BY <2>3 DEF Lease
  <2> HIDE DEF l, id
  <2>5. Sound(SetLease(e, id, l))
    BY <1>1, <2>2, <2>4, SetLeaseKeepsSound
  <2>6. QED
    BY <1>1, <2>5 DEF ReattestResult, Done, Refused, e, id, l
<1>3. CASE match = {}
  BY <1>1, <1>3 DEF ReattestResult, Refused, e
<1>4. QED
  BY <1>2, <1>3

\* advance_epoch keeps the record sound: it empties the slot.
LEMMA AdvanceEpochKeepsSound ==
    ASSUME NEW a, Sound(a), NEW epoch \in Nat
    PROVE  Sound(AdvanceEpochResult(a, epoch).auth)
<1> DEFINE Ended(l) == [l EXCEPT !.state = "Revoked"]
<1>1. CASE epoch > a.epoch
  <2>1. \A i \in DOMAIN a.leases : a.leases[i] \in Lease /\ Ended(a.leases[i]) \in Lease
    BY DEF Sound, AuthorityOK, Lease, LeaseState
  <2>2. \A i \in DOMAIN a.leases : Ended(a.leases[i]).state = "Revoked"
    BY <2>1 DEF Lease
  <2> HIDE DEF Ended
  <2>3. PICK q : q = [i \in DOMAIN a.leases |->
                        IF a.leases[i].state \in {"Active", "Fencing"}
                        THEN Ended(a.leases[i]) ELSE a.leases[i]]
    OBVIOUS
  <2>4. PICK b : b = [a EXCEPT !.epoch = epoch, !.generation = 1, !.leases = q]
    OBVIOUS
  <2>5. AdvanceEpochResult(a, epoch).auth = b
    BY <1>1, <2>3, <2>4 DEF AdvanceEpochResult, Done, Ended
  <2>6. /\ b.leases = q /\ b.fences = a.fences
        /\ b.nextLease = a.nextLease /\ b.nextFence = a.nextFence
    BY <2>4 DEF Sound, AuthorityOK
  <2>7. q \in [DOMAIN a.leases -> Lease]
    BY <2>1, <2>3
  <2>8. AuthorityOK(b)
    <3>1. epoch \in Nat \ {0} /\ 1 \in 1..MaxCounter
      BY <1>1, BoundsAssumption DEF Sound, AuthorityOK
    <3>2. b \in [epoch: Nat \ {0}, generation: 1..MaxCounter,
                 nextLease: 1..MaxCounter, leases: [DOMAIN a.leases -> Lease],
                 nextFence: 1..MaxCounter, fences: [DOMAIN a.fences -> Fence]]
      BY <2>4, <2>7, <3>1 DEF Sound, AuthorityOK
    <3>3. QED
      BY <3>2, <2>6, <2>7 DEF Sound, AuthorityOK
  <2>9. \A i \in DOMAIN b.leases : b.leases[i].state \notin {"Active", "Fencing"}
    BY <2>2, <2>3, <2>6
  <2>10. QED
    BY <2>5, <2>8, <2>9
    DEF Sound, OneSlotHolder, IncumbentIsCurrent, FenceIsOutstanding, SlotIds
<1>2. CASE ~(epoch > a.epoch)
  BY <1>2 DEF AdvanceEpochResult, Refused
<1>3. QED
  BY <1>1, <1>2

\* A snapshot reads back sound: losing the attestations moves no lease.
LEMMA RestoredKeepsSound ==
    ASSUME NEW a, Sound(a)
    PROVE  Sound(Restored(a))
<1> DEFINE Unattested(l) == [l EXCEPT !.attested = FALSE]
           b == Restored(a)
<1>1. \A i \in DOMAIN a.leases : a.leases[i] \in Lease
  BY DEF Sound, AuthorityOK
<1>2. ASSUME NEW l \in Lease
      PROVE  /\ Unattested(l) \in Lease
             /\ Unattested(l).mode = l.mode /\ Unattested(l).holder = l.holder
             /\ Unattested(l).epoch = l.epoch /\ Unattested(l).generation = l.generation
             /\ Unattested(l).state = l.state
  BY DEF Lease
<1> HIDE DEF Unattested
<1>3. b = [a EXCEPT !.leases = [i \in DOMAIN a.leases |-> Unattested(a.leases[i])]]
  BY DEF Restored, Unattested
<1>4. AuthorityOK(b)
  BY <1>1, <1>2, <1>3 DEF Sound, AuthorityOK
<1>5. DOMAIN b.leases = DOMAIN a.leases /\ \A i \in DOMAIN a.leases : b.leases[i] = Unattested(a.leases[i])
  BY <1>3 DEF Sound, AuthorityOK
<1>6. OnlyReleases(a, b)
  BY <1>1, <1>2, <1>3, <1>5 DEF Sound, AuthorityOK, OnlyReleases
<1>7. QED
  BY <1>4, <1>6, ReleasesKeepSound

\* The record of a shard nobody has held is sound.
LEMMA EstablishedIsSound == Sound(Established(1))
<1> DEFINE a == Established(1)
<1>1. AuthorityOK(a)
  BY BoundsAssumption DEF AuthorityOK, Established
<1>2. DOMAIN a.leases = {}
  BY DEF Established
<1>3. QED
  BY <1>1, <1>2 DEF Sound, OneSlotHolder, IncumbentIsCurrent, FenceIsOutstanding, SlotIds

\* A grant for mutation trims the history only when the slot is free, so that what it drops
\* holds nothing.
LEMMA GrantDropsNothingLive ==
    ASSUME NEW a, Sound(a), NEW h \in Incarnation, NEW ttl \in Nat, NEW t \in Nat, NEW token \in Nat,
           NEW i \in DOMAIN a.leases, i \notin DOMAIN GrantResult(a, h, "Mutating", ttl, t, token).auth.leases
    PROVE  ~BlocksMutationSlot(a.leases[i], t)
<1> DEFINE e == ExpireInPlace(a, t)
           r == GrantMutating(e, h, ttl, t, token)
           Aged(l) == [l EXCEPT !.state = EffectiveState(l, t)]
<1>1. Sound(e)
  BY ExpireKeepsSound
<1>2. DOMAIN e.leases = DOMAIN a.leases /\ e.leases[i] = Aged(a.leases[i])
  BY DEF ExpireInPlace, Sound, AuthorityOK
<1>3. a.leases[i] \in Lease
  BY DEF Sound, AuthorityOK
<1>4. BlocksMutationSlot(a.leases[i], t) => BlocksMutationSlot(e.leases[i], t)
  <2>1. Aged(a.leases[i]).mode = a.leases[i].mode
        /\ Aged(a.leases[i]).state = EffectiveState(a.leases[i], t)
        /\ Aged(a.leases[i]).expires = a.leases[i].expires
    BY <1>3 DEF Lease
  <2> HIDE DEF e, Aged
  <2>2. QED
    BY <1>2, <2>1 DEF BlocksMutationSlot, EffectiveState
<1>5. i \notin DOMAIN r.auth.leases
  BY <1>2 DEF GrantResult, Refused
<1> HIDE DEF e
<1>6. SlotLeases(e, t) = {}
  <2> SUFFICES ASSUME SlotLeases(e, t) # {} PROVE FALSE
    OBVIOUS
  <2> DEFINE id == Oldest(SlotLeases(e, t))
             held == e.leases[id]
  <2>1. CASE held.holder = h /\ held.state = "Active"
    <3>1. r = Renewed(e, id, t + ttl)
      BY <2>1 DEF GrantMutating
    <3>2. SlotLeases(e, t) \in SUBSET Nat
      BY <1>1 DEF SlotLeases, Sound, AuthorityOK
    <3>3. id \in DOMAIN e.leases
      BY <3>2, OldestIsMember DEF SlotLeases
    <3> HIDE DEF id, r
    <3>4. DOMAIN r.auth.leases = DOMAIN e.leases
      <4>1. r.auth.leases = [e.leases EXCEPT ![id] = [e.leases[id] EXCEPT !.expires = t + ttl, !.attested = TRUE]]
        BY <1>1, <3>1 DEF Renewed, Done, SetLease, Sound, AuthorityOK
      <4>2. QED
        BY <4>1
    <3>5. QED
      BY <1>2, <1>5, <3>4
  <2>2. CASE ~(held.holder = h /\ held.state = "Active")
    <3>1. r.auth = e
      BY <2>2 DEF GrantMutating, Refused
    <3>2. QED
      BY <1>2, <1>5, <3>1
  <2>3. QED
    BY <2>1, <2>2
<1>7. QED
  BY <1>2, <1>4, <1>6 DEF SlotLeases
=============================================================================
