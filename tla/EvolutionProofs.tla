--------------------------- MODULE EvolutionProofs ---------------------------
(***************************************************************************)
(* Proofs about the composition of controller, registry and components.     *)
(* The first part is for any faults: any number of failed, late and         *)
(* repeated calls, crashes of the controller and restarts of the            *)
(* components, in any order.                                                *)
(*                                                                          *)
(* Replicated is why no record is applied twice.  The source's document     *)
(* only grows, what is on its way to the target is a copy of a part of it   *)
(* that says where it belongs, and every entry of the target's document is  *)
(* the source's at the same position, or one the source has nowhere.        *)
(*                                                                          *)
(* Fine is what the controller's state satisfies wherever it is.  One lemma *)
(* for each function of the controller between two calls shows that it      *)
(* leads from such a state to such a state; among other things, that the    *)
(* registry's record stays Sound in the controller's hands.                 *)
(*                                                                          *)
(* The second part is for handoffs whose components stay up (Steady).       *)
(* SafetyInv says that the recorded phase tells whether the source has      *)
(* stopped and the target has authority, that what is left of the final     *)
(* catch-up fits the rounds that are left, and that every acknowledged      *)
(* write is with whoever may serve it.  Each function of the controller and *)
(* each call is shown to lead from such a state to such a state (Tame).     *)
(***************************************************************************)
EXTENDS Evolution, ShardAuthorityProofs, SequenceTheorems

LOCAL Rec == INSTANCE RecordFileProofs

----------------------------------------------------------------------------
(* Components *)

Entry == [value: Nat, origin: Incarnation, form: {SourceSchema, TargetSchema}]

NodeField == {"boot", "doc", "base", "saved", "schema", "lease", "confirmed", "life", "retired",
              "lastFence", "expected"}

\* A component's state is well formed.
NodeOK(n) ==
    /\ DOMAIN n = NodeField /\ n = [f \in NodeField |-> n[f]]
    /\ n.boot \in 1..MaxBoot
    /\ n.doc \in Seq(Entry)
    /\ n.base \in 0..Len(n.doc)
    /\ n.saved \in 0..Len(n.doc)
    /\ n.schema \in {SourceSchema, TargetSchema}
    /\ n.expected \in Claim \cup {NoBinding}
    /\ n.life \in {"Serving", "Fenced", "Retired"}

\* d holds nothing but values of s, each at its position.
Copy(d, s) ==
    /\ d \in Seq(Entry)
    /\ \A i \in DOMAIN d : i \in DOMAIN s /\ d[i].value = s[i].value

\* A batch of records of s, under their positions.
Segment(b, s) ==
    /\ b.first \in Nat \ {0}
    /\ b.entries \in Seq(Entry)
    /\ \A i \in DOMAIN b.entries :
        b.first + i - 1 \in DOMAIN s /\ b.entries[i].value = s[b.first + i - 1].value

\* Every entry of e is that of d or that of s, at its position.
Blend(e, d, s) ==
    \A i \in DOMAIN e : \/ i \in DOMAIN d /\ e[i].value = d[i].value
                        \/ i \in DOMAIN s /\ e[i].value = s[i].value

\* e is d with the write of a value added.
AddedTo(e, d, value) == \E x \in Entry : x.value = value /\ e = Append(d, x)

\* Requests only the target gets.
TargetOnly == {"install_snapshot", "apply_records", "migrate"}

\* A request the controller may have made, s being the source's document.
Proper(req, s) ==
    /\ req.op \in {"status", "prepare_source", "prepare_target", "snapshot", "install_snapshot",
                   "read_since", "apply_records", "migrate", "readiness", "fence",
                   "grant_authority", "reattest", "retire", "write"}
    /\ req.op \in TargetOnly => req.to = "target"
    /\ req.op = "prepare_target" => req.binding \in Claim
    /\ req.op = "install_snapshot" => Copy(req.snapshot.doc, s)
    /\ req.op = "apply_records" => Segment(req.batch, s)
    /\ req.op = "write" => req.value = 0

\* Appending an entry to a component's log.
LEMMA AppendedIs ==
    ASSUME NEW n, NodeOK(n), NEW x \in Entry
    PROVE  /\ NodeOK(Appended(n, x))
           /\ Appended(n, x).doc = Append(n.doc, x)
           /\ \A f \in NodeField \ {"doc", "base"} : Appended(n, x)[f] = n[f]
<1> DEFINE m == Appended(n, x)
           doc == Append(n.doc, x)
           keep == IF MaxLog \div 2 = 0 THEN 1 ELSE MaxLog \div 2
           base == IF Len(doc) - n.base > MaxLog THEN Len(doc) - keep ELSE n.base
<1>1. n.doc \in Seq(Entry) /\ Len(n.doc) \in Nat /\ n.base \in 0..Len(n.doc) /\ n.saved \in 0..Len(n.doc)
  BY DEF NodeOK
<1>2. doc \in Seq(Entry) /\ Len(doc) = Len(n.doc) + 1
  BY <1>1
<1>3. keep \in Nat /\ keep <= MaxLog /\ MaxLog \in Nat
  BY NodeAssumption
<1> HIDE DEF keep
<1>4. base \in 0..Len(doc)
  BY <1>1, <1>2, <1>3
<1>5. m = [n EXCEPT !.doc = doc, !.base = base]
  BY DEF Appended, keep
<1> HIDE DEF doc, base, m
<1>6. /\ DOMAIN m = NodeField /\ m = [f \in NodeField |-> m[f]] /\ m.doc = doc /\ m.base = base
      /\ \A f \in NodeField \ {"doc", "base"} : m[f] = n[f]
  BY <1>5 DEF NodeOK, NodeField
<1>7. m.saved = n.saved /\ m.boot = n.boot /\ m.schema = n.schema /\ m.expected = n.expected /\ m.life = n.life
  BY <1>6 DEF NodeField
<1>8. NodeOK(m)
  BY <1>1, <1>2, <1>4, <1>6, <1>7 DEF NodeOK
<1>9. QED
  BY <1>6, <1>8 DEF m, doc

\* Saving a component's state.
LEMMA SavedIs ==
    ASSUME NEW n, NodeOK(n)
    PROVE  /\ NodeOK(Saved(n)) /\ Saved(n).doc = n.doc /\ Saved(n).saved = Len(n.doc)
<1> DEFINE m == Saved(n)
<1>1. /\ DOMAIN m = NodeField /\ m = [f \in NodeField |-> m[f]] /\ m.saved = Len(n.doc)
      /\ m.doc = n.doc /\ m.base = n.base /\ m.boot = n.boot /\ m.schema = n.schema
      /\ m.expected = n.expected /\ m.life = n.life
  BY DEF NodeOK, NodeField, Saved
<1> HIDE DEF m
<1>2. Len(n.doc) \in 0..Len(n.doc)
  BY DEF NodeOK
<1>3. NodeOK(m)
  BY <1>1, <1>2 DEF NodeOK
<1>4. QED
  BY <1>1, <1>3 DEF m

\* What the first k records of a batch make of a component, applied one by one.
LEMMA PrefixIs ==
    ASSUME NEW n, NodeOK(n), NEW batch, batch.entries \in Seq(Entry), NEW k \in 0..Len(batch.entries)
    PROVE  LET m == AppliedPrefix(n, batch, k)
           IN  /\ NodeOK(m)
               /\ Len(m.doc) = Len(n.doc) + k
               /\ \A j \in 1..Len(n.doc) : m.doc[j] = n.doc[j]
               /\ \A j \in 1..k : m.doc[Len(n.doc) + j] = batch.entries[j]
               /\ \A f \in NodeField \ {"doc", "base"} : m[f] = n[f]
<1> DEFINE Kept(m) == \A f \in NodeField \ {"doc", "base"} : m[f] = n[f]
           Candidates == {[f \in NodeField |-> IF f = "doc" THEN d ELSE IF f = "base" THEN b ELSE n[f]] :
                            d \in Seq(Entry), b \in Nat}
           T == {m \in Candidates : NodeOK(m)}
           h == [p \in (1..k) \X T |-> Appended(p[2], batch.entries[p[1]])]
           grown == CHOOSE g : g = [i \in 0..k |-> IF i = 0 THEN n ELSE Appended(g[i - 1], batch.entries[i])]
<1>1. k \in Nat /\ \A i \in 1..k : batch.entries[i] \in Entry
  OBVIOUS
<1>2. n.doc \in Seq(Entry) /\ Len(n.doc) \in Nat
  BY DEF NodeOK
<1>3. ASSUME NEW m, NodeOK(m), Kept(m)
      PROVE  m \in T
  <2>1. m = [f \in NodeField |-> IF f = "doc" THEN m.doc ELSE IF f = "base" THEN m.base ELSE n[f]]
    BY <1>3 DEF NodeOK
  <2>2. m.doc \in Seq(Entry) /\ m.base \in Nat
    BY <1>3 DEF NodeOK
  <2>3. QED
    BY <1>3, <2>1, <2>2
<1>4. ASSUME NEW m \in T
      PROVE  NodeOK(m) /\ Kept(m)
  BY DEF NodeField
<1>5. n \in T
  BY <1>3
<1> HIDE DEF T
<1>6. ASSUME NEW m \in T, NEW i \in 1..k
      PROVE  Appended(m, batch.entries[i]) \in T /\ Appended(m, batch.entries[i]).doc = Append(m.doc, batch.entries[i])
  <2>1. NodeOK(m) /\ Kept(m)
    BY <1>4
  <2>2. /\ NodeOK(Appended(m, batch.entries[i]))
        /\ Appended(m, batch.entries[i]).doc = Append(m.doc, batch.entries[i])
        /\ \A f \in NodeField \ {"doc", "base"} : Appended(m, batch.entries[i])[f] = m[f]
    BY <1>1, <2>1, AppendedIs
  <2>3. Kept(Appended(m, batch.entries[i]))
    BY <2>1, <2>2
  <2>4. QED
    BY <1>3, <2>2, <2>3
<1>7. h \in [(1..k) \X T -> T]
  BY <1>6
<1>8. PICK g \in [0..k -> T] : Rec!Iterates(g, n, h, k)
  <2> HIDE DEF h
  <2> QED BY <1>1, <1>5, <1>7, Rec!Iteration
<1>9. g[0] = n /\ \A i \in 1..k : g[i - 1] \in T /\ g[i] = Appended(g[i - 1], batch.entries[i])
  <2>1. \A i \in 1..k : i - 1 \in 0..k /\ g[i - 1] \in T
    BY <1>1, <1>8
  <2>2. \A i \in 1..k : h[<<i, g[i - 1]>>] = Appended(g[i - 1], batch.entries[i])
    BY <2>1
  <2> HIDE DEF h
  <2>3. QED
    BY <1>8, <2>1, <2>2 DEF Rec!Iterates
<1>10. g = [i \in 0..k |-> IF i = 0 THEN n ELSE Appended(g[i - 1], batch.entries[i])]
  BY <1>1, <1>8, <1>9
<1>11. grown = [i \in 0..k |-> IF i = 0 THEN n ELSE Appended(grown[i - 1], batch.entries[i])]
  BY <1>10
<1> HIDE DEF grown
<1> DEFINE Good(m, i) ==
             /\ m \in T
             /\ Len(m.doc) = Len(n.doc) + i
             /\ \A j \in 1..Len(n.doc) : m.doc[j] = n.doc[j]
             /\ \A j \in 1..i : m.doc[Len(n.doc) + j] = batch.entries[j]
           S == {i \in 0..k : Good(grown[i], i)}
<1>12. 0 \in S
  BY <1>1, <1>2, <1>5, <1>11
<1>13. ASSUME NEW i \in 0..k, i \in S, i < k
       PROVE  i + 1 \in S
  <2> DEFINE m == grown[i]
             x == batch.entries[i + 1]
             e == grown[i + 1]
  <2>1. i \in Nat /\ i + 1 \in 1..k /\ i + 1 \in 0..k /\ i + 1 # 0 /\ (i + 1) - 1 = i /\ x \in Entry
    BY <1>1, <1>13
  <2>2. e = Appended(m, x)
    BY <1>11, <2>1
  <2>3. Good(m, i)
    BY <1>13
  <2>4. e \in T /\ e.doc = Append(m.doc, x)
    <3>1. m \in T
      BY <2>3
    <3> HIDE DEF m, e
    <3>2. QED
      BY <1>6, <2>1, <2>2, <3>1
  <2>5. m.doc \in Seq(Entry)
    BY <1>4, <2>3 DEF NodeOK
  <2> HIDE DEF m, e, x, S
  <2>6. /\ Len(e.doc) = Len(m.doc) + 1 /\ e.doc[Len(m.doc) + 1] = x
        /\ \A j \in 1..Len(m.doc) : e.doc[j] = m.doc[j]
    BY <2>1, <2>4, <2>5
  <2>7. Len(m.doc) + 1 = Len(n.doc) + (i + 1) /\ Len(e.doc) = Len(n.doc) + (i + 1)
    <3>1. Len(m.doc) = Len(n.doc) + i
      BY <2>3
    <3>2. Len(m.doc) + 1 = Len(n.doc) + (i + 1)
      <4>1. \A a, b \in Nat : (a + b) + 1 = a + (b + 1)
        OBVIOUS
      <4>2. QED
        BY <1>2, <2>1, <3>1, <4>1, Zenon
    <3>3. QED
      BY <2>6, <3>2
  <2>8. \A j \in 1..Len(n.doc) : e.doc[j] = n.doc[j]
    BY <1>2, <2>1, <2>3, <2>6
  <2>9. \A j \in 1..(i + 1) : e.doc[Len(n.doc) + j] = batch.entries[j]
    <3>1. \A j \in 1..i : Len(n.doc) + j \in 1..Len(m.doc) /\ m.doc[Len(n.doc) + j] = batch.entries[j]
      BY <1>2, <2>1, <2>3
    <3>2. e.doc[Len(n.doc) + (i + 1)] = batch.entries[i + 1]
      BY <2>6, <2>7 DEF x
    <3>3. \A j \in 1..(i + 1) : j \in 1..i \/ j = i + 1
      BY <2>1
    <3>4. QED
      BY <2>6, <3>1, <3>2, <3>3
  <2>10. QED
    BY <2>1, <2>4, <2>7, <2>8, <2>9 DEF e, S
<1>14. k \in S
  <2> HIDE DEF S
  <2>1. \A i \in 0..k : i \in S
    BY <1>1, <1>12, <1>13, Rec!UpTo
  <2>2. QED
    BY <1>1, <2>1
<1>15. AppliedPrefix(n, batch, k) = grown[k]
  BY DEF AppliedPrefix, grown
<1>16. QED
  BY <1>4, <1>14, <1>15

\* There is a longest prefix of a batch that fits.
LEMMA MostFits ==
    ASSUME NEW n, NEW batch, batch.entries \in Seq(Entry)
    PROVE  (CHOOSE i \in Fitting(n, batch) : \A j \in Fitting(n, batch) : j <= i) \in Fitting(n, batch)
<1> DEFINE F == Fitting(n, batch)
           L == Len(batch.entries)
           D == {L - j : j \in F}
<1>1. L \in Nat
  OBVIOUS
<1>2. F \subseteq 0..L /\ 0 \in F
  BY <1>1 DEF Fitting
<1> HIDE DEF F, L
<1>3. D \in SUBSET Nat /\ D # {}
  <2>1. \A j \in F : L - j \in Nat
    BY <1>1, <1>2
  <2>2. L - 0 \in D
    BY <1>2
  <2>3. QED
    BY <2>1, <2>2
<1>4. PICK d \in D : \A e \in D : d <= e
  <2> HIDE DEF D
  <2> QED BY <1>3, Rec!LeastElement
<1>5. PICK i \in F : d = L - i
  BY <1>4
<1>6. \A j \in F : j <= i
  <2> SUFFICES ASSUME NEW j \in F PROVE j <= i
    OBVIOUS
  <2>1. L - i <= L - j
    BY <1>4, <1>5
  <2>2. i \in 0..L /\ j \in 0..L
    BY <1>2
  <2>3. QED
    BY <1>1, <2>1, <2>2
<1>7. \E k \in F : \A j \in F : j <= k
  BY <1>6
<1>8. (CHOOSE k \in F : \A j \in F : j <= k) \in F
  BY <1>7
<1>9. QED
  BY <1>8 DEF F

\* What a request makes of a component: its state stays well formed, and its document is the
\* one it was, the one it was and the source's put together, or one probe longer.  Requests that
\* the source gets too change no more than that, and leave nothing unsaved that was saved.
Effect(n, m, op, s) ==
    /\ NodeOK(m)
    /\ Blend(m.doc, n.doc, s) \/ AddedTo(m.doc, n.doc, 0)
    /\ op \notin TargetOnly =>
        /\ m.doc = n.doc \/ AddedTo(m.doc, n.doc, 0)
        /\ n.saved = Len(n.doc) => m.saved = Len(m.doc)

\* A handler that leaves the document alone.
LEMMA DocumentStays ==
    ASSUME NEW n, NEW m, NEW op, NEW s, NodeOK(m), m.doc = n.doc, m.saved \in {n.saved, Len(m.doc)}
    PROVE  Effect(n, m, op, s)
BY DEF Effect, Blend

\* A write that is accepted adds it to the document and saves.
LEMMA WriteAdds ==
    ASSUME NEW n, NodeOK(n), NEW inc \in Incarnation, NEW claim, NEW value \in Nat, NEW t
    PROVE  LET r == Write(n, inc, claim, value, t)
           IN  /\ ~r.ok => r.node = n
               /\ r.ok => NodeOK(r.node) /\ AddedTo(r.node.doc, n.doc, value) /\ r.node.saved = Len(r.node.doc)
<1> DEFINE x == [value |-> value, origin |-> inc, form |-> n.schema]
           a == Appended(n, x)
           r == Write(n, inc, claim, value, t)
<1>1. x \in Entry /\ x.value = value
  BY DEF Entry, NodeOK
<1> HIDE DEF x
<1>2. NodeOK(a) /\ a.doc = Append(n.doc, x)
  BY <1>1, AppendedIs
<1> HIDE DEF a
<1>3. NodeOK(Saved(a)) /\ Saved(a).doc = a.doc /\ Saved(a).saved = Len(a.doc)
  BY <1>2, SavedIs
<1>4. r = Ok(Saved(a), 0) \/ r = Deny(n)
  BY DEF Write, a, x
<1>5. AddedTo(Saved(a).doc, n.doc, value)
  BY <1>1, <1>2, <1>3 DEF AddedTo
<1>6. QED
  BY <1>3, <1>4, <1>5 DEF Ok, Deny

\* apply_records, whole batches and those that stop half-way.
LEMMA ApplyBlends ==
    ASSUME NEW n, NodeOK(n), NEW binding, NEW s, NEW batch, Segment(batch, s)
    PROVE  LET r == ApplyRecords(n, binding, batch)
           IN  /\ NodeOK(r.node) /\ Blend(r.node.doc, n.doc, s)
               /\ r.ok => r.body \in Nat
<1> DEFINE k == CHOOSE i \in Fitting(n, batch) : \A j \in Fitting(n, batch) : j <= i
           p == AppliedPrefix(n, batch, k)
           r == ApplyRecords(n, binding, batch)
<1>1. batch.entries \in Seq(Entry) /\ Len(batch.entries) \in Nat
  BY DEF Segment
<1>2. k \in Fitting(n, batch)
  BY <1>1, MostFits
<1> HIDE DEF k
<1>3. k \in 0..Len(batch.entries) /\ (k = 0 \/ batch.first = Len(n.doc) + 1)
  BY <1>2 DEF Fitting, Lsn
<1>4. /\ NodeOK(p)
      /\ Len(p.doc) = Len(n.doc) + k
      /\ \A j \in 1..Len(n.doc) : p.doc[j] = n.doc[j]
      /\ \A j \in 1..k : p.doc[Len(n.doc) + j] = batch.entries[j]
  BY <1>1, <1>3, PrefixIs
<1> HIDE DEF p
<1>5. n.doc \in Seq(Entry) /\ p.doc \in Seq(Entry) /\ Len(n.doc) \in Nat
  BY <1>4 DEF NodeOK
<1>6. Blend(p.doc, n.doc, s)
  <2> SUFFICES ASSUME NEW i \in DOMAIN p.doc
               PROVE  \/ i \in DOMAIN n.doc /\ p.doc[i].value = n.doc[i].value
                      \/ i \in DOMAIN s /\ p.doc[i].value = s[i].value
    BY DEF Blend
  <2>1. i \in 1..(Len(n.doc) + k)
    BY <1>4, <1>5
  <2>2. CASE i \in 1..Len(n.doc)
    BY <1>4, <1>5, <2>2
  <2>3. CASE i \notin 1..Len(n.doc)
    <3> DEFINE j == i - Len(n.doc)
    <3>1. j \in 1..k /\ i = Len(n.doc) + j /\ k # 0
      BY <1>3, <1>5, <2>1, <2>3
    <3>2. j \in DOMAIN batch.entries /\ batch.first + j - 1 = i
      <4>1. batch.first = Len(n.doc) + 1 /\ i \in Int /\ j \in Int /\ j \in 1..Len(batch.entries)
        BY <1>1, <1>3, <1>5, <2>1, <3>1
      <4>2. batch.first + j - 1 = i
        BY <1>5, <3>1, <4>1
      <4> HIDE DEF j
      <4>3. QED
        BY <1>1, <4>1, <4>2
    <3> HIDE DEF j
    <3>3. p.doc[i] = batch.entries[j]
      BY <1>4, <3>1
    <3>4. QED
      BY <3>2, <3>3 DEF Segment
  <2>4. QED
    BY <2>2, <2>3
<1>7. NodeOK(Saved(p)) /\ Saved(p).doc = p.doc
  BY <1>4, SavedIs
<1>8. Blend(n.doc, n.doc, s)
  BY DEF Blend
<1>9. r \in {Ok(Saved(p), Lsn(Saved(p))), Deny(p), Deny(n)}
  BY DEF ApplyRecords, p, k
<1> HIDE DEF r
<1>10. CASE r = Ok(Saved(p), Lsn(Saved(p)))
  <2>1. r.node = Saved(p) /\ r.body = Len(p.doc)
    BY <1>7, <1>10 DEF Ok, Lsn
  <2>2. QED
    BY <1>5, <1>6, <1>7, <2>1 DEF r
<1>11. CASE r \in {Deny(p), Deny(n)}
  <2>1. r.node \in {p, n} /\ r.ok = FALSE
    BY <1>11 DEF Deny
  <2>2. QED
    BY <1>4, <1>6, <1>8, <2>1 DEF r
<1>12. QED
  BY <1>9, <1>10, <1>11

\* What one request makes of a component.
LEMMA Handled ==
    ASSUME NEW n, NodeOK(n), NEW inc \in Incarnation, NEW req, NEW s, Proper(req, s), NEW t
    PROVE  Effect(n, Dispatch(n, inc, req, t).node, req.op, s)
<1> DEFINE r == Dispatch(n, inc, req, t)
           m == r.node
<1> USE DEF Ok, Deny
<1>1. Effect(n, n, req.op, s)
  BY DocumentStays
<1>2. CASE req.op \in {"status", "prepare_source", "read_since", "readiness"}
  <2>1. m = n
    BY <1>2 DEF Dispatch, PreparePredecessor, ReadSince, Readiness
  <2>2. QED
    BY <1>1, <2>1
<1>3. CASE req.op \in {"prepare_target", "reattest"}
  <2>1. \/ m = n
        \/ req.op = "prepare_target" /\ m = [n EXCEPT !.expected = req.binding]
        \/ req.op = "reattest" /\ m = [n EXCEPT !.confirmed = TRUE]
    BY <1>3 DEF Dispatch, PrepareSuccessor, Reattest
  <2>2. NodeOK(m) /\ m.doc = n.doc /\ m.saved = n.saved
    BY <1>3, <2>1 DEF NodeOK, NodeField, Proper
  <2> HIDE DEF m
  <2>3. QED
    BY <2>2, DocumentStays DEF m
<1>4. CASE req.op \in {"snapshot", "fence", "grant_authority", "retire"}
  <2>1. ASSUME NEW u, NodeOK(u), u.doc = n.doc, m = Saved(u)
        PROVE  Effect(n, m, req.op, s)
    <3>1. NodeOK(m) /\ m.doc = n.doc /\ m.saved = Len(m.doc)
      BY <2>1, SavedIs
    <3> HIDE DEF m
    <3>2. QED
      BY <3>1, DocumentStays
  <2>2. CASE req.op = "snapshot"
    <3>1. m = n \/ m = Saved(n)
      BY <2>2 DEF Dispatch, Snapshot
    <3>2. QED
      BY <1>1, <2>1, <3>1
  <2>3. CASE req.op = "fence"
    <3> DEFINE u == [n EXCEPT !.life = "Fenced", !.confirmed = FALSE, !.lastFence = req.fence]
    <3>1. m = n \/ m = Saved(u)
      BY <2>3 DEF Dispatch, AcceptFence
    <3>2. NodeOK(u) /\ u.doc = n.doc
      BY DEF NodeOK, NodeField
    <3> HIDE DEF u, m
    <3>3. QED
      BY <1>1, <2>1, <3>1, <3>2 DEF m
  <2>4. CASE req.op = "grant_authority"
    <3> DEFINE l == [epoch |-> req.claim.epoch, generation |-> req.claim.generation,
                     token |-> req.claim.token, expires |-> t + LeaseTtl]
               u == [n EXCEPT !.lease = l, !.confirmed = TRUE, !.life = "Serving"]
    <3>1. m = n \/ m = Saved(u)
      BY <2>4 DEF Dispatch, GrantAuthority
    <3> HIDE DEF l
    <3>2. NodeOK(u) /\ u.doc = n.doc
      BY DEF NodeOK, NodeField
    <3> HIDE DEF u, m
    <3>3. QED
      BY <1>1, <2>1, <3>1, <3>2 DEF m
  <2>5. CASE req.op = "retire"
    <3> DEFINE u == [n EXCEPT !.life = "Retired", !.retired = TRUE, !.confirmed = FALSE]
    <3>1. m = Saved(u)
      BY <2>5 DEF Dispatch, Retire
    <3>2. NodeOK(u) /\ u.doc = n.doc
      BY DEF NodeOK, NodeField
    <3> HIDE DEF u, m
    <3>3. QED
      BY <2>1, <3>1, <3>2 DEF m
  <2>6. QED
    BY <1>4, <2>2, <2>3, <2>4, <2>5
<1>5. CASE req.op = "write"
  <2> DEFINE w == Write(n, inc, req.claim, 0, t)
  <2>1. r = w
    BY <1>5 DEF Dispatch, Proper
  <2>2. /\ ~w.ok => w.node = n
        /\ w.ok => NodeOK(w.node) /\ AddedTo(w.node.doc, n.doc, 0) /\ w.node.saved = Len(w.node.doc)
    BY WriteAdds
  <2> HIDE DEF w, r
  <2>3. QED
    BY <1>1, <2>1, <2>2 DEF Effect, r
<1>6. CASE req.op = "install_snapshot"
  <2> DEFINE d == req.snapshot.doc
             u == [n EXCEPT !.doc = d, !.base = Len(d), !.schema = SourceSchema]
  <2>1. Copy(d, s) /\ d \in Seq(Entry) /\ Len(d) \in Nat
    BY <1>6 DEF Proper, Copy
  <2>2. m = n \/ m = Saved([n EXCEPT !.doc = req.snapshot.doc, !.base = Len(req.snapshot.doc),
                                     !.schema = SourceSchema])
    BY <1>6 DEF Dispatch, InstallSnapshot
  <2> HIDE DEF d
  <2>3. Len(d) \in 0..Len(d)
    BY <2>1
  <2>4. /\ DOMAIN [u EXCEPT !.saved = Len(u.doc)] = NodeField
        /\ Saved(u) = [f \in NodeField |-> Saved(u)[f]]
        /\ Saved(u).doc = d /\ Saved(u).base = Len(d) /\ Saved(u).saved = Len(d)
        /\ Saved(u).schema = SourceSchema /\ Saved(u).boot = n.boot
        /\ Saved(u).expected = n.expected /\ Saved(u).life = n.life
    BY DEF NodeOK, NodeField, Saved
  <2>5. NodeOK(Saved(u))
    BY <2>1, <2>3, <2>4 DEF NodeOK, Saved
  <2>6. Blend(Saved(u).doc, n.doc, s)
    BY <2>1, <2>4 DEF Blend, Copy
  <2>7. m = n \/ m = Saved(u)
    BY <2>2 DEF d
  <2> HIDE DEF u, m
  <2>8. QED
    BY <1>1, <1>6, <2>5, <2>6, <2>7 DEF Effect, TargetOnly, m
<1>7. CASE req.op = "apply_records"
  <2>1. r = ApplyRecords(n, req.binding, req.batch)
    BY <1>7 DEF Dispatch
  <2>2. NodeOK(m) /\ Blend(m.doc, n.doc, s)
    BY <1>7, <2>1, ApplyBlends DEF Proper
  <2> HIDE DEF r
  <2>3. QED
    BY <1>7, <2>2 DEF Effect, TargetOnly, r
<1>8. CASE req.op = "migrate"
  <2> DEFINE d == [i \in DOMAIN n.doc |-> [n.doc[i] EXCEPT !.form = TargetSchema]]
             u == [n EXCEPT !.schema = TargetSchema, !.doc = d]
  <2>1. m = n \/ m = Saved(u)
    BY <1>8 DEF Dispatch, Migrate
  <2>2. d \in Seq(Entry) /\ Len(d) = Len(n.doc) /\ DOMAIN d = DOMAIN n.doc /\ \A i \in DOMAIN d : d[i].value = n.doc[i].value
    <3>1. n.doc \in Seq(Entry)
      BY DEF NodeOK
    <3>2. \A i \in DOMAIN n.doc : n.doc[i] \in Entry
      BY <3>1
    <3>3. \A x \in Entry : [x EXCEPT !.form = TargetSchema] \in Entry /\ [x EXCEPT !.form = TargetSchema].value = x.value
      BY DEF Entry
    <3>4. d \in [1..Len(n.doc) -> Entry]
      BY <3>1, <3>2, <3>3
    <3>5. d \in Seq(Entry) /\ Len(d) = Len(n.doc)
      <4> HIDE DEF d
      <4> QED BY <3>1, <3>4
    <3>6. QED
      BY <3>1, <3>2, <3>3, <3>5
  <2> HIDE DEF d
  <2>3. NodeOK(u) /\ u.doc = d
    BY <2>2 DEF NodeOK, NodeField
  <2> HIDE DEF u
  <2>4. NodeOK(Saved(u)) /\ Saved(u).doc = d
    BY <2>3, SavedIs
  <2>5. Blend(d, n.doc, s)
    BY <2>2 DEF Blend
  <2> HIDE DEF m
  <2>6. QED
    BY <1>1, <1>8, <2>1, <2>4, <2>5 DEF Effect, TargetOnly, m
<1>9. QED
  BY <1>2, <1>3, <1>4, <1>5, <1>6, <1>7, <1>8 DEF Proper

\* A report comes from a component that exists.
Real(report) == report.inc \in Incarnation /\ report.lsn \in Nat

\* What the controller can rely on in an answer; s is the source's document.
LEMMA Answered ==
    ASSUME NEW n, NodeOK(n), NEW inc \in Incarnation, NEW req, NEW s, Proper(req, s), NEW t
    PROVE  LET r == Dispatch(n, inc, req, t)
           IN  /\ req.op = "status" => r.ok /\ Real(r.body)
               /\ req.op = "snapshot" /\ n.doc = s /\ r.ok => Copy(r.body.doc, s)
               /\ req.op = "read_since" /\ n.doc = s /\ req.from \in Nat => r.ok /\ Segment(r.body, s)
               /\ req.op = "apply_records" /\ r.ok => r.body \in Nat
               /\ req.op = "readiness" /\ r.ok => r.body.lsn \in Nat
<1> DEFINE r == Dispatch(n, inc, req, t)
<1> USE DEF Ok, Deny
<1>1. n.doc \in Seq(Entry) /\ Len(n.doc) \in Nat /\ n.base \in Nat
  BY DEF NodeOK
<1>2. ASSUME req.op = "status" PROVE r.ok /\ Real(r.body)
  BY <1>1, <1>2 DEF Dispatch, Report, Real, Lsn
<1>3. ASSUME req.op = "snapshot", n.doc = s, r.ok PROVE Copy(r.body.doc, s)
  BY <1>1, <1>3 DEF Dispatch, Snapshot, Copy
<1>4. ASSUME req.op = "read_since", n.doc = s, req.from \in Nat PROVE r.ok /\ Segment(r.body, s)
  <2> DEFINE first == IF req.from > n.base THEN req.from ELSE n.base
             last == IF first + MaxBatch < Len(n.doc) THEN first + MaxBatch ELSE Len(n.doc)
             e == SubSeq(n.doc, first + 1, last)
  <2>1. r.ok /\ r.body.first = first + 1 /\ r.body.entries = e
    BY <1>4 DEF Dispatch, ReadSince, Lsn
  <2>2. first \in Nat /\ last \in Int /\ last <= Len(n.doc)
    BY <1>1, <1>4, NodeAssumption
  <2> HIDE DEF first, last, r
  <2>3. e \in Seq(Entry) /\ \A i \in DOMAIN e : first + i \in DOMAIN n.doc /\ e[i] = n.doc[first + i]
    <3>1. CASE first + 1 > last
      BY <1>1, <2>2, <3>1
    <3>2. CASE ~(first + 1 > last)
      BY <1>1, <2>2, <3>2
    <3>3. QED
      BY <3>1, <3>2
  <2> HIDE DEF e
  <2>4. \A i \in DOMAIN e : i \in Nat /\ (first + 1) + i - 1 = first + i
    BY <2>2, <2>3
  <2>5. QED
    BY <1>4, <2>1, <2>2, <2>3, <2>4 DEF Segment
<1>5. ASSUME req.op = "apply_records", r.ok PROVE r.body \in Nat
  <2>1. r = ApplyRecords(n, req.binding, req.batch)
    BY <1>5 DEF Dispatch
  <2>2. QED
    BY <1>5, <2>1, ApplyBlends DEF Proper
<1>6. ASSUME req.op = "readiness", r.ok PROVE r.body.lsn \in Nat
  BY <1>1, <1>6 DEF Dispatch, Readiness, Lsn
<1>7. QED
  BY <1>2, <1>3, <1>4, <1>5, <1>6

\* A component that restarts has the saved part of its document.
LEMMA RebootedIs ==
    ASSUME NEW n, NodeOK(n), n.boot < MaxBoot
    PROVE  LET m == Rebooted(n)
           IN  /\ NodeOK(m)
               /\ \A s : Blend(m.doc, n.doc, s)
               /\ n.saved = Len(n.doc) => m.doc = n.doc /\ m.saved = Len(m.doc)
<1> DEFINE m == Rebooted(n)
           d == SubSeq(n.doc, 1, n.saved)
<1>1. n.doc \in Seq(Entry) /\ Len(n.doc) \in Nat /\ n.saved \in 0..Len(n.doc) /\ n.base \in 0..Len(n.doc)
  BY DEF NodeOK
<1>2. d \in Seq(Entry) /\ Len(d) = n.saved /\ \A i \in DOMAIN d : i \in DOMAIN n.doc /\ d[i] = n.doc[i]
  BY <1>1
<1>3. n.saved = Len(n.doc) => d = n.doc
  BY <1>1
<1>4. /\ DOMAIN m = NodeField /\ m = [f \in NodeField |-> m[f]]
      /\ m.boot = n.boot + 1 /\ m.doc = d /\ m.base = (IF n.base > n.saved THEN n.saved ELSE n.base)
      /\ m.saved = n.saved /\ m.schema = n.schema /\ m.expected = NoBinding
      /\ m.life = (IF n.retired THEN "Retired" ELSE "Serving")
  BY DEF Rebooted, NodeOK, NodeField
<1> HIDE DEF d, m
<1>5. m.boot \in 1..MaxBoot /\ m.base \in 0..Len(m.doc) /\ m.saved \in 0..Len(m.doc)
  <2>1. MaxBoot \in Nat /\ n.boot \in 1..MaxBoot
    BY EvolutionAssumption DEF NodeOK
  <2>2. m.boot \in 1..MaxBoot
    BY <1>4, <2>1
  <2>3. QED
    BY <1>1, <1>2, <1>4, <2>2
<1>6. NodeOK(m)
  BY <1>2, <1>4, <1>5 DEF NodeOK
<1>7. QED
  BY <1>2, <1>3, <1>4, <1>6 DEF Blend, m

----------------------------------------------------------------------------
(* The two documents *)

\* No client's write is in d twice; the probes of verification all have the value 0.
Distinct(d) == \A i, j \in DOMAIN d : d[i].value = d[j].value => i = j \/ d[i].value = 0

\* Every entry of t is a probe, the one of s at its position, or one that s has nowhere.
Faithful(t, s) ==
    \A i \in DOMAIN t : \/ t[i].value = 0
                        \/ i \in DOMAIN s /\ t[i].value = s[i].value
                        \/ \A j \in DOMAIN s : s[j].value # t[i].value

\* d holds acknowledged writes and probes only.
Known(d, ak) == \A i \in DOMAIN d : d[i].value \in ak \cup {0}

\* The source's document s and the target's t, ak being the writes acknowledged.
Replicated(s, t, ak) ==
    /\ Distinct(s) /\ Distinct(t)
    /\ Faithful(t, s)
    /\ Known(s, ak) /\ Known(t, ak)

\* Records of the source that reach the target in any order, any number of times.
LEMMA BlendedStays ==
    ASSUME NEW s, NEW t, NEW ak, Replicated(s, t, ak), NEW e, Blend(e, t, s)
    PROVE  Replicated(s, e, ak)
<1>1. Distinct(e)
  <2> SUFFICES ASSUME NEW i \in DOMAIN e, NEW j \in DOMAIN e, e[i].value = e[j].value, e[i].value # 0
               PROVE  i = j
    BY DEF Distinct
  <2> DEFINE v == e[i].value
             InT(k) == k \in DOMAIN t /\ t[k].value = v
             InS(k) == k \in DOMAIN s /\ s[k].value = v
  <2>1. (InT(i) \/ InS(i)) /\ (InT(j) \/ InS(j))
    BY DEF Blend
  <2>2. ASSUME NEW k, NEW l, InT(k), InS(l) PROVE k = l
    BY <2>2 DEF Replicated, Faithful, Distinct
  <2>3. ASSUME NEW k, NEW l, InT(k), InT(l) PROVE k = l
    BY <2>3 DEF Replicated, Distinct
  <2>4. ASSUME NEW k, NEW l, InS(k), InS(l) PROVE k = l
    BY <2>4 DEF Replicated, Distinct
  <2> HIDE DEF InT, InS
  <2>5. QED
    BY <2>1, <2>2, <2>3, <2>4
<1>2. Faithful(e, s)
  BY DEF Replicated, Faithful, Blend
<1>3. Known(e, ak)
  BY DEF Replicated, Known, Blend
<1>4. QED
  BY <1>1, <1>2, <1>3 DEF Replicated

\* Appending to a document.
LEMMA AddedIs ==
    ASSUME NEW d \in Seq(Entry), NEW e, NEW value, AddedTo(e, d, value)
    PROVE  /\ e \in Seq(Entry)
           /\ \A i \in DOMAIN e : i \in DOMAIN d \/ e[i].value = value
           /\ \A i \in DOMAIN d : i \in DOMAIN e /\ e[i] = d[i]
           /\ \A i, j \in DOMAIN e : i \notin DOMAIN d /\ j \notin DOMAIN d => i = j
<1>1. PICK x \in Entry : x.value = value /\ e = Append(d, x)
  BY DEF AddedTo
<1>2. /\ e \in Seq(Entry) /\ DOMAIN e = 1..(Len(d) + 1) /\ DOMAIN d = 1..Len(d) /\ Len(d) \in Nat
      /\ e[Len(d) + 1] = x /\ \A i \in 1..Len(d) : e[i] = d[i]
  BY <1>1
<1>3. \A i \in DOMAIN e : i \in DOMAIN d \/ i = Len(d) + 1
  BY <1>2
<1>4. \A i \in DOMAIN d : i \in DOMAIN e
  BY <1>2
<1>5. QED
  BY <1>1, <1>2, <1>3, <1>4

\* A value added to either document that is a probe or new to both.
LEMMA AddedStays ==
    ASSUME NEW s \in Seq(Entry), NEW t \in Seq(Entry), NEW ak, Replicated(s, t, ak),
           NEW value, value = 0 \/ value \notin ak, NEW all, ak \subseteq all, value \in all \cup {0}, NEW e
    PROVE  /\ AddedTo(e, t, value) => Replicated(s, e, all)
           /\ AddedTo(e, s, value) => Replicated(e, t, all)
<1> DEFINE Longer(d) == /\ \A i \in DOMAIN e : i \in DOMAIN d \/ e[i].value = value
                        /\ \A i \in DOMAIN d : i \in DOMAIN e /\ e[i] = d[i]
                        /\ \A i, j \in DOMAIN e : i \notin DOMAIN d /\ j \notin DOMAIN d => i = j
<1>1. ASSUME NEW d, Longer(d), Distinct(d), Known(d, ak)
      PROVE  Distinct(e) /\ Known(e, all)
  <2>1. Known(e, all)
    BY <1>1 DEF Known
  <2> SUFFICES ASSUME NEW i \in DOMAIN e, NEW j \in DOMAIN e, e[i].value = e[j].value, e[i].value # 0
               PROVE  i = j
    BY <2>1 DEF Distinct
  <2>2. CASE i \in DOMAIN d /\ j \in DOMAIN d
    BY <1>1, <2>2 DEF Distinct
  <2>3. CASE i \in DOMAIN d /\ j \notin DOMAIN d
    BY <1>1, <2>3 DEF Known
  <2>4. CASE i \notin DOMAIN d /\ j \in DOMAIN d
    BY <1>1, <2>4 DEF Known
  <2>5. CASE i \notin DOMAIN d /\ j \notin DOMAIN d
    BY <1>1, <2>5
  <2>6. QED
    BY <2>2, <2>3, <2>4, <2>5
<1>2. \A d \in {s, t} : Known(d, all)
  BY DEF Known, Replicated
<1>3. ASSUME AddedTo(e, t, value) PROVE Replicated(s, e, all)
  <2>1. Longer(t)
    BY <1>3, AddedIs
  <2>2. Distinct(e) /\ Known(e, all)
    BY <1>1, <2>1 DEF Replicated
  <2>3. Faithful(e, s)
    BY <2>1 DEF Faithful, Replicated, Known
  <2>4. QED
    BY <1>2, <2>2, <2>3 DEF Replicated
<1>4. ASSUME AddedTo(e, s, value) PROVE Replicated(e, t, all)
  <2>1. Longer(s)
    BY <1>4, AddedIs
  <2>2. Distinct(e) /\ Known(e, all)
    BY <1>1, <2>1 DEF Replicated
  <2>3. Faithful(t, e)
    <3> SUFFICES ASSUME NEW i \in DOMAIN t, t[i].value # 0
                 PROVE  \/ i \in DOMAIN e /\ t[i].value = e[i].value
                        \/ \A j \in DOMAIN e : e[j].value # t[i].value
      BY DEF Faithful
    <3>1. CASE i \in DOMAIN s /\ t[i].value = s[i].value
      BY <2>1, <3>1
    <3>2. CASE \A j \in DOMAIN s : s[j].value # t[i].value
      BY <2>1, <3>2 DEF Replicated, Known
    <3>3. QED
      BY <3>1, <3>2 DEF Replicated, Faithful
  <2>4. QED
    BY <1>2, <2>2, <2>3 DEF Replicated
<1>5. QED
  BY <1>3, <1>4

\* The source's document has grown from s to e.
Grown(s, e) == \A i \in DOMAIN s : i \in DOMAIN e /\ e[i].value = s[i].value

\* A request that was proper stays so.
LEMMA ProperStays ==
    ASSUME NEW req, NEW s, NEW e, Proper(req, s), Grown(s, e)
    PROVE  Proper(req, e)
<1>1. ASSUME NEW d, Copy(d, s) PROVE Copy(d, e)
  BY <1>1 DEF Copy, Grown
<1>2. ASSUME NEW b, Segment(b, s) PROVE Segment(b, e)
  BY <1>2 DEF Segment, Grown
<1>3. QED
  BY <1>1, <1>2 DEF Proper

----------------------------------------------------------------------------
(* The controller's state *)

MemField == {"auth", "camp", "crossed", "phase", "pred", "succ", "attempt", "claim", "lsn", "winAt", "winLsn"}

\* What the controller remembers is well formed, and a handoff has its two participants.
MemOK(m) ==
    /\ DOMAIN m = MemField /\ m = [f \in MemField |-> m[f]]
    /\ Sound(m.auth)
    /\ m.camp \in CampaignState
    /\ m.phase \in HandoffPhase \cup {NoHandoff}
    /\ m.attempt \in 0..MaxRestarts
    /\ m.pred \in Incarnation \cup {Nobody} /\ m.succ \in Incarnation \cup {Nobody}
    /\ m.phase # NoHandoff => m.pred \in Incarnation /\ m.succ \in Incarnation
    /\ m.claim \in Claim \cup {NoClaim}
    /\ m.lsn \in Nat

CtlField == {"mem", "disk", "irreversible", "pc", "op", "src", "tgt", "data", "rounds", "refreshes",
             "tokens", "plans"}

\* What holds of the controller at every call.
Base(c) ==
    /\ DOMAIN c = CtlField /\ c = [f \in CtlField |-> c[f]]
    /\ MemOK(c.mem) /\ MemOK(c.disk)
    /\ c.tokens \in Nat

\* The operation in progress is one that starts with the reports.
Reporting(c) ==
    /\ c.op \in {"begin", "advance", "prepare", "preflight", "reconcile"}
    /\ c.op = "advance" => c.mem.phase # NoHandoff

\* Both components have reported; a handoff that is beginning has been recorded.
Ensurable(c) ==
    /\ Reporting(c)
    /\ c.op = "begin" => c.mem.phase # NoHandoff
    /\ Real(c.src) /\ Real(c.tgt)

\* What holds when the call at pc is about to be made with data, s being the source's document.
Stage(c, pc, data, s) ==
    /\ pc = "report.src" => Reporting(c)
    /\ pc = "report.tgt" => Reporting(c) /\ Real(c.src)
    /\ pc \in {"ensure.renew", "ensure.reattest", "ensure.deliver"} =>
         Ensurable(c) /\ data \in DOMAIN c.mem.auth.leases
    /\ pc \in {"prepare.pred", "prepare.succ", "snapshot.prepare"} => data \in Claim
    /\ pc = "snapshot.install" => Copy(data.doc, s)
    /\ pc \in {"catchup.apply", "transfer.apply"} => Segment(data.batch, s)
    /\ pc \in {"catchup.tgt", "transfer.tgt", "transfer.read", "transfer.apply"} => Real(c.src)
    /\ pc \in {"transfer.src", "transfer.tgt", "transfer.read", "transfer.apply"} => c.mem.phase # NoHandoff
    /\ pc = "transfer.read" => data \in Nat

Fine(c, s) == Base(c) /\ Stage(c, c.pc, c.data, s)

\* d is c with other memory, which still has a handoff if c has.
Onward(c, d) ==
    /\ Base(d)
    /\ d.pc = c.pc /\ d.op = c.op /\ d.src = c.src /\ d.tgt = c.tgt /\ d.data = c.data /\ d.tokens = c.tokens
    /\ c.mem.phase # NoHandoff => d.mem.phase # NoHandoff

\* Such steps can be put together.
LEMMA OnwardIsTransitive ==
    ASSUME NEW c, NEW d, NEW e, Onward(c, d), Onward(d, e)
    PROVE  Onward(c, e)
BY DEF Onward

\* Replacing what the controller remembers by something well formed.
LEMMA MemoryReplaced ==
    ASSUME NEW c, Base(c), NEW m, MemOK(m), c.mem.phase # NoHandoff => m.phase # NoHandoff,
           NEW d, d = [c EXCEPT !.mem = m]
    PROVE  Onward(c, d) /\ d.mem = m
BY DEF Onward, Base, CtlField

\* save_state.
LEMMA SaveGoesOn ==
    ASSUME NEW c, Base(c)
    PROVE  Onward(c, Save(c)) /\ Save(c).mem = c.mem
BY DEF Onward, Base, CtlField, Save

\* The registry's record is replaced by a sound one.
LEMMA SetAuthGoesOn ==
    ASSUME NEW c, Base(c), NEW a, Sound(a)
    PROVE  /\ Onward(c, SetAuth(c, a))
           /\ SetAuth(c, a).mem.auth = a /\ SetAuth(c, a).mem.phase = c.mem.phase
           /\ SetAuth(c, a).mem.attempt = c.mem.attempt
<1> DEFINE m == [c.mem EXCEPT !.auth = a]
<1>1. SetAuth(c, a) = [c EXCEPT !.mem = m]
  BY DEF SetAuth
<1>2. MemOK(m) /\ m.auth = a /\ m.phase = c.mem.phase /\ m.attempt = c.mem.attempt
  BY DEF Base, MemOK, MemField
<1> HIDE DEF m
<1>3. QED
  BY <1>1, <1>2, MemoryReplaced

\* The handoff's target position moves.
LEMMA LsnGoesOn ==
    ASSUME NEW c, Base(c), NEW lsn \in Nat
    PROVE  Onward(c, [c EXCEPT !.mem.lsn = lsn])
<1> DEFINE m == [c.mem EXCEPT !.lsn = lsn]
<1>1. [c EXCEPT !.mem.lsn = lsn] = [c EXCEPT !.mem = m]
  OBVIOUS
<1>2. MemOK(m) /\ m.phase = c.mem.phase
  BY DEF Base, MemOK, MemField
<1> HIDE DEF m
<1>3. QED
  BY <1>1, <1>2, MemoryReplaced

\* The campaign's state changes.
LEMMA CampaignGoesOn ==
    ASSUME NEW c, Base(c), NEW camp \in CampaignState
    PROVE  Onward(c, [c EXCEPT !.mem.camp = camp])
<1> DEFINE m == [c.mem EXCEPT !.camp = camp]
<1>1. [c EXCEPT !.mem.camp = camp] = [c EXCEPT !.mem = m]
  OBVIOUS
<1>2. MemOK(m) /\ m.phase = c.mem.phase
  BY DEF Base, MemOK, MemField
<1> HIDE DEF m
<1>3. QED
  BY <1>1, <1>2, MemoryReplaced

\* record_phase, for the phases the controller records: none of them starts a handoff.
LEMMA RecordPhaseGoesOn ==
    ASSUME NEW c, Base(c), NEW to \in Prepared..PredecessorRetired
    PROVE  Onward(c, RecordPhase(c, to))
<1> DEFINE m == [c.mem EXCEPT !.phase = to]
           d == [c EXCEPT !.mem = m]
<1>1. RecordPhase(c, to) = c \/ (ValidTransition(c.mem.phase, to) /\ c.mem.phase # to /\ RecordPhase(c, to) = Save(d))
  BY DEF RecordPhase
<1>2. Onward(c, c)
  BY DEF Onward
<1>3. CASE ValidTransition(c.mem.phase, to) /\ c.mem.phase # to
  <2>1. c.mem.phase # NoHandoff /\ to # NoHandoff /\ to \in HandoffPhase
    BY <1>3 DEF ValidTransition, NoHandoff, HandoffPhase, Prepared, PredecessorRetired, NotStarted, Aborted, Failed
  <2>2. MemOK(m) /\ m.phase = to
    BY <2>1 DEF Base, MemOK, MemField
  <2> HIDE DEF m
  <2>3. Onward(c, d)
    BY <2>1, <2>2, MemoryReplaced
  <2> HIDE DEF d
  <2>4. Onward(d, Save(d))
    BY <2>3, SaveGoesOn DEF Onward
  <2>5. Onward(c, Save(d))
    BY <2>3, <2>4, OnwardIsTransitive
  <2>6. QED
    BY <1>1, <1>2, <2>5
<1>4. QED
  BY <1>1, <1>2, <1>3

\* apply_action.
LEMMA ApplyActionGoesOn ==
    ASSUME NEW c, Base(c), NEW action \in {"Preflight", "Start", "Pause", "Resume", "Abort", "ConfirmAbort", "Complete"}
    PROVE  Onward(c, ApplyAction(c, action))
<1> DEFINE camp == Decided(c, action)
           d == [c EXCEPT !.mem.camp = camp]
<1>1. camp \in CampaignState \cup {"refused", "deferred"}
  BY DEF Decided, Decision, CampaignState, PauseDecision, AbortDecision
<1>2. ApplyAction(c, action) = c \/ ApplyAction(c, action) = Save(c)
      \/ (camp \in CampaignState /\ ApplyAction(c, action) = Save(d))
  BY <1>1 DEF ApplyAction, Accepts
<1>3. Onward(c, c) /\ Onward(c, Save(c))
  BY SaveGoesOn DEF Onward
<1> HIDE DEF camp
<1>4. CASE camp \in CampaignState
  <2>1. Onward(c, d)
    BY <1>4, CampaignGoesOn
  <2> HIDE DEF d
  <2>2. Onward(d, Save(d))
    BY <2>1, SaveGoesOn DEF Onward
  <2>3. Onward(c, Save(d))
    BY <2>1, <2>2, OnwardIsTransitive
  <2>4. QED
    BY <1>2, <1>3, <2>3
<1>5. QED
  BY <1>2, <1>3, <1>4

\* restart_handoff, below the limit.
LEMMA RestartGoesOn ==
    ASSUME NEW c, Base(c), NEW pred \in Incarnation, NEW succ \in Incarnation,
           NEW rewind \in {NotStarted, Prepared}, c.mem.attempt < MaxRestarts
    PROVE  Onward(c, RestartHandoff(c, pred, succ, rewind))
<1> DEFINE m == [c.mem EXCEPT !.pred = pred, !.succ = succ, !.attempt = c.mem.attempt + 1, !.phase = rewind,
                              !.lsn = IF rewind = NotStarted THEN 0 ELSE c.mem.lsn]
           d == [c EXCEPT !.mem = m]
<1>1. RestartHandoff(c, pred, succ, rewind) = Save(d)
  BY DEF RestartHandoff
<1>2. c.mem.attempt + 1 \in 0..MaxRestarts /\ rewind \in HandoffPhase /\ rewind # NoHandoff
  BY EvolutionAssumption DEF Base, MemOK, HandoffPhase, NotStarted, Prepared, Aborted, NoHandoff
<1>3. MemOK(m) /\ m.phase = rewind
  BY <1>2 DEF Base, MemOK, MemField
<1> HIDE DEF m
<1>4. Onward(c, d)
  BY <1>2, <1>3, MemoryReplaced
<1> HIDE DEF d
<1>5. Onward(d, Save(d))
  BY <1>4, SaveGoesOn DEF Onward
<1>6. QED
  BY <1>1, <1>4, <1>5, OnwardIsTransitive

\* Where an operation ends, and where it goes on.
LEMMA IdleIsFine ==
    ASSUME NEW c, Base(c), NEW s
    PROVE  Fine(Idle(c), s) /\ Idle(c).pc = "idle" /\ Idle(c).mem = c.mem
BY DEF Fine, Stage, Base, CtlField, Idle

\* The call at pc may be made when its Stage has been reached.
LEMMA GotoIsFine ==
    ASSUME NEW c, Base(c), NEW pc, NEW data, NEW s, Stage(c, pc, data, s)
    PROVE  Fine(Goto(c, pc, data), s)
<1> DEFINE d == Goto(c, pc, data)
<1>1. Base(d) /\ d.pc = pc /\ d.data = data /\ d.op = c.op /\ d.mem = c.mem /\ d.src = c.src /\ d.tgt = c.tgt
  BY DEF Goto, Base, CtlField
<1> HIDE DEF d
<1>2. Stage(d, pc, data, s)
  BY <1>1 DEF Stage, Reporting, Ensurable
<1>3. QED
  BY <1>1, <1>2 DEF Fine, d

\* bind_nodes, on behalf of an operation.
LEMMA BindIsFine ==
    ASSUME NEW c, Base(c), NEW op \in {"begin", "advance", "prepare", "preflight", "reconcile"}, NEW s,
           op = "advance" => c.mem.phase # NoHandoff
    PROVE  Fine(Bind(c, op), s)
<1> DEFINE d == Bind(c, op)
<1>1. Base(d) /\ d.pc = "report.src" /\ d.op = op /\ d.mem = c.mem
  BY DEF Bind, Goto, Base, CtlField
<1> HIDE DEF d
<1>2. QED
  BY <1>1 DEF Fine, Stage, Reporting, d

----------------------------------------------------------------------------
(* The registry's record in the controller's hands *)

\* The mutating lease the controller finds is one of the record's.
LEMMA MutatingIsLease ==
    ASSUME NEW a, Sound(a), HasMutating(a)
    PROVE  /\ Oldest(MutatingIds(a)) \in DOMAIN a.leases
           /\ MutatingLease(a) \in Lease
<1>1. MutatingIds(a) \in SUBSET Nat /\ MutatingIds(a) # {} /\ MutatingIds(a) \subseteq DOMAIN a.leases
  BY DEF Sound, AuthorityOK, MutatingIds, SlotLeases, HasMutating
<1>2. Oldest(MutatingIds(a)) \in DOMAIN a.leases
  BY <1>1, OldestIsMember
<1>3. QED
  BY <1>2 DEF Sound, AuthorityOK, MutatingLease

\* current_source_claim.
LEMMA SourceClaimIsClaim ==
    ASSUME NEW c, Base(c), HasSourceClaim(c)
    PROVE  SourceClaim(c) \in Claim
<1>1. CASE c.mem.claim # NoClaim
  BY <1>1 DEF SourceClaim, Base, MemOK
<1>2. CASE c.mem.claim = NoClaim
  <2>1. MutatingLease(c.mem.auth) \in Lease
    BY <1>2, MutatingIsLease DEF HasSourceClaim, Base, MemOK
  <2>2. QED
    BY <1>2, <2>1 DEF SourceClaim, ClaimOf, Lease, Claim
<1>3. QED
  BY <1>1, <1>2

\* acknowledge_fence, whichever fence it is asked for.
LEMMA AcknowledgeResultIsSound ==
    ASSUME NEW a, Sound(a), NEW h, NEW fence
    PROVE  Sound(AcknowledgeFenceResult(a, h, fence).auth)
BY AcknowledgeKeepsSound DEF AcknowledgeFenceResult, Refused, Done

\* The outstanding fence of an incarnation, if there is one, is acknowledged.
LEMMA OutstandingAcknowledgedIsSound ==
    ASSUME NEW a, Sound(a), NEW h
    PROVE  Sound(OutstandingAcknowledged(a, h))
BY AcknowledgeResultIsSound DEF OutstandingAcknowledged

\* The two places an operation rests at when a grant is refused.
Parked(c) == c.pc \in {"idle", "abort.retire"}

\* The registry grants and the lease goes out, or refuses and the operation rests.
LEMMA GrantThenIsFine ==
    ASSUME now \in Nat, NEW c, Base(c), NEW holder \in Incarnation, NEW s,
           NEW refused, Base(refused), Parked(refused),
           NEW pc, \/ pc \in {"transfer.deliver", "abort.deliver"}
                   \/ pc \in {"ensure.renew", "ensure.deliver"} /\ Ensurable(c)
    PROVE  Fine(GrantThen(c, holder, pc, refused), s)
<1> DEFINE r == GrantResult(c.mem.auth, holder, "Mutating", LeaseTtl, now, c.tokens)
           g == SetAuth(c, r.auth)
           k == IF r.lease = c.mem.auth.nextLease THEN c.tokens + 1 ELSE c.tokens
           h == [g EXCEPT !.tokens = k]
           q == SetAuth(refused, r.auth)
<1>1. GrantOK(r)
  <2>1. Sound(c.mem.auth) /\ c.tokens \in Nat /\ LeaseTtl \in Nat
    BY NodeAssumption DEF Base, MemOK
  <2>2. QED
    BY <2>1, GrantKeepsSound
<1>2. GrantThen(c, holder, pc, refused) = IF r.code # "Ok" THEN q ELSE Goto(h, pc, r.lease)
  BY DEF GrantThen, SetAuth
<1>3. k \in Nat
  BY DEF Base
<1> HIDE DEF r, k
<1>4. Onward(c, g) /\ g.mem.auth = r.auth /\ g.mem.phase = c.mem.phase
  BY <1>1, SetAuthGoesOn DEF GrantOK
<1> HIDE DEF g
<1>5. Base(h) /\ h.op = c.op /\ h.src = c.src /\ h.tgt = c.tgt /\ h.mem = g.mem
  BY <1>3, <1>4 DEF Onward, Base, CtlField
<1> HIDE DEF h
<1>6. CASE r.code # "Ok"
  <2>1. Base(q) /\ q.pc = refused.pc
    BY <1>1, SetAuthGoesOn DEF GrantOK, Onward
  <2> HIDE DEF q
  <2>2. Fine(q, s)
    BY <2>1 DEF Fine, Stage, Parked
  <2>3. QED
    BY <1>2, <1>6, <2>2
<1>7. CASE r.code = "Ok"
  <2>1. r.lease \in DOMAIN h.mem.auth.leases
    BY <1>1, <1>4, <1>5, <1>7 DEF GrantOK
  <2>2. Stage(h, pc, r.lease, s)
    BY <1>4, <1>5, <2>1 DEF Stage, Ensurable, Reporting
  <2>3. Fine(Goto(h, pc, r.lease), s)
    BY <1>5, <2>2, GotoIsFine
  <2>4. QED
    BY <1>2, <1>7, <2>3
<1>8. QED
  BY <1>6, <1>7

\* The lease of a replaced holder is revoked.
LEMMA ReplacedHolderGoesOn ==
    ASSUME now \in Nat, NEW c, Base(c)
    PROVE  LET r == ReplacedHolderRevoked(c)
           IN  Onward(c, r) /\ r.mem.phase = c.mem.phase /\ r.mem.attempt = c.mem.attempt
<1> DEFINE a == c.mem.auth
           slot == SlotLeases(a, now)
           b == RevokeResult(OutstandingAcknowledged(a, a.leases[Oldest(slot)].holder), Oldest(slot)).auth
<1>1. Sound(b)
  BY OutstandingAcknowledgedIsSound, RevokeKeepsSound DEF Base, MemOK
<1>2. ReplacedHolderRevoked(c) = c \/ ReplacedHolderRevoked(c) = SetAuth(c, b)
  BY DEF ReplacedHolderRevoked
<1> HIDE DEF b
<1>3. Onward(c, SetAuth(c, b)) /\ SetAuth(c, b).mem.phase = c.mem.phase /\ SetAuth(c, b).mem.attempt = c.mem.attempt
  BY <1>1, SetAuthGoesOn
<1>4. Onward(c, c)
  BY DEF Onward
<1>5. QED
  BY <1>2, <1>3, <1>4

\* reconcile_incarnations: participants are replaced by ones that exist.
LEMMA ReconcileGoesOn ==
    ASSUME now \in Nat, NEW c, Base(c), Real(c.src), Real(c.tgt)
    PROVE  Onward(c, ReconcileIncarnations(c))
<1> DEFINE r == ReplacedHolderRevoked(c)
           d == ReconcileIncarnations(c)
<1>1. Onward(c, r) /\ r.mem.phase = c.mem.phase /\ r.mem.attempt = c.mem.attempt
  BY ReplacedHolderGoesOn
<1> HIDE DEF r
<1>2. Base(r)
  BY <1>1 DEF Onward
<1>3. CASE d = c \/ d = r
  BY <1>1, <1>3 DEF Onward
<1>4. CASE c.mem.phase # NoHandoff
  <2>1. c.mem.pred \in Incarnation /\ c.mem.succ \in Incarnation /\ c.src.inc \in Incarnation /\ c.tgt.inc \in Incarnation
    BY <1>4 DEF Base, MemOK, Real
  <2>2. CASE ~RestartsExhausted(c) /\ PredecessorReplaced(c) /\ d = RestartHandoff(r, c.src.inc, c.mem.succ, NotStarted)
    <3>1. r.mem.attempt < MaxRestarts
      BY <1>1, <1>4, <2>2, EvolutionAssumption DEF RestartsExhausted, Base, MemOK
    <3>2. Onward(r, d)
      BY <1>2, <2>1, <2>2, <3>1, RestartGoesOn
    <3>3. QED
      BY <1>1, <3>2, OnwardIsTransitive
  <2>3. CASE /\ ~RestartsExhausted(c) /\ SuccessorReplaced(c) /\ c.mem.phase < AuthorityTransferred
             /\ d = RestartHandoff(r, c.mem.pred, c.tgt.inc, RewindPhase(c.mem.phase))
    <3>1. r.mem.attempt < MaxRestarts
      BY <1>1, <1>4, <2>3, EvolutionAssumption DEF RestartsExhausted, Base, MemOK
    <3>2. RewindPhase(c.mem.phase) \in {NotStarted, Prepared}
      BY DEF RewindPhase
    <3>3. Onward(r, d)
      BY <1>2, <2>1, <2>3, <3>1, <3>2, RestartGoesOn
    <3>4. QED
      BY <1>1, <3>3, OnwardIsTransitive
  <2>4. CASE d = Save([r EXCEPT !.mem.succ = c.tgt.inc])
    <3> DEFINE m == [r.mem EXCEPT !.succ = c.tgt.inc]
               e == [r EXCEPT !.mem = m]
    <3>1. d = Save(e)
      BY <2>4
    <3>2. MemOK(m) /\ m.phase = r.mem.phase
      BY <1>2, <2>1 DEF Base, MemOK, MemField
    <3> HIDE DEF m
    <3>3. Onward(r, e)
      BY <1>2, <3>2, MemoryReplaced
    <3> HIDE DEF e
    <3>4. Onward(e, Save(e))
      BY <3>3, SaveGoesOn DEF Onward
    <3>5. QED
      BY <1>1, <3>1, <3>3, <3>4, OnwardIsTransitive
  <2>5. QED
    BY <1>3, <1>4, <2>2, <2>3, <2>4 DEF ReconcileIncarnations, r
<1>5. QED
  BY <1>3, <1>4 DEF ReconcileIncarnations

----------------------------------------------------------------------------
(* The controller between two calls *)

\* The counters of rounds and refreshes.
LEMMA CountersGoOn ==
    ASSUME NEW c, Base(c), NEW k
    PROVE  /\ Onward(c, [c EXCEPT !.rounds = k]) /\ [c EXCEPT !.rounds = k].mem = c.mem
           /\ Onward(c, [c EXCEPT !.refreshes = k]) /\ [c EXCEPT !.refreshes = k].mem = c.mem
BY DEF Onward, Base, CtlField

\* advance_snapshot, up to its first call.
LEMMA SnapshotStepIsFine ==
    ASSUME NEW c, Base(c), NEW s
    PROVE  Fine(SnapshotStep(c), s)
<1>1. CASE HasSourceClaim(c)
  <2>1. Stage(c, "snapshot.prepare", SourceClaim(c), s)
    BY <1>1, SourceClaimIsClaim DEF Stage
  <2>2. QED
    BY <1>1, <2>1, GotoIsFine DEF SnapshotStep
<1>2. CASE ~HasSourceClaim(c)
  BY <1>2, IdleIsFine DEF SnapshotStep
<1>3. QED
  BY <1>1, <1>2

\* A round of advance_catch_up, up to its first call.
LEMMA CatchUpRoundIsFine ==
    ASSUME NEW c, Base(c), NEW s
    PROVE  Fine(CatchUpRound(c), s)
<1> DEFINE d == [c EXCEPT !.rounds = c.rounds + 1]
<1>1. Base(d)
  BY CountersGoOn DEF Onward
<1>2. CatchUpRound(c) = Goto(d, "catchup.read", 0) \/ CatchUpRound(c) = Goto(c, "catchup.src", 0)
  BY DEF CatchUpRound
<1> HIDE DEF d
<1>3. Stage(d, "catchup.read", 0, s) /\ Stage(c, "catchup.src", 0, s)
  BY DEF Stage
<1>4. QED
  BY <1>1, <1>2, <1>3, GotoIsFine

\* advance_verify, up to its first call.
LEMMA VerifyStepIsFine ==
    ASSUME NEW c, Base(c), NEW s
    PROVE  Fine(VerifyStep(c), s)
<1>1. \A data : Stage(c, "verify.report", data, s)
  BY DEF Stage
<1>2. QED
  BY <1>1, GotoIsFine, IdleIsFine DEF VerifyStep

\* advance_fence, up to its call.
LEMMA FenceStepIsFine ==
    ASSUME now \in Nat, NEW c, Base(c), c.mem.phase # NoHandoff, NEW s
    PROVE  Fine(FenceStep(c), s)
<1> DEFINE a == c.mem.auth
           r == RequestFenceResult(a, c.mem.pred, now)
           d == SetAuth(c, OutstandingAcknowledged(a, c.mem.pred))
           e == SetAuth(c, r.auth)
           p == RecordPhase(d, PredecessorFenced)
<1>1. Sound(a) /\ c.mem.pred \in Incarnation
  BY DEF Base, MemOK
<1>2. Sound(r.auth) /\ Sound(OutstandingAcknowledged(a, c.mem.pred))
  BY <1>1, RequestFenceKeepsSound, OutstandingAcknowledgedIsSound
<1>3. \/ FenceStep(c) = Idle(p)
      \/ \E data : FenceStep(c) = Goto(c, "fence", data)
      \/ FenceStep(c) = Idle(e)
      \/ \E data : FenceStep(c) = Goto(Save(e), "fence", data)
  BY DEF FenceStep
<1>4. Base(d) /\ Base(e)
  <2> HIDE DEF r
  <2> QED BY <1>2, SetAuthGoesOn DEF Onward
<1> HIDE DEF d, e
<1>5. Base(p) /\ Base(Save(e))
  <2>1. PredecessorFenced \in Prepared..PredecessorRetired
    BY DEF PredecessorFenced, Prepared, PredecessorRetired
  <2>2. QED
    BY <1>4, <2>1, RecordPhaseGoesOn, SaveGoesOn DEF Onward
<1> HIDE DEF p
<1>6. \A data : Stage(c, "fence", data, s) /\ Stage(Save(e), "fence", data, s)
  BY DEF Stage
<1>7. QED
  BY <1>3, <1>4, <1>5, <1>6, IdleIsFine, GotoIsFine

\* The grant at the end of advance_transfer's catch-up.
LEMMA TransferGrantIsFine ==
    ASSUME now \in Nat, NEW c, Base(c), c.mem.phase # NoHandoff, Real(c.src), NEW s
    PROVE  Fine(TransferGrant(c), s)
<1> DEFINE d == [c EXCEPT !.mem.lsn = c.src.lsn]
<1>1. Onward(c, d)
  BY LsnGoesOn DEF Real
<1>2. TransferGrant(c) = GrantThen(d, d.mem.succ, "transfer.deliver", Idle(d))
  BY DEF TransferGrant
<1> HIDE DEF d
<1>3. Base(d) /\ d.mem.succ \in Incarnation
  BY <1>1 DEF Onward, Base, MemOK
<1>4. Base(Idle(d)) /\ Parked(Idle(d))
  BY <1>3, IdleIsFine DEF Fine, Parked
<1>5. QED
  BY <1>2, <1>3, <1>4, GrantThenIsFine

\* A round of advance_transfer's catch-up, up to its first call.
LEMMA TransferRoundIsFine ==
    ASSUME now \in Nat, NEW c, Base(c), c.mem.phase # NoHandoff, Real(c.src), NEW s
    PROVE  Fine(TransferRound(c), s)
<1> DEFINE d == [c EXCEPT !.rounds = c.rounds + 1]
<1>1. Onward(c, d)
  BY CountersGoOn
<1>2. TransferRound(c) = Goto(d, "transfer.tgt", 0) \/ TransferRound(c) = TransferGrant(c)
  BY DEF TransferRound
<1> HIDE DEF d
<1>3. Base(d) /\ Stage(d, "transfer.tgt", 0, s)
  BY <1>1 DEF Stage, Onward
<1>4. QED
  BY <1>2, <1>3, GotoIsFine, TransferGrantIsFine

\* advance_locked: there is a routine for every phase.
LEMMA PhaseStepIsFine ==
    ASSUME now \in Nat, NEW c, Base(c), c.mem.phase # NoHandoff, NEW s
    PROVE  Fine(PhaseStep(c), s)
<1>1. CASE Exhausted(c)
  <2>1. Base(ApplyAction(c, "Pause"))
    BY ApplyActionGoesOn DEF Onward
  <2>2. QED
    BY <1>1, <2>1, IdleIsFine DEF PhaseStep
<1>2. CASE ~Exhausted(c)
  <2> DEFINE phase == c.mem.phase
  <2>1. phase \in {0, 1, 2, 3, 4, 5, 6, 7} \/ phase \in {8, 9, 10}
    BY DEF Base, MemOK, HandoffPhase, NotStarted, Aborted
  <2>2. \/ PhaseStep(c) = Bind(c, "prepare")
        \/ PhaseStep(c) = SnapshotStep(c)
        \/ PhaseStep(c) = CatchUpRound(c)
        \/ PhaseStep(c) = Goto(c, "readiness", 0)
        \/ PhaseStep(c) = FenceStep(c)
        \/ PhaseStep(c) = Goto(c, "transfer.src", 0)
        \/ PhaseStep(c) = VerifyStep(c)
        \/ PhaseStep(c) = Goto(c, "retire", 0)
        \/ PhaseStep(c) = Idle(c)
    <3> USE <1>2
        DEF PhaseStep, NotStarted, Prepared, SnapshotSynchronized, CaughtUp, ReadinessVerified,
            PredecessorFenced, AuthorityTransferred, SuccessorVerified, PredecessorRetired
    <3>1. CASE phase = 0
      BY <3>1
    <3>2. CASE phase = 1
      BY <3>2
    <3>3. CASE phase = 2
      BY <3>3
    <3>4. CASE phase = 3
      BY <3>4
    <3>5. CASE phase = 4
      BY <3>5
    <3>6. CASE phase = 5
      BY <3>6
    <3>7. CASE phase = 6
      BY <3>7
    <3>8. CASE phase = 7
      BY <3>8
    <3>9. CASE phase \in {8, 9, 10}
      <4>1. phase >= 8 /\ phase \notin {0, 1, 2, 3, 4, 5, 6, 7}
        BY <3>9
      <4>2. PhaseStep(c) = Idle(c)
        BY <4>1
      <4>3. QED
        BY <4>2
    <3>10. QED
      BY <2>1, <3>1, <3>2, <3>3, <3>4, <3>5, <3>6, <3>7, <3>8, <3>9
  <2>3. Stage(c, "readiness", 0, s) /\ Stage(c, "transfer.src", 0, s) /\ Stage(c, "retire", 0, s)
    BY DEF Stage
  <2>4. Fine(Bind(c, "prepare"), s)
    BY BindIsFine
  <2>5. QED
    BY <2>2, <2>3, <2>4, GotoIsFine, IdleIsFine, SnapshotStepIsFine, CatchUpRoundIsFine,
       FenceStepIsFine, VerifyStepIsFine
<1>3. QED
  BY <1>1, <1>2

\* The end of begin_handoff.
LEMMA BegunIsFine ==
    ASSUME now \in Nat, NEW c, Base(c), c.mem.phase # NoHandoff, NEW s
    PROVE  Fine(Begun(c), s)
<1> DEFINE a == c.mem.auth
           claim == ClaimOf(MutatingLease(a))
           m == [c.mem EXCEPT !.claim = claim]
           claimed == IF /\ HasMutating(a)
                         /\ MutatingLease(a).holder = c.mem.pred
                         /\ c.mem.claim = NoClaim
                      THEN [c EXCEPT !.mem.claim = claim] ELSE c
           o == [claimed.mem EXCEPT !.winAt = now, !.winLsn = c.src.lsn]
           opened == IF c.mem.winAt < 0
                     THEN [claimed EXCEPT !.mem.winAt = now, !.mem.winLsn = c.src.lsn] ELSE claimed
<1>1. Begun(c) = Bind(Save(opened), "advance")
  BY DEF Begun
<1>2. Onward(c, claimed)
  <2>1. CASE HasMutating(a)
    <3>1. claim \in Claim
      BY <2>1, MutatingIsLease DEF Base, MemOK, Lease, Claim, ClaimOf
    <3> HIDE DEF claim
    <3>2. MemOK(m) /\ m.phase = c.mem.phase
      BY <3>1 DEF Base, MemOK, MemField
    <3>3. [c EXCEPT !.mem.claim = claim] = [c EXCEPT !.mem = m]
      OBVIOUS
    <3> HIDE DEF m
    <3>4. Onward(c, [c EXCEPT !.mem = m])
      BY <3>2, MemoryReplaced
    <3>5. QED
      BY <3>3, <3>4 DEF Onward
  <2>2. CASE ~HasMutating(a)
    BY <2>2 DEF Onward
  <2>3. QED
    BY <2>1, <2>2
<1> HIDE DEF claimed
<1>3. Onward(claimed, opened)
  <2>1. Base(claimed)
    BY <1>2 DEF Onward
  <2>2. MemOK(o) /\ o.phase = claimed.mem.phase
    BY <2>1 DEF Base, MemOK, MemField
  <2>3. [claimed EXCEPT !.mem.winAt = now, !.mem.winLsn = c.src.lsn] = [claimed EXCEPT !.mem = o]
    BY <2>1 DEF Base, CtlField
  <2> HIDE DEF o
  <2>4. Onward(claimed, [claimed EXCEPT !.mem = o])
    BY <2>1, <2>2, MemoryReplaced
  <2>5. QED
    BY <2>1, <2>3, <2>4 DEF Onward
<1> HIDE DEF opened
<1>4. Base(Save(opened)) /\ Save(opened).mem.phase # NoHandoff
  BY <1>2, <1>3, SaveGoesOn DEF Onward
<1>5. QED
  BY <1>1, <1>4, BindIsFine

\* The end of reconcile, which always ends the operation.
LEMMA ReconcileTailEnds ==
    ASSUME now \in Nat, NEW c, Base(c), Real(c.src)
    PROVE  \E d : Base(d) /\ ReconcileTail(c) = Idle(d)
<1> DEFINE a == c.mem.auth
           transferred == /\ HasMutating(a)
                          /\ MutatingLease(a).holder = c.mem.succ
                          /\ c.tgt.hasAuthority /\ c.tgt.lease.token = MutatingLease(a).token
                          /\ c.mem.phase < AuthorityTransferred
           c1 == IF transferred THEN RecordPhase(c, AuthorityTransferred) ELSE c
           c2 == IF c.src.life \in {"Fenced", "Retired"} /\ c1.mem.phase = ReadinessVerified
                 THEN RecordPhase(c1, PredecessorFenced) ELSE c1
           d == RestartHandoff(c2, c.src.inc, c.mem.succ, NotStarted)
<1>1. \/ ReconcileTail(c) \in {Idle(c), Idle(Save(c2)), Idle(c2)}
      \/ c.mem.phase # NoHandoff /\ ~(c2.mem.attempt >= MaxRestarts) /\ ReconcileTail(c) = Idle(d)
  BY DEF ReconcileTail
<1> HIDE DEF transferred
<1>2. AuthorityTransferred \in Prepared..PredecessorRetired /\ PredecessorFenced \in Prepared..PredecessorRetired
  BY DEF AuthorityTransferred, PredecessorFenced, Prepared, PredecessorRetired
<1>3. Onward(c, c1)
  <2>1. Onward(c, c) /\ Onward(c, RecordPhase(c, AuthorityTransferred))
    BY <1>2, RecordPhaseGoesOn DEF Onward
  <2>2. QED
    BY <2>1
<1> HIDE DEF c1
<1>4. Base(c2)
  <2>1. Base(c1) /\ Base(RecordPhase(c1, PredecessorFenced))
    BY <1>2, <1>3, RecordPhaseGoesOn DEF Onward
  <2>2. QED
    BY <2>1
<1> HIDE DEF c2
<1>5. Base(Save(c2))
  BY <1>4, SaveGoesOn DEF Onward
<1>6. CASE c.mem.phase # NoHandoff /\ ~(c2.mem.attempt >= MaxRestarts) /\ ReconcileTail(c) = Idle(d)
  <2>1. c2.mem.attempt < MaxRestarts /\ c.mem.succ \in Incarnation /\ c.src.inc \in Incarnation
    BY <1>4, <1>6, EvolutionAssumption DEF Base, MemOK, Real
  <2>2. Base(d)
    BY <1>4, <2>1, RestartGoesOn DEF Onward
  <2>3. QED
    BY <1>6, <2>2
<1>7. QED
  BY <1>1, <1>4, <1>5, <1>6

\* What follows ensure_holder_authority when it succeeds.
LEMMA EnsuredIsFine ==
    ASSUME now \in Nat, NEW c, Base(c), Ensurable(c), NEW s
    PROVE  Fine(Ensured(c), s)
<1>1. CASE c.op = "begin"
  BY <1>1, BegunIsFine DEF Ensured, Ensurable
<1>2. CASE c.op = "advance"
  BY <1>2, PhaseStepIsFine DEF Ensured, Ensurable, Reporting
<1>3. CASE c.op = "prepare"
  <2>1. HasSourceClaim(c) => Stage(c, "prepare.pred", SourceClaim(c), s)
    BY SourceClaimIsClaim DEF Stage
  <2>2. QED
    BY <1>3, <2>1, GotoIsFine, IdleIsFine DEF Ensured
<1>4. CASE c.op = "preflight"
  <2>1. Base(Save(c))
    BY SaveGoesOn DEF Onward
  <2>2. QED
    BY <1>4, <2>1, IdleIsFine DEF Ensured
<1>5. CASE c.op = "reconcile"
  BY <1>5, ReconcileTailEnds, IdleIsFine DEF Ensured, Ensurable
<1>6. QED
  BY <1>1, <1>2, <1>3, <1>4, <1>5 DEF Ensurable, Reporting

\* What follows ensure_holder_authority when it does not: the operation ends.
LEMMA NotEnsuredEnds ==
    ASSUME now \in Nat, NEW c, Base(c), Ensurable(c), NEW s
    PROVE  Fine(NotEnsured(c), s) /\ NotEnsured(c).pc = "idle"
<1>1. CASE c.op \in {"begin", "advance", "prepare"}
  BY <1>1, IdleIsFine DEF NotEnsured
<1>2. CASE c.op = "preflight"
  <2> DEFINE d == [c EXCEPT !.mem.camp = "Failed"]
  <2>1. Base(d)
    BY CampaignGoesOn DEF Onward, CampaignState
  <2>2. NotEnsured(c) = Idle(Save(d))
    BY <1>2 DEF NotEnsured
  <2> HIDE DEF d
  <2>3. Base(Save(d))
    BY <2>1, SaveGoesOn DEF Onward
  <2>4. QED
    BY <2>2, <2>3, IdleIsFine
<1>3. CASE c.op = "reconcile"
  BY <1>3, ReconcileTailEnds, IdleIsFine DEF NotEnsured, Ensurable
<1>4. QED
  BY <1>1, <1>2, <1>3 DEF Ensurable, Reporting

\* ensure_holder_authority, up to its first call.
LEMMA EnsureHolderIsFine ==
    ASSUME now \in Nat, NEW c, Base(c), Ensurable(c), NEW report, report.inc \in Incarnation, NEW s
    PROVE  Fine(EnsureHolder(c, report, c.op), s)
<1> DEFINE a == c.mem.auth
           d == EnsureHolder(c, report, c.op)
<1>1. [c EXCEPT !.op = c.op] = c
  BY DEF Base, CtlField
<1>2. \/ d = Ensured(c)
      \/ d = GrantThen(c, report.inc, "ensure.renew", NotEnsured(c))
      \/ HasMutating(a) /\ d = Goto(c, "ensure.reattest", Oldest(MutatingIds(a)))
      \/ d = GrantThen(c, report.inc, "ensure.deliver", NotEnsured(c))
  BY <1>1 DEF EnsureHolder
<1>3. Fine(Ensured(c), s)
  BY EnsuredIsFine
<1>4. Base(NotEnsured(c)) /\ Parked(NotEnsured(c))
  BY NotEnsuredEnds DEF Fine, Parked
<1>5. \A pc \in {"ensure.renew", "ensure.deliver"} : Fine(GrantThen(c, report.inc, pc, NotEnsured(c)), s)
  BY <1>4, GrantThenIsFine
<1>6. HasMutating(a) => Fine(Goto(c, "ensure.reattest", Oldest(MutatingIds(a))), s)
  <2> SUFFICES ASSUME HasMutating(a) PROVE Fine(Goto(c, "ensure.reattest", Oldest(MutatingIds(a))), s)
    OBVIOUS
  <2>1. Oldest(MutatingIds(a)) \in DOMAIN c.mem.auth.leases
    BY MutatingIsLease DEF Base, MemOK
  <2>2. Stage(c, "ensure.reattest", Oldest(MutatingIds(a)), s)
    BY <2>1 DEF Stage
  <2>3. QED
    BY <2>2, GotoIsFine
<1> HIDE DEF d
<1>7. Fine(d, s)
  BY <1>2, <1>3, <1>5, <1>6
<1>8. QED
  BY <1>7 DEF d

\* ensure_holder_authority for the component the phase asks for.
LEMMA EnsureForPhaseIsFine ==
    ASSUME now \in Nat, NEW c, Base(c), Ensurable(c), NEW s
    PROVE  Fine(EnsureForPhase(c, c.op), s)
<1>1. [c EXCEPT !.op = c.op] = c
  BY DEF Base, CtlField
<1>2. EnsureForPhase(c, c.op) \in {EnsureHolder(c, c.src, c.op), EnsureHolder(c, c.tgt, c.op), Ensured(c)}
  BY <1>1 DEF EnsureForPhase
<1>3. c.src.inc \in Incarnation /\ c.tgt.inc \in Incarnation
  BY DEF Ensurable, Real
<1>4. QED
  BY <1>2, <1>3, EnsureHolderIsFine, EnsuredIsFine

\* What an operation does once both components have reported.
LEMMA BoundIsFine ==
    ASSUME now \in Nat, NEW c, Base(c), Reporting(c), Real(c.src), Real(c.tgt), NEW s
    PROVE  Fine(Bound(c), s)
<1>1. CASE c.op \in {"preflight", "prepare"}
  <2>1. Ensurable(c) /\ c.src.inc \in Incarnation
    BY <1>1 DEF Ensurable, Real
  <2>2. Bound(c) = EnsureHolder(c, c.src, c.op)
    BY <1>1 DEF Bound
  <2>3. QED
    BY <2>1, <2>2, EnsureHolderIsFine
<1>2. CASE c.op = "begin"
  <2> DEFINE m == [c.mem EXCEPT !.phase = NotStarted, !.attempt = 1, !.pred = c.src.inc, !.succ = c.tgt.inc]
             d == [c EXCEPT !.mem = m]
  <2>1. Bound(c) = EnsureHolder(d, c.src, "begin")
    BY <1>2 DEF Bound
  <2>2. 1 \in 0..MaxRestarts /\ NotStarted \in HandoffPhase /\ NotStarted # NoHandoff
    BY EvolutionAssumption DEF HandoffPhase, NotStarted, NoHandoff, Aborted
  <2>3. MemOK(m) /\ m.phase = NotStarted
    BY <2>2 DEF Base, MemOK, MemField, Real
  <2> HIDE DEF m
  <2>4. Onward(c, d) /\ d.mem = m
    BY <2>2, <2>3, MemoryReplaced
  <2> HIDE DEF d
  <2>5. Base(d) /\ Ensurable(d) /\ d.op = "begin" /\ c.src.inc \in Incarnation
    BY <1>2, <2>2, <2>3, <2>4 DEF Onward, Ensurable, Reporting, Real
  <2>6. QED
    BY <2>1, <2>5, EnsureHolderIsFine
<1>3. CASE c.op \in {"advance", "reconcile"}
  <2> DEFINE r == ReconcileIncarnations(c)
  <2>1. Onward(c, r)
    BY ReconcileGoesOn
  <2>2. Bound(c) = Idle(r) \/ Bound(c) = EnsureForPhase(r, c.op)
    BY <1>3 DEF Bound, Given
  <2> HIDE DEF r
  <2>3. Base(r) /\ Ensurable(r) /\ r.op = c.op
    BY <1>3, <2>1 DEF Onward, Ensurable, Reporting
  <2>4. Fine(EnsureForPhase(r, r.op), s)
    BY <2>3, EnsureForPhaseIsFine
  <2>5. QED
    BY <2>2, <2>3, <2>4, IdleIsFine
<1>4. QED
  BY <1>1, <1>2, <1>3 DEF Reporting

\* bind_nodes fails.
LEMMA UnboundIsFine ==
    ASSUME NEW c, Base(c), NEW s
    PROVE  Fine(Unbound(c), s)
<1> DEFINE d == [c EXCEPT !.mem.camp = "Failed"]
<1>1. Base(d)
  BY CampaignGoesOn DEF Onward, CampaignState
<1>2. Unbound(c) = Idle(Save(d)) \/ Unbound(c) = Idle(c)
  BY DEF Unbound
<1> HIDE DEF d
<1>3. Base(Save(d))
  BY <1>1, SaveGoesOn DEF Onward
<1>4. QED
  BY <1>2, <1>3, IdleIsFine

\* The controller that starts again on its saved state.
LEMMA ReopenedIsFine ==
    ASSUME NEW c, Base(c), NEW s
    PROVE  Fine(Reopened(c), s)
<1> DEFINE camp == IF c.disk.camp = "Preflighting" THEN "Planned" ELSE c.disk.camp
           a == Restored(c.disk.auth)
           m == [c.disk EXCEPT !.auth = a, !.camp = camp]
           d == [c EXCEPT !.mem = m]
<1>1. Reopened(c) = Save(Idle(d))
  BY DEF Reopened
<1>2. Sound(a) /\ camp \in CampaignState
  BY RestoredKeepsSound DEF Base, MemOK, CampaignState
<1> HIDE DEF a, camp
<1>3. MemOK(m)
  BY <1>2 DEF Base, MemOK, MemField
<1> HIDE DEF m
<1>4. Base(d)
  BY <1>3 DEF Base, CtlField
<1> HIDE DEF d
<1>5. Base(Idle(d)) /\ Idle(d).pc = "idle"
  BY <1>4, IdleIsFine DEF Fine
<1>6. Base(Save(Idle(d))) /\ Save(Idle(d)).pc = "idle"
  BY <1>5, SaveGoesOn DEF Onward
<1>7. QED
  BY <1>1, <1>6 DEF Fine, Stage

\* The end of abort.
LEMMA AbortConfirmedIsFine ==
    ASSUME NEW c, Base(c), NEW s
    PROVE  Fine(AbortConfirmed(c), s)
<1> DEFINE phase == IF c.mem.phase = NoHandoff THEN NoHandoff ELSE Aborted
           m == [c.mem EXCEPT !.phase = phase]
           d == [c EXCEPT !.mem = m]
           e == ApplyAction(d, "ConfirmAbort")
<1>1. AbortConfirmed(c) = Idle(Save(e))
  BY DEF AbortConfirmed
<1>2. phase \in HandoffPhase \cup {NoHandoff} /\ (c.mem.phase # NoHandoff <=> phase # NoHandoff)
  BY DEF HandoffPhase, NotStarted, Aborted, NoHandoff
<1> HIDE DEF phase
<1>3. MemOK(m) /\ m.phase = phase
  BY <1>2 DEF Base, MemOK, MemField
<1> HIDE DEF m
<1>4. Base(d)
  BY <1>2, <1>3, MemoryReplaced DEF Onward
<1> HIDE DEF d
<1>5. Base(e)
  BY <1>4, ApplyActionGoesOn DEF Onward
<1> HIDE DEF e
<1>6. Base(Save(e))
  BY <1>5, SaveGoesOn DEF Onward
<1>7. QED
  BY <1>1, <1>6, IdleIsFine

\* The start of begin_handoff.
LEMMA BeginIsFine ==
    ASSUME NEW c, Base(c), NEW s
    PROVE  Fine(Begin(c), s)
<1>1. Base(ApplyAction(c, "Start"))
  BY ApplyActionGoesOn DEF Onward
<1>2. Fine(Bind(ApplyAction(c, "Start"), "begin"), s)
  BY <1>1, BindIsFine
<1>3. QED
  BY <1>2, IdleIsFine DEF Begin

\* The snapshot has been installed.
LEMMA InstalledIsFine ==
    ASSUME NEW c, Base(c), Len(c.data.doc) \in Nat, NEW s
    PROVE  Fine(Installed(c), s)
<1> DEFINE d == [c EXCEPT !.mem.lsn = Len(c.data.doc)]
           e == RecordPhase(d, SnapshotSynchronized)
<1>1. Base(d)
  BY LsnGoesOn DEF Onward
<1>2. Installed(c) = CatchUpRound(e) \/ Installed(c) = Idle(e)
  BY DEF Installed
<1> HIDE DEF d
<1>3. Base(e)
  BY <1>1, RecordPhaseGoesOn DEF Onward, SnapshotSynchronized, Prepared, PredecessorRetired
<1> HIDE DEF e
<1>4. QED
  BY <1>2, <1>3, CatchUpRoundIsFine, IdleIsFine

\* What advance_catch_up does with the records it read.
LEMMA CatchUpReadIsFine ==
    ASSUME NEW c, Base(c), NEW s, NEW body, Segment(body, s)
    PROVE  Fine(CatchUpRead(c, body), s)
<1> DEFINE d == [c EXCEPT !.refreshes = c.refreshes + 1]
           b == [binding |-> SourceClaim(c), batch |-> body]
<1>1. CatchUpRead(c, body) \in {Idle(c), SnapshotStep(d), Goto(c, "catchup.src", 0), Goto(c, "catchup.apply", b)}
  BY DEF CatchUpRead
<1>2. Base(d)
  BY CountersGoOn DEF Onward
<1> HIDE DEF d
<1>3. Stage(c, "catchup.src", 0, s) /\ Stage(c, "catchup.apply", b, s)
  BY DEF Stage
<1> HIDE DEF b
<1>4. QED
  BY <1>1, <1>2, <1>3, IdleIsFine, SnapshotStepIsFine, GotoIsFine

\* The end of advance_catch_up.
LEMMA CaughtUpWithIsFine ==
    ASSUME NEW c, Base(c), Real(c.src), NEW s
    PROVE  Fine(CaughtUpWith(c), s)
<1> DEFINE d == [c EXCEPT !.mem.lsn = c.src.lsn]
           e == RecordPhase(d, CaughtUp)
<1>1. Base(d)
  BY LsnGoesOn DEF Onward, Real
<1>2. CaughtUpWith(c) \in {Idle(c), Goto(d, "catchup.migrate", 0), Idle(e)}
  BY DEF CaughtUpWith
<1> HIDE DEF d
<1>3. Base(e)
  BY <1>1, RecordPhaseGoesOn DEF Onward, CaughtUp, Prepared, PredecessorRetired
<1> HIDE DEF e
<1>4. Stage(d, "catchup.migrate", 0, s)
  BY DEF Stage
<1>5. QED
  BY <1>1, <1>2, <1>3, <1>4, IdleIsFine, GotoIsFine

----------------------------------------------------------------------------
(* The inductive invariant *)

SourceDoc == nodes["source"].doc

\* The components: the source loses nothing in a restart, the target's document fits its own.
NodesInv(nd, ak) ==
    /\ DOMAIN nd = Component /\ nd = [comp \in Component |-> nd[comp]]
    /\ NodeOK(nd["source"]) /\ NodeOK(nd["target"])
    /\ nd["source"].saved = Len(nd["source"].doc)
    /\ Replicated(nd["source"].doc, nd["target"].doc, ak)

\* The invariant: components, controller, requests that may still be executed, clock, writes.
EvolutionInv ==
    /\ NodesInv(nodes, acked)
    /\ Fine(ctl, SourceDoc)
    /\ \A req \in late : req.to \in Component /\ Proper(req, SourceDoc)
    /\ now \in 0..MaxTime
    /\ \E k \in 0..MaxWrites : acked = 1..k

\* What a call, or a request executed late, does outside the controller.
Exchange(req) ==
    /\ nodes' \in {nodes, [nodes EXCEPT ![req.to] = Executed(req).node]}
    /\ late' \subseteq late \cup {req}
    /\ now' = now /\ acked' = acked

\* What is on its way stays a copy of the source's document while that grows.
LEMMA FineStays ==
    ASSUME NEW c, NEW s, NEW e, Fine(c, s), Grown(s, e)
    PROVE  Fine(c, e)
<1>1. ASSUME NEW d, Copy(d, s) PROVE Copy(d, e)
  BY <1>1 DEF Copy, Grown
<1>2. ASSUME NEW b, Segment(b, s) PROVE Segment(b, e)
  BY <1>2 DEF Segment, Grown
<1>3. QED
  BY <1>1, <1>2 DEF Fine, Stage

\* The clock is a number.
LEMMA NowIsNat ==
    ASSUME EvolutionInv
    PROVE  now \in Nat
BY EvolutionAssumption DEF EvolutionInv

\* Every component runs as an incarnation the registry can grant to.
LEMMA IncarnationExists ==
    ASSUME EvolutionInv, NEW comp \in Component
    PROVE  NodeOK(nodes[comp]) /\ IncarnationOf(comp) \in Incarnation
<1>1. NodeOK(nodes[comp])
  BY DEF EvolutionInv, NodesInv, Component
<1>2. nodes[comp].boot \in 1..MaxBoot
  BY <1>1 DEF NodeOK
<1>3. QED
  BY <1>1, <1>2, EvolutionAssumption DEF IncarnationOf

\* One component's document changes as a request may change it.
LEMMA NodeChanges ==
    ASSUME EvolutionInv, NEW comp \in Component, NEW m, NodeOK(m), NEW value, value = 0 \/ value \notin acked,
           NEW all, acked \subseteq all, value \in all \cup {0},
           comp = "target" => Blend(m.doc, nodes[comp].doc, SourceDoc) \/ AddedTo(m.doc, nodes[comp].doc, value),
           comp = "source" => /\ m.doc = nodes[comp].doc \/ AddedTo(m.doc, nodes[comp].doc, value)
                              /\ m.saved = Len(m.doc),
           NEW nd, nd = [nodes EXCEPT ![comp] = m]
    PROVE  NodesInv(nd, all) /\ Grown(SourceDoc, nd["source"].doc)
<1> DEFINE s == SourceDoc
           t == nodes["target"].doc
<1>1. s \in Seq(Entry) /\ t \in Seq(Entry) /\ Replicated(s, t, acked)
  BY DEF EvolutionInv, NodesInv, NodeOK, SourceDoc
<1>2. Replicated(s, t, all)
  BY <1>1 DEF Replicated, Known
<1>3. DOMAIN nd = Component /\ nd = [x \in Component |-> nd[x]] /\ NodeOK(nd["source"]) /\ NodeOK(nd["target"])
  BY DEF EvolutionInv, NodesInv, Component
<1>4. CASE comp = "target"
  <2>1. nd["target"] = m /\ nd["source"] = nodes["source"]
    BY <1>4 DEF EvolutionInv, NodesInv, Component
  <2>2. Replicated(s, m.doc, all)
    <3>1. Blend(m.doc, t, s) \/ AddedTo(m.doc, t, value)
      BY <1>4
    <3>2. QED
      BY <1>1, <1>2, <3>1, BlendedStays, AddedStays
  <2>3. QED
    BY <1>3, <2>1, <2>2 DEF NodesInv, Grown, EvolutionInv, SourceDoc
<1>5. CASE comp = "source"
  <2>1. nd["source"] = m /\ nd["target"] = nodes["target"]
    BY <1>5 DEF EvolutionInv, NodesInv, Component
  <2>2. (m.doc = s \/ AddedTo(m.doc, s, value)) /\ m.saved = Len(m.doc)
    BY <1>5 DEF SourceDoc
  <2>3. Replicated(m.doc, t, all)
    BY <1>1, <1>2, <2>2, AddedStays
  <2>4. Grown(s, m.doc)
    BY <1>1, <2>2, AddedIs DEF Grown
  <2>5. QED
    BY <1>3, <2>1, <2>2, <2>3, <2>4 DEF NodesInv
<1>6. QED
  BY <1>4, <1>5 DEF Component

\* Everything but the controller's new state.
LEMMA Exchanged ==
    ASSUME EvolutionInv, NEW req, req.to \in Component, Proper(req, SourceDoc), Exchange(req),
           Fine(ctl', SourceDoc)
    PROVE  EvolutionInv'
<1> DEFINE n == nodes[req.to]
           m == Executed(req).node
           nd == [nodes EXCEPT ![req.to] = m]
<1>1. NodeOK(n) /\ IncarnationOf(req.to) \in Incarnation
  BY IncarnationExists
<1>2. Effect(n, m, req.op, SourceDoc)
  BY <1>1, Handled DEF Executed
<1>3. req.to = "source" => n.saved = Len(n.doc) /\ req.op \notin TargetOnly
  BY DEF EvolutionInv, NodesInv, Proper
<1>4. /\ NodeOK(m)
      /\ Blend(m.doc, n.doc, SourceDoc) \/ AddedTo(m.doc, n.doc, 0)
      /\ req.to = "source" => (m.doc = n.doc \/ AddedTo(m.doc, n.doc, 0)) /\ m.saved = Len(m.doc)
  BY <1>2, <1>3 DEF Effect
<1> HIDE DEF m
<1>5. NodesInv(nd, acked) /\ Grown(SourceDoc, nd["source"].doc)
  BY <1>4, NodeChanges
<1>6. NodesInv(nodes, acked) /\ Grown(SourceDoc, nodes["source"].doc)
  BY DEF EvolutionInv, Grown, SourceDoc
<1>7. nodes' \in {nodes, nd}
  BY DEF Exchange, m
<1> HIDE DEF nd
<1>8. NodesInv(nodes', acked') /\ Grown(SourceDoc, SourceDoc')
  BY <1>5, <1>6, <1>7 DEF Exchange, SourceDoc
<1>9. \A q \in late' : q.to \in Component /\ Proper(q, SourceDoc')
  <2> SUFFICES ASSUME NEW q \in late' PROVE q.to \in Component /\ Proper(q, SourceDoc')
    OBVIOUS
  <2>1. q.to \in Component /\ Proper(q, SourceDoc)
    BY DEF EvolutionInv, Exchange
  <2>2. QED
    BY <1>8, <2>1, ProperStays
<1>10. Fine(ctl', SourceDoc')
  BY <1>8, FineStays
<1>11. now' \in 0..MaxTime /\ \E k \in 0..MaxWrites : acked' = 1..k
  BY DEF EvolutionInv, Exchange
<1>12. QED
  BY <1>8, <1>9, <1>10, <1>11 DEF EvolutionInv

\* What the controller can rely on in the answer to a call.
LEMMA AnswerIs ==
    ASSUME EvolutionInv, NEW req, req.to \in Component, Proper(req, SourceDoc)
    PROVE  LET r == Executed(req)
           IN  /\ req.op = "status" => Real(r.body)
               /\ req.op = "snapshot" /\ req.to = "source" /\ r.ok => Copy(r.body.doc, SourceDoc)
               /\ req.op = "read_since" /\ req.to = "source" /\ req.from \in Nat => Segment(r.body, SourceDoc)
               /\ req.op = "apply_records" /\ r.ok => r.body \in Nat
               /\ req.op = "readiness" /\ r.ok => r.body.lsn \in Nat
<1>1. NodeOK(nodes[req.to]) /\ IncarnationOf(req.to) \in Incarnation
  BY IncarnationExists
<1>2. req.to = "source" => nodes[req.to].doc = SourceDoc
  BY DEF SourceDoc
<1>3. QED
  BY <1>1, <1>2, Answered DEF Executed

----------------------------------------------------------------------------
(* Every step keeps it *)

\* The controller's state, and that it may give up or be restarted at any moment.
LEMMA ControllerIs ==
    ASSUME EvolutionInv
    PROVE  /\ Base(ctl) /\ Stage(ctl, ctl.pc, ctl.data, SourceDoc)
           /\ Fine(Idle(ctl), SourceDoc) /\ Fine(Reopened(ctl), SourceDoc)
<1>1. Base(ctl) /\ Stage(ctl, ctl.pc, ctl.data, SourceDoc)
  BY DEF EvolutionInv, Fine
<1>2. QED
  BY <1>1, IdleIsFine, ReopenedIsFine

\* Other memory does not undo the reports.
LEMMA EnsurableGoesOn ==
    ASSUME NEW c, NEW d, Ensurable(c), Onward(c, d)
    PROVE  Ensurable(d)
BY DEF Ensurable, Reporting, Onward

\* Either component can be asked for its status.
LEMMA StatusIs ==
    ASSUME EvolutionInv, NEW comp \in Component
    PROVE  /\ StatusOf(comp).to \in Component /\ Proper(StatusOf(comp), SourceDoc)
           /\ Real(Executed(StatusOf(comp)).body)
<1>1. StatusOf(comp).to \in Component /\ Proper(StatusOf(comp), SourceDoc) /\ StatusOf(comp).op = "status"
  BY DEF StatusOf, Proper, TargetOnly
<1>2. QED
  BY <1>1, AnswerIs

\* The reports every operation starts with.
LEMMA ReportsKeep ==
    ASSUME EvolutionInv, SourceReport \/ TargetReport
    PROVE  EvolutionInv'
<1>1. now \in Nat /\ Base(ctl) /\ Fine(Reopened(ctl), SourceDoc) /\ Fine(Unbound(ctl), SourceDoc)
  BY NowIsNat, ControllerIs, UnboundIsFine
<1>2. CASE SourceReport
  <2> DEFINE req == StatusOf("source")
             d == [ctl EXCEPT !.src = Executed(req).body]
  <2>1. Exchange(req) /\ ctl' \in {Goto(d, "report.tgt", 0), Unbound(ctl), Reopened(ctl)}
    BY <1>2 DEF SourceReport, Call, Exchange
  <2>2. Base(d) /\ d.mem = ctl.mem /\ d.op = ctl.op /\ d.src = Executed(req).body
    BY <1>1 DEF Base, CtlField
  <2>3. Real(Executed(req).body) /\ req.to \in Component /\ Proper(req, SourceDoc)
    BY StatusIs DEF Component
  <2>4. Reporting(ctl)
    BY <1>2, ControllerIs DEF SourceReport, At, Stage
  <2> HIDE DEF d, req
  <2>5. Stage(d, "report.tgt", 0, SourceDoc)
    BY <2>2, <2>3, <2>4 DEF Stage, Reporting
  <2>6. Fine(ctl', SourceDoc)
    BY <1>1, <2>1, <2>2, <2>5, GotoIsFine
  <2>7. QED
    BY <2>1, <2>3, <2>6, Exchanged
<1>3. CASE TargetReport
  <2> DEFINE req == StatusOf("target")
             d == [ctl EXCEPT !.tgt = Executed(req).body]
  <2>1. Exchange(req) /\ ctl' \in {Bound(d), Unbound(ctl), Reopened(ctl)}
    BY <1>3 DEF TargetReport, Call, Exchange, Given
  <2>2. Base(d) /\ d.mem = ctl.mem /\ d.op = ctl.op /\ d.src = ctl.src /\ d.tgt = Executed(req).body
    BY <1>1 DEF Base, CtlField
  <2>3. Real(Executed(req).body) /\ req.to \in Component /\ Proper(req, SourceDoc)
    BY StatusIs DEF Component
  <2>4. Reporting(ctl) /\ Real(ctl.src)
    BY <1>3, ControllerIs DEF TargetReport, At, Stage
  <2> HIDE DEF d, req
  <2>5. Reporting(d) /\ Real(d.src) /\ Real(d.tgt)
    BY <2>2, <2>3, <2>4 DEF Reporting
  <2>6. Fine(ctl', SourceDoc)
    BY <1>1, <2>1, <2>2, <2>5, BoundIsFine
  <2>7. QED
    BY <2>1, <2>3, <2>6, Exchanged
<1>4. QED
  BY <1>2, <1>3

\* ensure_holder_authority.
LEMMA EnsuringKeeps ==
    ASSUME EvolutionInv, EnsureRenew \/ EnsureReattest \/ EnsureDeliver
    PROVE  EvolutionInv'
<1> DEFINE l == LeaseOf(ctl)
<1>1. now \in Nat /\ Base(ctl) /\ Fine(Reopened(ctl), SourceDoc) /\ Sound(ctl.mem.auth)
  BY NowIsNat, ControllerIs DEF Base, MemOK
<1>2. Ensurable(ctl) /\ ctl.data \in DOMAIN ctl.mem.auth.leases
  BY ControllerIs DEF EnsureRenew, EnsureReattest, EnsureDeliver, At, Stage
<1>3. l \in Lease
  BY <1>1, <1>2 DEF Sound, AuthorityOK, LeaseOf
<1>4. l.holder \in Incarnation /\ HolderOf(ctl) \in Component
  <2>1. l.holder \in Incarnation
    BY <1>3 DEF Lease
  <2>2. l.holder.comp \in Component
    BY <2>1, EvolutionAssumption
  <2>3. QED
    BY <2>1, <2>2 DEF HolderOf
<1>5. ASSUME NEW d, Onward(ctl, d)
      PROVE  Fine(Ensured(d), SourceDoc) /\ Fine(NotEnsured(d), SourceDoc) /\ NotEnsured(d).pc = "idle"
  BY <1>1, <1>2, <1>5, EnsurableGoesOn, EnsuredIsFine, NotEnsuredEnds DEF Onward
<1>6. Onward(ctl, ctl) /\ Onward(ctl, Save(ctl))
  BY <1>1, SaveGoesOn DEF Onward
<1>7. CASE EnsureRenew
  <2> DEFINE req == GrantTo(HolderOf(ctl), l)
  <2>1. Exchange(req) /\ ctl' \in {Ensured(Save(ctl)), NotEnsured(ctl), Reopened(ctl)}
    BY <1>7 DEF EnsureRenew, Call, Exchange
  <2>2. req.to \in Component /\ Proper(req, SourceDoc)
    BY <1>4 DEF GrantTo, Proper, TargetOnly
  <2>3. Fine(ctl', SourceDoc)
    BY <1>1, <1>5, <1>6, <2>1
  <2> HIDE DEF req
  <2>4. QED
    BY <2>1, <2>2, <2>3, Exchanged
<1>8. CASE EnsureDeliver
  <2> DEFINE req == GrantTo(HolderOf(ctl), l)
  <2>1. Exchange(req) /\ ctl' \in {Ensured(Save(ctl)), NotEnsured(Revoked(ctl)), Reopened(ctl)}
    BY <1>8 DEF EnsureDeliver, Call, Exchange
  <2>2. req.to \in Component /\ Proper(req, SourceDoc)
    BY <1>4 DEF GrantTo, Proper, TargetOnly
  <2>3. Onward(ctl, Revoked(ctl))
    BY <1>1, RevokeKeepsSound, SetAuthGoesOn DEF Revoked
  <2>4. Fine(ctl', SourceDoc)
    BY <1>1, <1>5, <1>6, <2>1, <2>3
  <2> HIDE DEF req
  <2>5. QED
    BY <2>1, <2>2, <2>4, Exchanged
<1>9. CASE EnsureReattest
  <2> DEFINE req == [to |-> HolderOf(ctl), op |-> "reattest", token |-> l.token]
             r == ReattestResult(ctl.mem.auth, l.holder, l.token, now)
             a == SetAuth(ctl, r.auth)
             g == GrantThen(ctl, l.holder, "ensure.deliver", NotEnsured(ctl))
  <2>1. Exchange(req) /\ ctl' \in {Ensured(Save(a)), NotEnsured(a), g, Reopened(ctl)}
    BY <1>9 DEF EnsureReattest, Call, Exchange
  <2>2. req.to \in Component /\ Proper(req, SourceDoc)
    BY <1>4 DEF Proper, TargetOnly
  <2>3. Sound(r.auth)
    BY <1>1, ReattestKeepsSound
  <2> HIDE DEF r
  <2>4. Onward(ctl, a)
    BY <1>1, <2>3, SetAuthGoesOn
  <2> HIDE DEF a
  <2>5. Onward(ctl, Save(a))
    BY <2>4, SaveGoesOn, OnwardIsTransitive DEF Onward
  <2>6. Fine(g, SourceDoc)
    <3>1. Base(NotEnsured(ctl)) /\ Parked(NotEnsured(ctl))
      BY <1>5, <1>6 DEF Fine, Parked
    <3>2. QED
      BY <1>1, <1>2, <1>4, <3>1, GrantThenIsFine
  <2> HIDE DEF g
  <2>7. Fine(ctl', SourceDoc)
    BY <1>1, <1>5, <2>1, <2>4, <2>5, <2>6
  <2> HIDE DEF req
  <2>8. QED
    BY <2>1, <2>2, <2>7, Exchanged
<1>10. QED
  BY <1>7, <1>8, <1>9

\* The phases a call may lead to.
LEMMA RecordedIsFine ==
    ASSUME NEW c, Base(c), NEW to \in {Prepared, SnapshotSynchronized, CaughtUp, ReadinessVerified,
                                       PredecessorFenced, AuthorityTransferred, SuccessorVerified}, NEW s
    PROVE  Fine(Idle(RecordPhase(c, to)), s)
<1>1. to \in Prepared..PredecessorRetired
  BY DEF Prepared, SnapshotSynchronized, CaughtUp, ReadinessVerified, PredecessorFenced,
         AuthorityTransferred, SuccessorVerified, PredecessorRetired
<1>2. Base(RecordPhase(c, to))
  BY <1>1, RecordPhaseGoesOn DEF Onward
<1>3. QED
  BY <1>2, IdleIsFine

\* Preparation and the snapshot.
LEMMA SnapshotKeeps ==
    ASSUME EvolutionInv, PreparePred \/ PrepareSucc \/ SnapshotPrepare \/ SnapshotTake \/ SnapshotInstall
    PROVE  EvolutionInv'
<1>1. Base(ctl) /\ Fine(Idle(ctl), SourceDoc) /\ Fine(Reopened(ctl), SourceDoc)
      /\ Stage(ctl, ctl.pc, ctl.data, SourceDoc)
  BY ControllerIs
<1>2. CASE PreparePred
  <2> DEFINE req == [to |-> "source", op |-> "prepare_source"]
  <2>1. Exchange(req) /\ ctl' \in {Goto(ctl, "prepare.succ", ctl.data), Idle(ctl), Reopened(ctl)}
    BY <1>2 DEF PreparePred, Call, Exchange
  <2>2. req.to \in Component /\ Proper(req, SourceDoc)
    BY DEF Proper, TargetOnly, Component
  <2>3. Stage(ctl, "prepare.succ", ctl.data, SourceDoc)
    BY <1>1, <1>2 DEF PreparePred, At, Stage
  <2>4. Fine(ctl', SourceDoc)
    BY <1>1, <2>1, <2>3, GotoIsFine
  <2> HIDE DEF req
  <2>5. QED
    BY <2>1, <2>2, <2>4, Exchanged
<1>3. CASE PrepareSucc
  <2> DEFINE req == [to |-> "target", op |-> "prepare_target", binding |-> ctl.data]
  <2>1. Exchange(req) /\ ctl' \in {Idle(RecordPhase(ctl, Prepared)), Idle(ctl), Reopened(ctl)}
    BY <1>3 DEF PrepareSucc, Call, Exchange
  <2>2. req.to \in Component /\ Proper(req, SourceDoc)
    BY <1>1, <1>3 DEF PrepareSucc, At, Stage, Proper, TargetOnly, Component
  <2>3. Fine(ctl', SourceDoc)
    BY <1>1, <2>1, RecordedIsFine
  <2> HIDE DEF req
  <2>4. QED
    BY <2>1, <2>2, <2>3, Exchanged
<1>4. CASE SnapshotPrepare
  <2> DEFINE req == [to |-> "target", op |-> "prepare_target", binding |-> ctl.data]
  <2>1. Exchange(req) /\ ctl' \in {Goto(ctl, "snapshot.take", 0), Idle(ctl), Reopened(ctl)}
    BY <1>4 DEF SnapshotPrepare, Call, Exchange
  <2>2. req.to \in Component /\ Proper(req, SourceDoc)
    BY <1>1, <1>4 DEF SnapshotPrepare, At, Stage, Proper, TargetOnly, Component
  <2>3. Stage(ctl, "snapshot.take", 0, SourceDoc)
    BY DEF Stage
  <2>4. Fine(ctl', SourceDoc)
    BY <1>1, <2>1, <2>3, GotoIsFine
  <2> HIDE DEF req
  <2>5. QED
    BY <2>1, <2>2, <2>4, Exchanged
<1>5. CASE SnapshotTake
  <2> DEFINE req == [to |-> "source", op |-> "snapshot"]
             r == Executed(req)
  <2>1. Exchange(req) /\ ((r.ok /\ ctl' = Goto(ctl, "snapshot.install", r.body)) \/ ctl' \in {Idle(ctl), Reopened(ctl)})
    BY <1>5 DEF SnapshotTake, Call, Exchange
  <2>2. req.to \in Component /\ Proper(req, SourceDoc) /\ req.to = "source" /\ req.op = "snapshot"
    BY DEF Proper, TargetOnly, Component
  <2> HIDE DEF req
  <2>3. r.ok => Copy(r.body.doc, SourceDoc)
    BY <2>2, AnswerIs
  <2> HIDE DEF r
  <2>4. r.ok => Stage(ctl, "snapshot.install", r.body, SourceDoc)
    BY <2>3 DEF Stage
  <2>5. Fine(ctl', SourceDoc)
    BY <1>1, <2>1, <2>4, GotoIsFine
  <2>6. QED
    BY <2>1, <2>2, <2>5, Exchanged
<1>6. CASE SnapshotInstall
  <2> DEFINE req == [to |-> "target", op |-> "install_snapshot", snapshot |-> ctl.data]
  <2>1. Exchange(req) /\ ctl' \in {Installed(ctl), Idle(ctl), Reopened(ctl)}
    BY <1>6 DEF SnapshotInstall, Call, Exchange
  <2>2. Copy(ctl.data.doc, SourceDoc)
    BY <1>1, <1>6 DEF SnapshotInstall, At, Stage
  <2>3. req.to \in Component /\ Proper(req, SourceDoc)
    BY <2>2 DEF Proper, TargetOnly, Component
  <2>4. Len(ctl.data.doc) \in Nat
    BY <2>2 DEF Copy
  <2>5. Fine(ctl', SourceDoc)
    BY <1>1, <2>1, <2>4, InstalledIsFine
  <2> HIDE DEF req
  <2>6. QED
    BY <2>1, <2>3, <2>5, Exchanged
<1>7. QED
  BY <1>2, <1>3, <1>4, <1>5, <1>6

\* Catch-up, migration and readiness.
LEMMA CatchUpKeeps ==
    ASSUME EvolutionInv,
           CatchUpFetch \/ CatchUpApply \/ CatchUpSource \/ CatchUpTarget \/ CatchUpMigrate \/ VerifyReadiness
    PROVE  EvolutionInv'
<1>1. Base(ctl) /\ Fine(Idle(ctl), SourceDoc) /\ Fine(Reopened(ctl), SourceDoc)
      /\ Stage(ctl, ctl.pc, ctl.data, SourceDoc)
  BY ControllerIs
<1>2. \A c : Stage(c, "catchup.src", 0, SourceDoc)
  BY DEF Stage
<1>3. CASE CatchUpFetch
  <2> DEFINE req == [to |-> "source", op |-> "read_since", from |-> ctl.mem.lsn]
             r == Executed(req)
  <2>1. Exchange(req) /\ ctl' \in {CatchUpRead(ctl, r.body), Idle(ctl), Reopened(ctl)}
    BY <1>3 DEF CatchUpFetch, Call, Exchange
  <2>2. /\ req.to \in Component /\ Proper(req, SourceDoc)
        /\ req.to = "source" /\ req.op = "read_since" /\ req.from \in Nat
    BY <1>1 DEF Proper, TargetOnly, Component, Base, MemOK
  <2> HIDE DEF req
  <2>3. Segment(r.body, SourceDoc)
    BY <2>2, AnswerIs
  <2> HIDE DEF r
  <2>4. Fine(ctl', SourceDoc)
    BY <1>1, <2>1, <2>3, CatchUpReadIsFine
  <2>5. QED
    BY <2>1, <2>2, <2>4, Exchanged
<1>4. CASE CatchUpApply
  <2> DEFINE req == ApplyTo("target", ctl)
             r == Executed(req)
             d == [ctl EXCEPT !.mem.lsn = r.body]
  <2>1. /\ Exchange(req)
        /\ \/ ctl' \in {Goto(ctl, "catchup.src", 0), Idle(ctl), Reopened(ctl)}
           \/ r.ok /\ ctl' = CatchUpRound(d)
    BY <1>4 DEF CatchUpApply, Call, Exchange
  <2>2. req.to \in Component /\ Proper(req, SourceDoc) /\ req.op = "apply_records"
    BY <1>1, <1>4 DEF CatchUpApply, At, Stage, ApplyTo, Proper, TargetOnly, Component
  <2> HIDE DEF req
  <2>3. r.ok => r.body \in Nat
    BY <2>2, AnswerIs
  <2> HIDE DEF r
  <2>4. r.ok => Base(d)
    BY <1>1, <2>3, LsnGoesOn DEF Onward
  <2> HIDE DEF d
  <2>5. Fine(ctl', SourceDoc)
    BY <1>1, <1>2, <2>1, <2>4, GotoIsFine, CatchUpRoundIsFine
  <2>6. QED
    BY <2>1, <2>2, <2>5, Exchanged
<1>5. CASE CatchUpSource
  <2> DEFINE req == StatusOf("source")
             d == [ctl EXCEPT !.src = Executed(req).body]
  <2>1. Exchange(req) /\ ctl' \in {Goto(d, "catchup.tgt", 0), Idle(ctl), Reopened(ctl)}
    BY <1>5 DEF CatchUpSource, Call, Exchange
  <2>2. Real(Executed(req).body) /\ req.to \in Component /\ Proper(req, SourceDoc)
    BY StatusIs DEF Component
  <2>3. Base(d) /\ d.src = Executed(req).body
    BY <1>1 DEF Base, CtlField
  <2> HIDE DEF d, req
  <2>4. Stage(d, "catchup.tgt", 0, SourceDoc)
    BY <2>2, <2>3 DEF Stage
  <2>5. Fine(ctl', SourceDoc)
    BY <1>1, <2>1, <2>3, <2>4, GotoIsFine
  <2>6. QED
    BY <2>1, <2>2, <2>5, Exchanged
<1>6. CASE CatchUpTarget
  <2> DEFINE req == StatusOf("target")
             d == [ctl EXCEPT !.tgt = Executed(req).body]
  <2>1. Exchange(req) /\ ctl' \in {CaughtUpWith(d), Idle(ctl), Reopened(ctl)}
    BY <1>6 DEF CatchUpTarget, Call, Exchange
  <2>2. req.to \in Component /\ Proper(req, SourceDoc)
    BY StatusIs DEF Component
  <2>3. Base(d) /\ d.src = ctl.src
    BY <1>1 DEF Base, CtlField
  <2>4. Real(ctl.src)
    BY <1>1, <1>6 DEF CatchUpTarget, At, Stage
  <2> HIDE DEF d, req
  <2>5. Fine(ctl', SourceDoc)
    BY <1>1, <2>1, <2>3, <2>4, CaughtUpWithIsFine
  <2>6. QED
    BY <2>1, <2>2, <2>5, Exchanged
<1>7. CASE CatchUpMigrate
  <2> DEFINE req == [to |-> "target", op |-> "migrate"]
             m == [ctl.mem EXCEPT !.crossed = ctl.mem.crossed \/ ctl.irreversible]
             d == [ctl EXCEPT !.mem = m]
  <2>1. Exchange(req) /\ ctl' \in {Idle(RecordPhase(d, CaughtUp)), Idle(ctl), Reopened(ctl)}
    BY <1>7 DEF CatchUpMigrate, Call, Exchange
  <2>2. req.to \in Component /\ Proper(req, SourceDoc)
    BY DEF Proper, TargetOnly, Component
  <2>3. MemOK(m) /\ m.phase = ctl.mem.phase
    BY <1>1 DEF Base, MemOK, MemField
  <2> HIDE DEF m
  <2>4. Base(d)
    BY <1>1, <2>3, MemoryReplaced DEF Onward
  <2> HIDE DEF d, req
  <2>5. Fine(ctl', SourceDoc)
    BY <1>1, <2>1, <2>4, RecordedIsFine
  <2>6. QED
    BY <2>1, <2>2, <2>5, Exchanged
<1>8. CASE VerifyReadiness
  <2> DEFINE req == [to |-> "target", op |-> "readiness", lsn |-> ctl.mem.lsn]
             r == Executed(req)
             d == [ctl EXCEPT !.mem.lsn = r.body.lsn]
  <2>1. /\ Exchange(req)
        /\ (r.ok /\ ctl' = Idle(RecordPhase(d, ReadinessVerified))) \/ ctl' \in {Idle(ctl), Reopened(ctl)}
    BY <1>8 DEF VerifyReadiness, Call, Exchange
  <2>2. req.to \in Component /\ Proper(req, SourceDoc) /\ req.op = "readiness"
    BY DEF Proper, TargetOnly, Component
  <2> HIDE DEF req
  <2>3. r.ok => r.body.lsn \in Nat
    BY <2>2, AnswerIs
  <2> HIDE DEF r
  <2>4. r.ok => Base(d)
    BY <1>1, <2>3, LsnGoesOn DEF Onward
  <2> HIDE DEF d
  <2>5. Fine(ctl', SourceDoc)
    BY <1>1, <2>1, <2>4, RecordedIsFine
  <2>6. QED
    BY <2>1, <2>2, <2>5, Exchanged
<1>9. QED
  BY <1>3, <1>4, <1>5, <1>6, <1>7, <1>8

\* The fence, the final catch-up and the transfer of authority.
LEMMA TransferKeeps ==
    ASSUME EvolutionInv,
           FencePredecessor \/ TransferSource \/ TransferTarget \/ TransferRead \/ TransferApply \/ TransferDeliver
    PROVE  EvolutionInv'
<1>1. Base(ctl) /\ Fine(Idle(ctl), SourceDoc) /\ Fine(Reopened(ctl), SourceDoc)
      /\ Stage(ctl, ctl.pc, ctl.data, SourceDoc) /\ now \in Nat /\ Sound(ctl.mem.auth)
  BY ControllerIs, NowIsNat DEF Base, MemOK
<1>2. CASE FencePredecessor
  <2> DEFINE req == [to |-> "source", op |-> "fence", target |-> ctl.mem.pred, fence |-> ctl.data]
             d == SetAuth(ctl, AcknowledgeFenceResult(ctl.mem.auth, ctl.mem.pred, ctl.data).auth)
  <2>1. Exchange(req) /\ ctl' \in {Idle(RecordPhase(d, PredecessorFenced)), Idle(Save(ctl)), Reopened(ctl)}
    BY <1>2 DEF FencePredecessor, Call, Exchange
  <2>2. req.to \in Component /\ Proper(req, SourceDoc)
    BY DEF Proper, TargetOnly, Component
  <2>3. Base(d) /\ Base(Save(ctl))
    BY <1>1, AcknowledgeResultIsSound, SetAuthGoesOn, SaveGoesOn DEF Onward
  <2> HIDE DEF d, req
  <2>4. Fine(ctl', SourceDoc)
    BY <1>1, <2>1, <2>3, RecordedIsFine, IdleIsFine
  <2>5. QED
    BY <2>1, <2>2, <2>4, Exchanged
<1>3. CASE TransferSource
  <2> DEFINE req == StatusOf("source")
             d == [ctl EXCEPT !.src = Executed(req).body]
  <2>1. Exchange(req) /\ ctl' \in {TransferRound(d), Idle(ctl), Reopened(ctl)}
    BY <1>3 DEF TransferSource, Call, Exchange
  <2>2. Real(Executed(req).body) /\ req.to \in Component /\ Proper(req, SourceDoc)
    BY StatusIs DEF Component
  <2>3. Base(d) /\ d.mem = ctl.mem /\ d.src = Executed(req).body
    BY <1>1 DEF Base, CtlField
  <2>4. ctl.mem.phase # NoHandoff
    BY <1>1, <1>3 DEF TransferSource, At, Stage
  <2> HIDE DEF d, req
  <2>5. Fine(ctl', SourceDoc)
    BY <1>1, <2>1, <2>2, <2>3, <2>4, TransferRoundIsFine
  <2>6. QED
    BY <2>1, <2>2, <2>5, Exchanged
<1>4. CASE TransferTarget
  <2> DEFINE req == StatusOf("target")
             lsn == Executed(req).body.lsn
  <2>1. Exchange(req) /\ ctl' \in {TransferGrant(ctl), Goto(ctl, "transfer.read", lsn), Idle(ctl), Reopened(ctl)}
    BY <1>4 DEF TransferTarget, Call, Exchange
  <2>2. lsn \in Nat /\ req.to \in Component /\ Proper(req, SourceDoc)
    BY StatusIs DEF Component, Real
  <2>3. ctl.mem.phase # NoHandoff /\ Real(ctl.src)
    BY <1>1, <1>4 DEF TransferTarget, At, Stage
  <2> HIDE DEF lsn, req
  <2>4. Stage(ctl, "transfer.read", lsn, SourceDoc)
    BY <2>2, <2>3 DEF Stage
  <2>5. Fine(ctl', SourceDoc)
    BY <1>1, <2>1, <2>3, <2>4, TransferGrantIsFine, GotoIsFine
  <2>6. QED
    BY <2>1, <2>2, <2>5, Exchanged
<1>5. CASE TransferRead
  <2> DEFINE req == [to |-> "source", op |-> "read_since", from |-> ctl.data]
             r == Executed(req)
             b == [binding |-> SourceClaim(ctl), batch |-> r.body]
  <2>1. Exchange(req) /\ ctl' \in {TransferGrant(ctl), Goto(ctl, "transfer.apply", b), Idle(ctl), Reopened(ctl)}
    BY <1>5 DEF TransferRead, Call, Exchange
  <2>2. ctl.mem.phase # NoHandoff /\ Real(ctl.src) /\ ctl.data \in Nat
    BY <1>1, <1>5 DEF TransferRead, At, Stage
  <2>3. /\ req.to \in Component /\ Proper(req, SourceDoc)
        /\ req.to = "source" /\ req.op = "read_since" /\ req.from \in Nat
    BY <2>2 DEF Proper, TargetOnly, Component
  <2> HIDE DEF req
  <2>4. Segment(r.body, SourceDoc)
    BY <2>3, AnswerIs
  <2> HIDE DEF r
  <2>5. Stage(ctl, "transfer.apply", b, SourceDoc)
    BY <2>2, <2>4 DEF Stage
  <2> HIDE DEF b
  <2>6. Fine(ctl', SourceDoc)
    BY <1>1, <2>1, <2>2, <2>5, TransferGrantIsFine, GotoIsFine
  <2>7. QED
    BY <2>1, <2>3, <2>6, Exchanged
<1>6. CASE TransferApply
  <2> DEFINE req == ApplyTo("target", ctl)
  <2>1. Exchange(req) /\ ctl' \in {TransferRound(ctl), Idle(ctl), Reopened(ctl)}
    BY <1>6 DEF TransferApply, Call, Exchange
  <2>2. ctl.mem.phase # NoHandoff /\ Real(ctl.src) /\ Segment(ctl.data.batch, SourceDoc)
    BY <1>1, <1>6 DEF TransferApply, At, Stage
  <2>3. req.to \in Component /\ Proper(req, SourceDoc)
    BY <2>2 DEF ApplyTo, Proper, TargetOnly, Component
  <2> HIDE DEF req
  <2>4. Fine(ctl', SourceDoc)
    BY <1>1, <2>1, <2>2, TransferRoundIsFine
  <2>5. QED
    BY <2>1, <2>3, <2>4, Exchanged
<1>7. CASE TransferDeliver
  <2> DEFINE req == GrantTo("target", LeaseOf(ctl))
             d == Revoked(ctl)
  <2>1. Exchange(req) /\ ctl' \in {Idle(RecordPhase(ctl, AuthorityTransferred)), Idle(Save(d)), Reopened(ctl)}
    BY <1>7 DEF TransferDeliver, Call, Exchange
  <2>2. req.to \in Component /\ Proper(req, SourceDoc)
    BY DEF GrantTo, Proper, TargetOnly, Component
  <2>3. Base(d)
    BY <1>1, RevokeKeepsSound, SetAuthGoesOn DEF Revoked, Onward
  <2> HIDE DEF d, req
  <2>4. Base(Save(d))
    BY <2>3, SaveGoesOn DEF Onward
  <2>5. Fine(ctl', SourceDoc)
    BY <1>1, <2>1, <2>4, RecordedIsFine, IdleIsFine
  <2>6. QED
    BY <2>1, <2>2, <2>5, Exchanged
<1>8. QED
  BY <1>2, <1>3, <1>4, <1>5, <1>6, <1>7

\* Verification of the successor and the predecessor's retirement.
LEMMA VerifyKeeps ==
    ASSUME EvolutionInv, VerifyReport \/ VerifyProbe \/ VerifyWrite \/ RetirePredecessor
    PROVE  EvolutionInv'
<1>1. Base(ctl) /\ Fine(Idle(ctl), SourceDoc) /\ Fine(Reopened(ctl), SourceDoc)
  BY ControllerIs
<1>2. \A pc \in {"verify.write", "verify.probe"} : Fine(Goto(ctl, pc, ctl.data), SourceDoc)
  <2>1. \A pc \in {"verify.write", "verify.probe"} : Stage(ctl, pc, ctl.data, SourceDoc)
    BY DEF Stage
  <2>2. QED
    BY <1>1, <2>1, GotoIsFine
<1>3. CASE VerifyReport
  <2> DEFINE req == StatusOf("target")
  <2>1. /\ Exchange(req)
        /\ ctl' \in {Goto(ctl, "verify.write", ctl.data), Goto(ctl, "verify.probe", ctl.data), Idle(ctl), Reopened(ctl)}
    BY <1>3 DEF VerifyReport, Call, Exchange
  <2>2. req.to \in Component /\ Proper(req, SourceDoc)
    BY StatusIs DEF Component
  <2>3. Fine(ctl', SourceDoc)
    BY <1>1, <1>2, <2>1
  <2> HIDE DEF req
  <2>4. QED
    BY <2>1, <2>2, <2>3, Exchanged
<1>4. CASE VerifyProbe
  <2> DEFINE req == ProbeWrite("source", ctl.mem.claim)
  <2>1. Exchange(req) /\ ctl' \in {Goto(ctl, "verify.write", ctl.data), Idle(ctl), Reopened(ctl)}
    BY <1>4 DEF VerifyProbe, Call, Exchange
  <2>2. req.to \in Component /\ Proper(req, SourceDoc)
    BY DEF ProbeWrite, Proper, TargetOnly, Component
  <2>3. Fine(ctl', SourceDoc)
    BY <1>1, <1>2, <2>1
  <2> HIDE DEF req
  <2>4. QED
    BY <2>1, <2>2, <2>3, Exchanged
<1>5. CASE VerifyWrite
  <2> DEFINE req == ProbeWrite("target", ClaimOf(LeaseOf(ctl)))
  <2>1. Exchange(req) /\ ctl' \in {Idle(RecordPhase(ctl, SuccessorVerified)), Idle(ctl), Reopened(ctl)}
    BY <1>5 DEF VerifyWrite, Call, Exchange
  <2>2. req.to \in Component /\ Proper(req, SourceDoc)
    BY DEF ProbeWrite, Proper, TargetOnly, Component
  <2>3. Fine(ctl', SourceDoc)
    BY <1>1, <2>1, RecordedIsFine
  <2> HIDE DEF req
  <2>4. QED
    BY <2>1, <2>2, <2>3, Exchanged
<1>6. CASE RetirePredecessor
  <2> DEFINE req == [to |-> "source", op |-> "retire"]
             d == RecordPhase(ctl, PredecessorRetired)
             e == ApplyAction(d, "Complete")
  <2>1. Exchange(req) /\ ctl' \in {Idle(e), Idle(ctl), Reopened(ctl)}
    BY <1>6 DEF RetirePredecessor, Call, Exchange
  <2>2. req.to \in Component /\ Proper(req, SourceDoc)
    BY DEF Proper, TargetOnly, Component
  <2>3. Base(d)
    BY <1>1, RecordPhaseGoesOn DEF Onward, Prepared, PredecessorRetired
  <2> HIDE DEF d, req
  <2>4. Base(e)
    BY <2>3, ApplyActionGoesOn DEF Onward
  <2> HIDE DEF e
  <2>5. Fine(ctl', SourceDoc)
    BY <1>1, <2>1, <2>4, IdleIsFine
  <2>6. QED
    BY <2>1, <2>2, <2>5, Exchanged
<1>7. QED
  BY <1>3, <1>4, <1>5, <1>6

\* Rollback.
LEMMA AbortKeeps ==
    ASSUME EvolutionInv, AbortSource \/ AbortDeliver \/ AbortRetire
    PROVE  EvolutionInv'
<1> DEFINE retire == Goto(ctl, "abort.retire", 0)
<1>1. Base(ctl) /\ Fine(Reopened(ctl), SourceDoc) /\ now \in Nat
  BY ControllerIs, NowIsNat
<1>2. Fine(retire, SourceDoc) /\ Base(retire) /\ Parked(retire)
  <2>1. Stage(ctl, "abort.retire", 0, SourceDoc)
    BY DEF Stage
  <2>2. Fine(retire, SourceDoc)
    BY <1>1, <2>1, GotoIsFine
  <2>3. retire.pc = "abort.retire"
    BY <1>1 DEF Goto, Base, CtlField
  <2>4. QED
    BY <2>2, <2>3 DEF Fine, Parked
<1> HIDE DEF retire
<1>3. CASE AbortSource
  <2> DEFINE req == StatusOf("source")
             g == GrantThen(ctl, Executed(req).body.inc, "abort.deliver", retire)
  <2>1. Exchange(req) /\ ctl' \in {retire, g, Reopened(ctl)}
    BY <1>3 DEF AbortSource, Call, Exchange, retire
  <2>2. Executed(req).body.inc \in Incarnation /\ req.to \in Component /\ Proper(req, SourceDoc)
    BY StatusIs DEF Component, Real
  <2> HIDE DEF req
  <2>3. Fine(g, SourceDoc)
    BY <1>1, <1>2, <2>2, GrantThenIsFine
  <2> HIDE DEF g
  <2>4. Fine(ctl', SourceDoc)
    BY <1>1, <1>2, <2>1, <2>3
  <2>5. QED
    BY <2>1, <2>2, <2>4, Exchanged
<1>4. CASE AbortDeliver
  <2> DEFINE req == GrantTo("source", LeaseOf(ctl))
  <2>1. Exchange(req) /\ ctl' \in {retire, Reopened(ctl)}
    BY <1>4 DEF AbortDeliver, Call, Exchange, retire
  <2>2. req.to \in Component /\ Proper(req, SourceDoc)
    BY DEF GrantTo, Proper, TargetOnly, Component
  <2>3. Fine(ctl', SourceDoc)
    BY <1>1, <1>2, <2>1
  <2> HIDE DEF req
  <2>4. QED
    BY <2>1, <2>2, <2>3, Exchanged
<1>5. CASE AbortRetire
  <2> DEFINE req == [to |-> "target", op |-> "retire"]
  <2>1. Exchange(req) /\ ctl' \in {AbortConfirmed(ctl), Reopened(ctl)}
    BY <1>5 DEF AbortRetire, Call, Exchange
  <2>2. req.to \in Component /\ Proper(req, SourceDoc)
    BY DEF Proper, TargetOnly, Component
  <2>3. Fine(ctl', SourceDoc)
    BY <1>1, <2>1, AbortConfirmedIsFine
  <2> HIDE DEF req
  <2>4. QED
    BY <2>1, <2>2, <2>3, Exchanged
<1>6. QED
  BY <1>3, <1>4, <1>5

\* Steps of the controller alone.
LEMMA LocalKeeps ==
    ASSUME EvolutionInv, Fine(ctl', SourceDoc), UNCHANGED <<nodes, late, now, acked>>
    PROVE  EvolutionInv'
BY DEF EvolutionInv, SourceDoc

\* Operators' calls.
LEMMA RequestKeeps ==
    ASSUME EvolutionInv, Request
    PROVE  EvolutionInv'
<1>1. Base(ctl) /\ UNCHANGED <<nodes, late, now, acked>> /\ ctl.pc = "idle"
  BY ControllerIs DEF Request, Plan, Preflight, Start, Advance, Pause, Resume, Abort, Reconcile, Local, Idling, At
<1>2. ASSUME NEW d, Base(d), d.pc = "idle"
      PROVE  Fine(d, SourceDoc)
  BY <1>2 DEF Fine, Stage
<1>3. \A action \in {"Preflight", "Start", "Pause", "Resume", "Abort"} :
        Base(ApplyAction(ctl, action)) /\ ApplyAction(ctl, action).pc = "idle"
  BY <1>1, ApplyActionGoesOn DEF Onward
<1>4. CASE Plan
  <2> DEFINE m == [ctl.mem EXCEPT !.camp = "Planned", !.crossed = FALSE, !.winAt = -1]
             d == [ctl EXCEPT !.mem = m, !.plans = ctl.plans + 1]
  <2>1. ctl' = Save(d)
    BY <1>1, <1>4 DEF Plan, Local, Base, CtlField
  <2>2. MemOK(m)
    BY <1>1 DEF Base, MemOK, MemField, CampaignState
  <2> HIDE DEF m
  <2>3. Base(d) /\ d.pc = "idle"
    BY <1>1, <2>2 DEF Base, CtlField
  <2> HIDE DEF d
  <2>4. Base(Save(d)) /\ Save(d).pc = "idle"
    BY <2>3, SaveGoesOn DEF Onward
  <2>5. QED
    BY <1>1, <1>2, <2>1, <2>4, LocalKeeps
<1>5. CASE Preflight
  <2>1. ctl' = Bind(ApplyAction(ctl, "Preflight"), "preflight")
    BY <1>5 DEF Preflight, Local
  <2>2. Fine(ctl', SourceDoc)
    BY <1>3, <2>1, BindIsFine
  <2>3. QED
    BY <1>1, <2>2, LocalKeeps
<1>6. CASE Start
  BY <1>1, <1>6, BeginIsFine, LocalKeeps DEF Start, Local
<1>7. CASE Advance
  <2>1. ctl' = Begin(ctl) \/ (ctl.mem.phase # NoHandoff /\ ctl' = Bind(ctl, "advance"))
    BY <1>7 DEF Advance, Local
  <2>2. Fine(ctl', SourceDoc)
    BY <1>1, <2>1, BeginIsFine, BindIsFine
  <2>3. QED
    BY <1>1, <2>2, LocalKeeps
<1>8. CASE Pause \/ Resume
  BY <1>1, <1>2, <1>3, <1>8, LocalKeeps DEF Pause, Resume, Local
<1>9. CASE Abort
  <2> DEFINE c == ApplyAction(ctl, "Abort")
  <2>1. Base(c) /\ c.pc = "idle"
    BY <1>3
  <2>2. ctl' \in {c, AbortConfirmed(c), Goto(c, "abort.src", 0)}
    BY <1>9 DEF Abort, Local
  <2> HIDE DEF c
  <2>3. Stage(c, "abort.src", 0, SourceDoc)
    BY DEF Stage
  <2>4. Fine(ctl', SourceDoc)
    BY <1>2, <2>1, <2>2, <2>3, AbortConfirmedIsFine, GotoIsFine
  <2>5. QED
    BY <1>1, <2>4, LocalKeeps
<1>10. CASE Reconcile
  <2>1. Fine(Bind(ctl, "reconcile"), SourceDoc)
    BY <1>1, BindIsFine
  <2>2. QED
    BY <1>1, <1>10, <2>1, LocalKeeps DEF Reconcile, Local
<1>11. QED
  BY <1>4, <1>5, <1>6, <1>7, <1>8, <1>9, <1>10 DEF Request

\* A client's write, under a number nobody has used.
LEMMA ClientWriteKeeps ==
    ASSUME EvolutionInv, NEW comp \in Component, ClientWrite(comp)
    PROVE  EvolutionInv'
<1> DEFINE n == nodes[comp]
           w == Cardinality(acked) + 1
           claim == [holder |-> IncarnationOf(comp), epoch |-> n.lease.epoch,
                     generation |-> n.lease.generation, token |-> n.lease.token]
           r == Write(n, IncarnationOf(comp), claim, w, now)
           nd == [nodes EXCEPT ![comp] = r.node]
<1>1. w <= MaxWrites /\ r.ok /\ nodes' = nd /\ acked' = acked \cup {w} /\ UNCHANGED <<ctl, late, now>>
  BY DEF ClientWrite
<1>2. PICK k \in 0..MaxWrites : acked = 1..k
  BY DEF EvolutionInv
<1>3. w = k + 1 /\ k \in Nat /\ MaxWrites \in Nat
  <2>1. MaxWrites \in Nat
    BY EvolutionAssumption
  <2>2. k \in Nat /\ Cardinality(1..k) = k
    BY <2>1, FS_Interval
  <2>3. QED
    BY <1>2, <2>1, <2>2
<1> HIDE DEF w
<1>4. w \in Nat /\ w \notin acked /\ acked' = 1..w /\ w \in 0..MaxWrites
  BY <1>1, <1>2, <1>3
<1>5. NodeOK(n) /\ IncarnationOf(comp) \in Incarnation
  BY IncarnationExists
<1> HIDE DEF claim
<1>6. NodeOK(r.node) /\ AddedTo(r.node.doc, n.doc, w) /\ r.node.saved = Len(r.node.doc)
  BY <1>1, <1>4, <1>5, WriteAdds
<1> HIDE DEF r
<1>7. NodesInv(nd, acked') /\ Grown(SourceDoc, nd["source"].doc)
  BY <1>1, <1>4, <1>6, NodeChanges
<1> HIDE DEF nd
<1>8. NodesInv(nodes', acked') /\ Grown(SourceDoc, SourceDoc')
  BY <1>1, <1>7 DEF SourceDoc
<1>9. Fine(ctl, SourceDoc') /\ \A req \in late : req.to \in Component /\ Proper(req, SourceDoc')
  BY <1>8, FineStays, ProperStays DEF EvolutionInv
<1>10. QED
  BY <1>1, <1>4, <1>8, <1>9 DEF EvolutionInv

\* A component restarts: the target may lose what it had not saved, the source never has any.
LEMMA NodeRestartKeeps ==
    ASSUME EvolutionInv, NEW comp \in Component, NodeRestart(comp)
    PROVE  EvolutionInv'
<1> DEFINE n == nodes[comp]
           m == Rebooted(n)
           nd == [nodes EXCEPT ![comp] = m]
<1>1. n.boot < MaxBoot /\ nodes' = nd /\ late' \subseteq late /\ UNCHANGED <<ctl, now, acked>>
  BY DEF NodeRestart
<1>2. NodeOK(n)
  BY IncarnationExists
<1>3. /\ NodeOK(m) /\ Blend(m.doc, n.doc, SourceDoc)
      /\ n.saved = Len(n.doc) => m.doc = n.doc /\ m.saved = Len(m.doc)
  BY <1>1, <1>2, RebootedIs
<1> HIDE DEF m
<1>4. comp = "source" => n.saved = Len(n.doc)
  BY DEF EvolutionInv, NodesInv
<1>5. NodesInv(nd, acked) /\ Grown(SourceDoc, nd["source"].doc)
  BY <1>3, <1>4, NodeChanges
<1> HIDE DEF nd
<1>6. NodesInv(nodes', acked') /\ Grown(SourceDoc, SourceDoc')
  BY <1>1, <1>5 DEF SourceDoc
<1>7. Fine(ctl, SourceDoc') /\ \A req \in late : req.to \in Component /\ Proper(req, SourceDoc')
  BY <1>6, FineStays, ProperStays DEF EvolutionInv
<1>8. QED
  BY <1>1, <1>6, <1>7 DEF EvolutionInv

\* Every call keeps the invariant.
LEMMA StepKeeps ==
    ASSUME EvolutionInv, Step
    PROVE  EvolutionInv'
BY ReportsKeep, EnsuringKeeps, SnapshotKeeps, CatchUpKeeps, TransferKeeps, VerifyKeeps, AbortKeeps DEF Step

\* Every step keeps the invariant.
LEMMA NextKeeps ==
    ASSUME EvolutionInv, [Next]_vars
    PROVE  EvolutionInv'
<1>1. CASE \E req \in late : ExecuteLate(req)
  <2>1. PICK req \in late : ExecuteLate(req)
    BY <1>1
  <2>2. Exchange(req) /\ ctl' = ctl
    BY <2>1 DEF ExecuteLate, Exchange
  <2>3. req.to \in Component /\ Proper(req, SourceDoc) /\ Fine(ctl', SourceDoc)
    BY <2>2 DEF EvolutionInv
  <2>4. QED
    BY <2>2, <2>3, Exchanged
<1>2. CASE ControllerRestart
  BY <1>2, ControllerIs, LocalKeeps DEF ControllerRestart
<1>3. CASE Tick
  <2>1. now' \in 0..MaxTime
    BY <1>3, EvolutionAssumption DEF Tick, EvolutionInv
  <2>2. QED
    BY <1>3, <2>1 DEF Tick, EvolutionInv, SourceDoc
<1>4. CASE UNCHANGED vars
  BY <1>4 DEF vars, EvolutionInv, SourceDoc
<1>5. QED
  BY <1>1, <1>2, <1>3, <1>4, RequestKeeps, StepKeeps, ClientWriteKeeps, NodeRestartKeeps DEF Next

\* The invariant holds at first.
LEMMA InitEstablishes ==
    ASSUME Init
    PROVE  EvolutionInv
<1>1. NodesInv(nodes, acked)
  <2>1. \A schema \in {SourceSchema, TargetSchema} : NodeOK(FreshNode(schema)) /\ FreshNode(schema).doc = <<>>
        /\ FreshNode(schema).saved = 0
    <3>1. 1 \in 1..MaxBoot
      BY EvolutionAssumption
    <3>2. QED
      BY <3>1 DEF NodeOK, NodeField, FreshNode
  <2>2. /\ nodes["source"] \in {FreshNode(SourceSchema), FreshNode(TargetSchema)}
        /\ nodes["target"] \in {FreshNode(SourceSchema), FreshNode(TargetSchema)}
        /\ DOMAIN nodes = Component /\ nodes = [comp \in Component |-> nodes[comp]]
    BY DEF Init, Component
  <2>3. NodeOK(nodes["source"]) /\ NodeOK(nodes["target"]) /\ nodes["source"].saved = 0
        /\ nodes["source"].doc = <<>> /\ nodes["target"].doc = <<>>
    BY <2>1, <2>2
  <2>4. Replicated(<<>>, <<>>, acked)
    BY DEF Replicated, Distinct, Faithful, Known
  <2>5. QED
    BY <2>2, <2>3, <2>4 DEF NodesInv
<1>2. Fine(ctl, SourceDoc)
  <2>1. /\ DOMAIN ctl = CtlField /\ ctl = [f \in CtlField |-> ctl[f]] /\ ctl.pc = "idle" /\ ctl.tokens = 0
        /\ ctl.mem = InitialMemory /\ ctl.disk = InitialMemory
    BY DEF Init, CtlField
  <2>2. MemOK(InitialMemory)
    <3>1. Sound(Established(1))
      BY EstablishedIsSound
    <3>2. 0 \in 0..MaxRestarts
      BY EvolutionAssumption
    <3>3. QED
      BY <3>1, <3>2 DEF MemOK, MemField, InitialMemory, CampaignState
  <2>3. QED
    BY <2>1, <2>2 DEF Fine, Base, Stage
<1>3. late = {} /\ now \in 0..MaxTime /\ \E k \in 0..MaxWrites : acked = 1..k
  <2>1. 0 \in 0..MaxTime /\ 0 \in 0..MaxWrites
    BY EvolutionAssumption
  <2>2. {} = 1..0
    OBVIOUS
  <2>3. QED
    BY <2>1, <2>2 DEF Init
<1>4. QED
  BY <1>1, <1>2, <1>3 DEF EvolutionInv

----------------------------------------------------------------------------
(* Theorems *)

\* The inductive invariant of the composition: nodes, documents, controller and requests on
\* their way, in every reachable state.
THEOREM EvolutionInvariant == Spec => []EvolutionInv
<1>1. Init => EvolutionInv
  BY InitEstablishes
<1>2. EvolutionInv /\ [Next]_vars => EvolutionInv'
  BY NextKeeps
<1>3. QED
  BY <1>1, <1>2, PTL DEF Spec

\* Type correctness, whatever fails and whoever restarts: among it that a handoff is restarted
\* no more often than kMaxHandoffRestarts allows, that a component's log is a tail of its
\* document and that its state file covers no more than there is.
THEOREM EvolutionTypeCorrect == Spec => []TypeOK
<1>1. EvolutionInv => TypeOK
  <2> SUFFICES ASSUME EvolutionInv PROVE TypeOK
    OBVIOUS
  <2>1. MemOK(ctl.mem) /\ MemOK(ctl.disk)
    BY DEF EvolutionInv, Fine, Base
  <2>2. \A comp \in Component : NodeOK(nodes[comp])
    BY IncarnationExists
  <2>3. acked \subseteq 1..MaxWrites
    BY EvolutionAssumption DEF EvolutionInv
  <2>4. ASSUME NEW m, MemOK(m)
        PROVE  /\ m.camp \in CampaignState
               /\ m.phase \in HandoffPhase \cup {NoHandoff}
               /\ m.attempt \in 0..MaxRestarts
               /\ {m.pred, m.succ} \subseteq Incarnation \cup {Nobody}
               /\ m.claim \in Claim \cup {NoClaim}
               /\ \A i \in DOMAIN m.auth.leases : m.auth.leases[i] \in Lease
               /\ \A i \in DOMAIN m.auth.fences : m.auth.fences[i] \in Fence
    BY <2>4 DEF MemOK, Sound, AuthorityOK
  <2>5. now \in 0..MaxTime
    BY DEF EvolutionInv
  <2>6. QED
    BY <2>1, <2>2, <2>3, <2>4, <2>5 DEF TypeOK, NodeOK
<1>2. QED
  BY <1>1, EvolutionInvariant, PTL

\* A client's write is in a component's document at most once, however often and however late
\* snapshots and batches of records are sent, refused half-way, lost or executed.
THEOREM NoWriteAppliedTwice == Spec => []AppliedOnce
<1>1. EvolutionInv => AppliedOnce
  BY DEF EvolutionInv, NodesInv, Replicated, Distinct, AppliedOnce, Component
<1>2. QED
  BY <1>1, EvolutionInvariant, PTL

\* The registry's record, in memory and as saved, keeps what the registry promises through
\* everything the controller does with it: one lease in the mutation slot at most, live under
\* the current generation, and a fence for every lease that is being fenced.
THEOREM ControllerRecordSound == Spec => [](Sound(ctl.mem.auth) /\ Sound(ctl.disk.auth))
<1>1. EvolutionInv => Sound(ctl.mem.auth) /\ Sound(ctl.disk.auth)
  BY DEF EvolutionInv, Fine, Base, MemOK
<1>2. QED
  BY <1>1, EvolutionInvariant, PTL

----------------------------------------------------------------------------
(* Handoffs of components that stay up *)

\* No component restarts, no campaign is rolled back and no request is executed after the
\* controller has given it up.  Calls and their answers get lost, the controller dies and
\* comes back, leases run out and operators do what else they may, as often as they like.
Steady == MaxBoot = 1 /\ "Abort" \notin Operations /\ "late" \notin Failures

\* The final catch-up can move everything the source's log holds (as with the defaults, at most 20000
\* records and 128 rounds of 256), or everything clients write.
Enough == MaxLog <= MaxRounds * MaxBatch \/ MaxWrites <= MaxRounds * MaxBatch

\* Nothing fails.
Unfailing == MaxCrashes = 0 /\ MaxLosses = 0

\* Nothing fails, or nobody reconciles: reconcile records a fence it finds obeyed, and leaves it open.
Settling == Unfailing \/ "Reconcile" \notin Operations

SourceInc == [comp |-> "source", boot |-> 1]
TargetInc == [comp |-> "target", boot |-> 1]

Stopped(n) == n.life # "Serving"

\* The fences of the source that wait for an acknowledgement.
Open(m) == OutstandingFences(m.auth, SourceInc)

\* The handoff the controller remembers is the one between the two processes, and a campaign
\* that has not been started, or has ended, finds no handoff under way.
Ordered(m) ==
    /\ m.phase \in NoHandoff..PredecessorRetired
    /\ m.phase # NoHandoff => m.pred = SourceInc /\ m.succ = TargetInc
    /\ m.camp \in {"Planned", "Preflighting", "Running", "Paused", "Completed", "Failed"}
    /\ m.camp \in {"Planned", "Preflighting", "Completed", "Failed"} => m.phase \in {NoHandoff, PredecessorRetired}

\* A restart of the controller finds the phase and the fences it knew.
Recoverable(m, disk) ==
    /\ m.phase = disk.phase \/ (m.phase = NotStarted /\ disk.phase = NoHandoff)
    /\ m.auth.fences = disk.auth.fences

\* The phase and the open fences tell what the source s and the target t are doing.
Truthful(m, s, t) ==
    /\ m.phase >= PredecessorFenced => Stopped(s)
    /\ m.phase = PredecessorRetired => s.life = "Retired"
    /\ Stopped(s) => m.phase >= PredecessorFenced \/ Open(m) # {}
    /\ t.confirmed => m.phase >= PredecessorFenced
    /\ m.phase >= AuthorityTransferred => t.confirmed
    /\ t.life = "Serving"
    /\ \A f, g \in Open(m) : f = g
    /\ Settling /\ m.phase >= PredecessorFenced => Open(m) = {}
    /\ Unfailing /\ Stopped(s) => m.phase >= PredecessorFenced

\* Whose authority is being looked after: the source's while nobody has asked it to stop, or when
\* it has retired and cannot accept any; the target's once it has been granted some.
Served(m, h) ==
    \/ h = SourceInc /\ m.phase < PredecessorFenced /\ Open(m) = {}
    \/ h = SourceInc /\ m.phase = PredecessorRetired
    \/ h = TargetInc /\ m.phase >= AuthorityTransferred

\* The operation under way is one its phase allows.
Purposeful(c) ==
    /\ c.op = "begin" => c.mem.camp = "Running" /\ c.mem.phase \in {NoHandoff, NotStarted}
    /\ c.op = "preflight" => c.mem.phase \in {NoHandoff, PredecessorRetired}
    /\ c.op = "prepare" => c.mem.phase = NotStarted
    /\ c.op = "reconcile" => "Reconcile" \in Operations
    /\ c.rounds = 0

\* What the source reported, and the target, is still so.
SourceKnown(c, s) == c.src.inc = SourceInc /\ (c.src.life \in {"Fenced", "Retired"} => Stopped(s))
TargetKnown(c, t) == c.tgt.inc = TargetInc /\ (c.tgt.hasAuthority => t.confirmed)

\* The final catch-up is under way.  What is left of it fits what is left of its rounds, or the log
\* no longer reaches back to where the target is, and the target will refuse the next batch.
Finishing(c, left, s, t) ==
    /\ c.mem.phase = PredecessorFenced
    /\ c.src.lsn = Len(s.doc)
    /\ c.rounds \in 1..MaxRounds
    /\ Enough /\ ~t.confirmed => \/ Len(s.doc) - Len(t.doc) <= left * MaxBatch
                                 \/ left # 0 /\ Len(t.doc) < s.base

\* Where the controller is, what it knows is true.
Course(c, pc, data, s, t) ==
    /\ pc \in {"idle", "transfer.src"} => c.rounds = 0
    /\ pc \notin {"abort.src", "abort.deliver", "abort.retire"}
    /\ pc \in {"report.src", "report.tgt"} => Purposeful(c) /\ (c.op = "begin" => c.mem.phase = NoHandoff)
    /\ pc = "report.tgt" => SourceKnown(c, s)
    /\ pc \in {"ensure.renew", "ensure.reattest", "ensure.deliver"} =>
         /\ Purposeful(c) /\ SourceKnown(c, s) /\ TargetKnown(c, t)
         /\ Served(c.mem, c.mem.auth.leases[data].holder)
    /\ pc \in {"prepare.pred", "prepare.succ", "snapshot.prepare", "snapshot.take", "snapshot.install",
               "catchup.read", "catchup.apply", "catchup.src", "catchup.tgt", "catchup.migrate", "readiness"}
         => c.mem.phase < PredecessorFenced
    /\ pc = "fence" => c.mem.phase = ReadinessVerified /\ data \in Open(c.mem)
    /\ pc = "transfer.src" => c.mem.phase = PredecessorFenced
    /\ pc \in {"transfer.tgt", "transfer.read", "transfer.apply"} => Finishing(c, MaxRounds - c.rounds + 1, s, t)
    /\ pc \in {"transfer.read", "transfer.apply"} => (Enough => ~t.confirmed)
    /\ pc = "transfer.read" => (Enough => data = Len(t.doc) /\ Len(t.doc) < Len(s.doc))
    /\ pc = "transfer.apply" => (Enough => /\ data.batch.entries # <<>> /\ s.base < data.batch.first
                                           /\ \/ Len(data.batch.entries) >= MaxBatch
                                              \/ data.batch.first + Len(data.batch.entries) > Len(s.doc))
    /\ pc = "transfer.deliver" => Finishing(c, 0, s, t)
    /\ pc \in {"verify.report", "verify.probe", "verify.write"} => c.mem.phase = AuthorityTransferred
    /\ pc = "retire" => c.mem.phase = SuccessorVerified

\* Everything clients were told is durable is with whoever serves them.
Preserved(s, t, ak) ==
    /\ ~t.confirmed => Copy(t.doc, s.doc) /\ ak \subseteq Contents(s)
    /\ Enough /\ t.confirmed => /\ ak \subseteq Contents(t)
                                /\ Len(s.doc) <= Len(t.doc)
                                /\ t.saved = Len(t.doc)
    /\ Len(s.doc) <= Cardinality(ak)
    /\ s.base = 0 \/ s.base < Len(s.doc)
    /\ Len(s.doc) - s.base <= MaxLog

\* The controller's part.
Kernel(c, s, t) ==
    Ordered(c.mem) /\ Ordered(c.disk) /\ Recoverable(c.mem, c.disk) /\ Truthful(c.mem, s, t)
Tame(c, s, t) == Kernel(c, s, t) /\ Course(c, c.pc, c.data, s, t)

SafetyInv ==
    /\ Tame(ctl, nodes["source"], nodes["target"])
    /\ Preserved(nodes["source"], nodes["target"], acked)
    /\ late = {}

----------------------------------------------------------------------------
(* What requests do to authority and documents *)

\* m is n as far as authority and the document go.
Same(n, m) ==
    /\ m.life = n.life /\ m.confirmed = n.confirmed /\ m.doc = n.doc /\ m.base = n.base
    /\ m.saved \in {n.saved, Len(n.doc)}

\* Requests that leave authority and documents alone.
Readers == {"status", "prepare_source", "prepare_target", "snapshot", "read_since", "readiness"}

\* They do.
LEMMA ReadersRead ==
    ASSUME NEW n, NodeOK(n), NEW inc, NEW req, req.op \in Readers, NEW t
    PROVE  Same(n, Dispatch(n, inc, req, t).node)
<1> DEFINE m == Dispatch(n, inc, req, t).node
<1> USE DEF Ok, Deny
<1>1. CASE req.op \in {"status", "prepare_source", "read_since", "readiness"}
  <2>1. m = n
    BY <1>1 DEF Dispatch, PreparePredecessor, ReadSince, Readiness
  <2>2. QED
    BY <2>1 DEF Same
<1>2. CASE req.op = "prepare_target"
  <2>1. m = n \/ m = [n EXCEPT !.expected = req.binding]
    BY <1>2 DEF Dispatch, PrepareSuccessor
  <2>2. QED
    BY <2>1 DEF NodeOK, NodeField, Same
<1>3. CASE req.op = "snapshot"
  <2>1. m = n \/ m = [n EXCEPT !.saved = Len(n.doc)]
    BY <1>3 DEF Dispatch, Snapshot, Saved
  <2>2. QED
    BY <2>1 DEF NodeOK, NodeField, Same
<1>4. QED
  BY <1>1, <1>2, <1>3 DEF Readers

\* accept_fence: who obeys has stopped, and a request for somebody else is refused.
LEMMA FenceStops ==
    ASSUME NEW n, NodeOK(n), NEW inc, NEW req, req.op = "fence", NEW t
    PROVE  LET r == Dispatch(n, inc, req, t)
           IN  /\ r.ok <=> req.target = inc
               /\ r.ok => r.node.life = "Fenced"
               /\ ~r.ok => r.node = n
               /\ r.node.doc = n.doc /\ r.node.base = n.base
<1> DEFINE r == Dispatch(n, inc, req, t)
           u == [n EXCEPT !.life = "Fenced", !.confirmed = FALSE, !.lastFence = req.fence]
           v == [u EXCEPT !.saved = Len(u.doc)]
<1> USE DEF Ok, Deny
<1>1. \/ req.target # inc /\ r = Deny(n)
      \/ req.target = inc /\ n.life = "Fenced" /\ r = Ok(n, 0)
      \/ req.target = inc /\ r = Ok(v, 0)
  BY DEF Dispatch, AcceptFence, Saved
<1>2. v.life = "Fenced" /\ v.doc = n.doc /\ v.base = n.base
  BY DEF NodeOK, NodeField
<1> HIDE DEF v
<1>3. QED
  BY <1>1, <1>2

\* grant_authority: everybody but the retired serves afterwards, with all of the document saved.
LEMMA GrantServes ==
    ASSUME NEW n, NodeOK(n), NEW inc, NEW req, req.op = "grant_authority", NEW t
    PROVE  LET r == Dispatch(n, inc, req, t)
           IN  \/ n.life = "Retired" /\ ~r.ok /\ r.node = n
               \/ /\ r.ok /\ n.life # "Retired" /\ r.node.life = "Serving" /\ r.node.confirmed
                  /\ r.node.saved = Len(n.doc) /\ r.node.doc = n.doc /\ r.node.base = n.base
<1> DEFINE r == Dispatch(n, inc, req, t)
           l == [epoch |-> req.claim.epoch, generation |-> req.claim.generation,
                 token |-> req.claim.token, expires |-> t + LeaseTtl]
           u == [n EXCEPT !.lease = l, !.confirmed = TRUE, !.life = "Serving"]
           v == [u EXCEPT !.saved = Len(u.doc)]
<1> USE DEF Ok, Deny
<1>1. \/ n.life = "Retired" /\ r = Deny(n)
      \/ n.life # "Retired" /\ r = Ok(v, 0)
  BY DEF Dispatch, GrantAuthority, Saved
<1> HIDE DEF l
<1>2. /\ v.life = "Serving" /\ v.confirmed = TRUE /\ v.saved = Len(n.doc)
      /\ v.doc = n.doc /\ v.base = n.base
  BY DEF NodeOK, NodeField
<1> HIDE DEF v
<1>3. QED
  BY <1>1, <1>2

\* reattest confirms and does nothing else.
LEMMA ReattestConfirms ==
    ASSUME NEW n, NodeOK(n), NEW inc, NEW req, req.op = "reattest", NEW t
    PROVE  LET m == Dispatch(n, inc, req, t).node
           IN  /\ m.life = n.life /\ m.doc = n.doc /\ m.base = n.base /\ m.saved = n.saved
               /\ m.confirmed \in {n.confirmed, TRUE}
<1> DEFINE m == Dispatch(n, inc, req, t).node
<1> USE DEF Ok, Deny
<1>1. m = n \/ m = [n EXCEPT !.confirmed = TRUE]
  BY DEF Dispatch, Reattest
<1>2. QED
  BY <1>1 DEF NodeOK, NodeField

\* retire always succeeds.
LEMMA RetireStops ==
    ASSUME NEW n, NodeOK(n), NEW inc, NEW req, req.op = "retire", NEW t
    PROVE  LET r == Dispatch(n, inc, req, t)
           IN  r.ok /\ r.node.life = "Retired" /\ r.node.doc = n.doc /\ r.node.base = n.base
<1> DEFINE r == Dispatch(n, inc, req, t)
           u == [n EXCEPT !.life = "Retired", !.retired = TRUE, !.confirmed = FALSE]
           v == [u EXCEPT !.saved = Len(u.doc)]
<1> USE DEF Ok, Deny
<1>1. r = Ok(v, 0)
  BY DEF Dispatch, Retire, Saved
<1>2. v.life = "Retired" /\ v.doc = n.doc /\ v.base = n.base
  BY DEF NodeOK, NodeField
<1> HIDE DEF v
<1>3. QED
  BY <1>1, <1>2

\* A write is accepted by a component that serves, and is in its document afterwards.
LEMMA WriteIsKept ==
    ASSUME NEW n, NodeOK(n), NEW inc \in Incarnation, NEW claim, NEW value \in Nat, NEW t
    PROVE  LET r == Write(n, inc, claim, value, t)
               m == r.node
           IN  /\ ~r.ok => m = n
               /\ r.ok => /\ ~Stopped(n) /\ n.confirmed /\ m.life = n.life /\ m.confirmed = n.confirmed
                          /\ Len(m.doc) = Len(n.doc) + 1 /\ m.saved = Len(m.doc)
                          /\ Contents(m) = Contents(n) \cup {value} /\ Grown(n.doc, m.doc)
                          /\ n.base = 0 \/ n.base < Len(n.doc) => m.base = 0 \/ m.base < Len(m.doc)
                          /\ Len(m.doc) - m.base <= MaxLog
<1> DEFINE x == [value |-> value, origin |-> inc, form |-> n.schema]
           a == Appended(n, x)
           m == Saved(a)
           r == Write(n, inc, claim, value, t)
<1>1. x \in Entry /\ x.value = value
  BY DEF Entry, NodeOK
<1>2. r = Deny(n) \/ (MayMutate(n, t) /\ r = Ok(m, 0))
  BY DEF Write
<1> HIDE DEF x
<1>3. NodeOK(a) /\ a.doc = Append(n.doc, x) /\ a.life = n.life /\ a.confirmed = n.confirmed
  BY <1>1, AppendedIs DEF NodeField
<1>4. /\ n.base = 0 \/ n.base < Len(n.doc) => a.base = 0 \/ a.base < Len(a.doc)
      /\ Len(a.doc) - a.base <= MaxLog
  <2> DEFINE doc == Append(n.doc, x)
             keep == IF MaxLog \div 2 = 0 THEN 1 ELSE MaxLog \div 2
  <2>1. a.base = (IF Len(doc) - n.base > MaxLog THEN Len(doc) - keep ELSE n.base)
    BY DEF Appended, NodeOK, NodeField
  <2>2. keep \in Nat /\ keep >= 1 /\ keep <= MaxLog /\ MaxLog \in Nat /\ Len(doc) = Len(n.doc) + 1 /\ Len(n.doc) \in Nat /\ n.base \in Nat
    BY NodeAssumption DEF NodeOK
  <2> HIDE DEF keep
  <2>3. a.doc = doc
    BY <1>3
  <2> HIDE DEF doc, a
  <2>4. QED
    BY <2>1, <2>2, <2>3
<1> HIDE DEF a
<1>5. /\ m.doc = a.doc /\ m.base = a.base /\ m.life = n.life /\ m.confirmed = n.confirmed
      /\ m.saved = Len(a.doc)
  BY <1>3 DEF Saved, NodeOK, NodeField
<1> HIDE DEF m
<1>6. /\ Len(m.doc) = Len(n.doc) + 1 /\ Contents(m) = Contents(n) \cup {value} /\ Grown(n.doc, m.doc)
  <2>1. n.doc \in Seq(Entry) /\ m.doc = Append(n.doc, x)
    BY <1>3, <1>5 DEF NodeOK
  <2>2. Len(m.doc) = Len(n.doc) + 1 /\ Len(n.doc) \in Nat /\ DOMAIN m.doc = 1..(Len(n.doc) + 1)
        /\ DOMAIN n.doc = 1..Len(n.doc)
        /\ m.doc[Len(n.doc) + 1] = x /\ \A i \in 1..Len(n.doc) : m.doc[i] = n.doc[i]
    BY <1>1, <2>1
  <2>3. \A i \in 1..(Len(n.doc) + 1) : i \in 1..Len(n.doc) \/ i = Len(n.doc) + 1
    BY <2>2
  <2>4. 1..Len(n.doc) \subseteq 1..(Len(n.doc) + 1) /\ Len(n.doc) + 1 \in 1..(Len(n.doc) + 1)
    BY <2>2
  <2>5. QED
    BY <1>1, <2>2, <2>3, <2>4 DEF Contents, Grown
<1>7. MayMutate(n, t) => ~Stopped(n) /\ n.confirmed
  BY DEF MayMutate, HasAuthority, Stopped, NodeOK
<1>8. QED
  BY <1>2, <1>4, <1>5, <1>6, <1>7 DEF Ok, Deny

\* The requests that fill the target's document leave authority alone and a copy a copy.
LEMMA FillersCopy ==
    ASSUME NEW n, NodeOK(n), NEW inc \in Incarnation, NEW req, req.op \in TargetOnly, NEW s, Proper(req, s), NEW t
    PROVE  LET m == Dispatch(n, inc, req, t).node
           IN  /\ m.life = n.life /\ m.confirmed = n.confirmed
               /\ Copy(n.doc, s) => Copy(m.doc, s)
<1> DEFINE m == Dispatch(n, inc, req, t).node
<1> USE DEF Ok, Deny
<1>1. NodeOK(m)
  BY Handled DEF Effect
<1>2. CASE req.op = "install_snapshot"
  <2> DEFINE d == req.snapshot.doc
             u == [n EXCEPT !.doc = d, !.base = Len(d), !.schema = SourceSchema]
             v == [u EXCEPT !.saved = Len(u.doc)]
  <2>1. Copy(d, s)
    BY <1>2 DEF Proper
  <2>2. m = n \/ m = v
    BY <1>2 DEF Dispatch, InstallSnapshot, Saved
  <2> HIDE DEF d
  <2>3. v.life = n.life /\ v.confirmed = n.confirmed /\ v.doc = d
    BY DEF NodeOK, NodeField
  <2> HIDE DEF v
  <2>4. QED
    BY <2>1, <2>2, <2>3
<1>3. CASE req.op = "migrate"
  <2> DEFINE d == [i \in DOMAIN n.doc |-> [n.doc[i] EXCEPT !.form = TargetSchema]]
             u == [n EXCEPT !.schema = TargetSchema, !.doc = d]
             v == [u EXCEPT !.saved = Len(u.doc)]
  <2>1. m = n \/ m = v
    BY <1>3 DEF Dispatch, Migrate, Saved
  <2>2. \A i \in DOMAIN d : i \in DOMAIN n.doc /\ d[i].value = n.doc[i].value
    <3>1. \A i \in DOMAIN n.doc : n.doc[i] \in Entry
      BY DEF NodeOK
    <3>2. \A x \in Entry : [x EXCEPT !.form = TargetSchema].value = x.value
      BY DEF Entry
    <3>3. QED
      BY <3>1, <3>2
  <2> HIDE DEF d
  <2>3. v.life = n.life /\ v.confirmed = n.confirmed /\ v.doc = d
    BY DEF NodeOK, NodeField
  <2> HIDE DEF v, m
  <2>4. m.doc \in Seq(Entry)
    BY <1>1 DEF NodeOK
  <2>5. QED
    BY <2>1, <2>2, <2>3, <2>4 DEF Copy, m
<1>4. CASE req.op = "apply_records"
  <2> DEFINE b == req.batch
             k == CHOOSE i \in Fitting(n, b) : \A j \in Fitting(n, b) : j <= i
             p == AppliedPrefix(n, b, k)
  <2>1. Segment(b, s) /\ b.entries \in Seq(Entry)
    BY <1>4 DEF Proper, Segment
  <2>2. k \in 0..Len(b.entries)
    BY <2>1, MostFits DEF Fitting
  <2>3. m \in {n, p, Saved(p)}
    BY <1>4 DEF Dispatch, ApplyRecords
  <2>4. Blend(m.doc, n.doc, s)
    BY <1>4, <2>1, ApplyBlends DEF Dispatch
  <2> HIDE DEF k, b
  <2>5. NodeOK(p) /\ \A f \in NodeField \ {"doc", "base"} : p[f] = n[f]
    BY <2>1, <2>2, PrefixIs
  <2> HIDE DEF p
  <2>6. Saved(p).life = n.life /\ Saved(p).confirmed = n.confirmed /\ p.life = n.life /\ p.confirmed = n.confirmed
    BY <2>5 DEF Saved, NodeOK, NodeField
  <2> HIDE DEF m
  <2>7. m.doc \in Seq(Entry)
    BY <1>1 DEF NodeOK
  <2>8. QED
    BY <2>3, <2>4, <2>6, <2>7 DEF Copy, Blend, m
<1>5. QED
  BY <1>2, <1>3, <1>4 DEF TargetOnly

\* A batch that is accepted continues the document, and all of it is.
LEMMA AcceptedInFull ==
    ASSUME NEW n, NodeOK(n), NEW binding, NEW b, b.entries \in Seq(Entry), Len(b.entries) # 0
    PROVE  LET r == ApplyRecords(n, binding, b)
           IN  \/ r = Deny(r.node)
               \/ b.first = Len(n.doc) + 1 /\ Len(r.node.doc) = Len(n.doc) + Len(b.entries)
<1> DEFINE r == ApplyRecords(n, binding, b)
           k == CHOOSE i \in Fitting(n, b) : \A j \in Fitting(n, b) : j <= i
           p == AppliedPrefix(n, b, k)
<1>1. r = Deny(r.node) \/ (k = Len(b.entries) /\ r.node = Saved(p))
  BY DEF ApplyRecords, Ok, Deny
<1>2. k \in Fitting(n, b)
  BY MostFits
<1> HIDE DEF k, r
<1>3. k \in 0..Len(b.entries) /\ (k = 0 \/ b.first = Len(n.doc) + 1)
  BY <1>2 DEF Fitting, Lsn
<1>4. NodeOK(p) /\ Len(p.doc) = Len(n.doc) + k
  BY <1>3, PrefixIs
<1> HIDE DEF p
<1>5. Saved(p).doc = p.doc
  BY <1>4, SavedIs
<1>6. QED
  BY <1>1, <1>3, <1>4, <1>5 DEF r

\* read_since from inside the log finds something, and all there is unless the answer is full.
LEMMA ReadsOn ==
    ASSUME NEW n, NodeOK(n), n.base = 0 \/ n.base < Len(n.doc), NEW inc, NEW req, req.op = "read_since",
           req.from \in Nat, req.from < Len(n.doc), NEW t
    PROVE  LET b == Dispatch(n, inc, req, t).body
           IN  /\ b.entries # <<>> /\ n.base < b.first
               /\ Len(b.entries) >= MaxBatch \/ b.first + Len(b.entries) > Len(n.doc)
<1> DEFINE first == IF req.from > n.base THEN req.from ELSE n.base
           last == IF first + MaxBatch < Len(n.doc) THEN first + MaxBatch ELSE Len(n.doc)
           e == SubSeq(n.doc, first + 1, last)
           b == Dispatch(n, inc, req, t).body
<1>1. b.first = first + 1 /\ b.entries = e
  BY DEF Dispatch, ReadSince, Lsn, Ok
<1>2. n.doc \in Seq(Entry) /\ Len(n.doc) \in Nat /\ n.base \in Nat /\ MaxBatch \in Nat /\ MaxBatch >= 1
  BY NodeAssumption DEF NodeOK
<1>3. first \in Nat /\ first < Len(n.doc) /\ n.base <= first
  BY <1>2
<1> HIDE DEF first
<1>4. last \in Nat /\ first < last /\ last <= Len(n.doc) /\ (last = first + MaxBatch \/ last = Len(n.doc))
  BY <1>2, <1>3
<1> HIDE DEF last
<1>5. Len(e) = last - first
  BY <1>2, <1>3, <1>4
<1>6. e # <<>>
  BY <1>3, <1>4, <1>5
<1> HIDE DEF e, b
<1>7. QED
  BY <1>1, <1>2, <1>3, <1>4, <1>5, <1>6 DEF b

----------------------------------------------------------------------------
(* Fences and holders in the registry's record *)

\* What is marked expired is leases.
LEMMA ExpireKeepsFences ==
    ASSUME NEW a, Sound(a), NEW t
    PROVE  /\ ExpireInPlace(a, t).fences = a.fences /\ ExpireInPlace(a, t).nextFence = a.nextFence
           /\ DOMAIN ExpireInPlace(a, t).leases = DOMAIN a.leases
           /\ \A i \in DOMAIN a.leases : ExpireInPlace(a, t).leases[i].holder = a.leases[i].holder
<1>1. AuthorityOK(a) /\ \A i \in DOMAIN a.leases : a.leases[i] \in Lease
  BY DEF Sound, AuthorityOK
<1>2. \A l \in Lease : \A x : [l EXCEPT !.state = x].holder = l.holder
  BY DEF Lease
<1>3. QED
  BY <1>1, <1>2 DEF ExpireInPlace, AuthorityOK

\* A grant leaves the fences alone, and the lease it returns is the holder's.
LEMMA GrantIsToHolder ==
    ASSUME NEW a, Sound(a), NEW h \in Incarnation, NEW t \in Nat, NEW token \in Nat
    PROVE  LET r == GrantResult(a, h, "Mutating", LeaseTtl, t, token)
           IN  r.auth.fences = a.fences /\ (r.code = "Ok" => r.auth.leases[r.lease].holder = h)
<1> DEFINE e == ExpireInPlace(a, t)
           slot == SlotLeases(e, t)
           id == Oldest(slot)
           g == [e EXCEPT !.generation = e.generation + 1]
           r == GrantResult(a, h, "Mutating", LeaseTtl, t, token)
           l == [holder |-> h, epoch |-> g.epoch, generation |-> g.generation,
                 token |-> token, mode |-> "Mutating", state |-> "Active",
                 expires |-> t + LeaseTtl, attested |-> TRUE]
           p == Pushed(g.leases, g.nextLease, l, MaxLeaseHistory)
           n == [e.leases[id] EXCEPT !.expires = t + LeaseTtl, !.attested = TRUE]
<1>1. Sound(e) /\ e.fences = a.fences
  BY ExpireKeepsSound, ExpireKeepsFences
<1>2. \/ r \in {Refused(a, "InvalidArgument"), Refused(a, "BoundsExceeded"), Refused(e, "AuthorityConflict"),
               Refused(e, "BoundsExceeded"), Refused(g, "BoundsExceeded")}
      \/ slot # {} /\ e.leases[id].holder = h /\ r = Done(SetLease(e, id, n), id)
      \/ r = Done([g EXCEPT !.nextLease = g.nextLease + 1, !.leases = p], g.nextLease)
  BY DEF GrantResult, GrantMutating, Renewed, Issued
<1>3. slot \in SUBSET Nat /\ slot \subseteq DOMAIN e.leases
  BY <1>1 DEF Sound, AuthorityOK, SlotLeases
<1>4. slot # {} => id \in DOMAIN e.leases
  BY <1>3, OldestIsMember
<1>5. LeaseTtl \in Nat /\ t + LeaseTtl \in Nat
  BY NodeAssumption
<1> HIDE DEF e, slot, id
<1>6. /\ g.fences = a.fences /\ g.leases = e.leases /\ g.nextLease = e.nextLease /\ g.epoch = e.epoch
      /\ DOMAIN g = DOMAIN e /\ DOMAIN g = {"epoch", "generation", "nextLease", "leases", "nextFence", "fences"}
  BY <1>1 DEF Sound, AuthorityOK
<1>7. CASE slot # {} /\ e.leases[id].holder = h /\ r = Done(SetLease(e, id, n), id)
  <2>1. e.leases[id] \in Lease /\ AuthorityOK(e) /\ id \in DOMAIN e.leases
    BY <1>1, <1>4, <1>7 DEF Sound, AuthorityOK
  <2>2. n \in Lease /\ n.holder = h
    BY <1>5, <1>7, <2>1 DEF Lease
  <2> HIDE DEF n
  <2>3. SetLease(e, id, n).leases[id] = n /\ SetLease(e, id, n).fences = e.fences
    BY <2>1, <2>2, SetLeaseFacts
  <2> HIDE DEF r
  <2>4. QED
    BY <1>1, <1>7, <2>2, <2>3 DEF Done, r
<1>8. CASE r = Done([g EXCEPT !.nextLease = g.nextLease + 1, !.leases = p], g.nextLease)
  <2> DEFINE q == [g EXCEPT !.nextLease = g.nextLease + 1, !.leases = p]
  <2>1. g.nextLease \in DOMAIN p /\ p[g.nextLease] = l
    <3> DEFINE any == {x : x \in {l} \cup Lease}
    <3>1. HistoryOK(g.leases, g.nextLease, any) /\ g.nextLease \in Nat \ {0}
      BY <1>1, <1>6 DEF Sound, AuthorityOK, HistoryOK
    <3>2. l \in any /\ MaxLeaseHistory \in Nat \ {0}
      BY BoundsAssumption
    <3> HIDE DEF any, l, g
    <3>3. QED
      BY <3>1, <3>2, PushedKeepsNewest
  <2>2. l.holder = h
    OBVIOUS
  <2> HIDE DEF p, l, g
  <2>3. q.leases = p /\ q.fences = g.fences
    BY <1>6
  <2> HIDE DEF q, r
  <2>4. r = Done(q, g.nextLease)
    BY <1>8 DEF q
  <2>5. QED
    BY <1>6, <2>1, <2>2, <2>3, <2>4 DEF Done, r
<1>9. CASE r \in {Refused(a, "InvalidArgument"), Refused(a, "BoundsExceeded"), Refused(e, "AuthorityConflict"),
                 Refused(e, "BoundsExceeded"), Refused(g, "BoundsExceeded")}
  <2> HIDE DEF g, r
  <2>1. r.auth.fences = a.fences /\ r.code # "Ok"
    BY <1>1, <1>6, <1>9 DEF Refused
  <2>2. QED
    BY <2>1 DEF r
<1>10. QED
  BY <1>2, <1>7, <1>8, <1>9

\* revoke, reattest and loading leave the fences alone.
LEMMA RevokeKeepsFences ==
    ASSUME NEW a, Sound(a), NEW id
    PROVE  RevokeResult(a, id).auth.fences = a.fences
BY DEF RevokeResult, SetLease, Done, Refused, Sound, AuthorityOK

\* reattest.
LEMMA ReattestKeepsFences ==
    ASSUME NEW a, Sound(a), NEW h, NEW token, NEW t \in Nat
    PROVE  ReattestResult(a, h, token, t).auth.fences = a.fences
<1> DEFINE e == ExpireInPlace(a, t)
           r == ReattestResult(a, h, token, t)
<1>1. Sound(e) /\ e.fences = a.fences
  BY ExpireKeepsSound, ExpireKeepsFences
<1>2. \/ r = Refused(e, "StaleAuthority")
      \/ \E id, l : r = Done(SetLease(e, id, l), id)
  BY DEF ReattestResult
<1> HIDE DEF e, r
<1>3. \A id, l : SetLease(e, id, l).fences = e.fences
  BY <1>1 DEF SetLease, Sound, AuthorityOK
<1>4. QED
  BY <1>1, <1>2, <1>3 DEF Refused, Done, r

\* Loading the saved record.
LEMMA RestoredKeepsFences ==
    ASSUME NEW a, Sound(a)
    PROVE  Restored(a).fences = a.fences
BY DEF Restored, Sound, AuthorityOK

\* request_fence opens one fence, of an incarnation that had none, or none at all.
LEMMA RequestOpensOne ==
    ASSUME NEW a, Sound(a), NEW h \in Incarnation, NEW t \in Nat
    PROVE  LET r == RequestFenceResult(a, h, t)
           IN  /\ r.code # "Ok" => r.auth.fences = a.fences
               /\ r.code = "Ok" => OutstandingFences(r.auth, h) = {a.nextFence}
<1> DEFINE e == ExpireInPlace(a, t)
           r == RequestFenceResult(a, h, t)
           id == Oldest(ActiveOf(e, h, "Mutating", t))
           f == [target |-> h, generation |-> e.generation + 1, lease |-> id, acknowledged |-> FALSE]
           p == Pushed(e.fences, e.nextFence, f, MaxFenceHistory)
           b == Fencing(e, h, id)
<1>1. Sound(e) /\ e.fences = a.fences /\ e.nextFence = a.nextFence
  BY ExpireKeepsSound, ExpireKeepsFences
<1>2. \/ r \in {Refused(e, "DuplicateFrame"), Refused(e, "NotFound"), Refused(e, "BoundsExceeded")}
      \/ OutstandingFences(e, h) = {} /\ r = Done(b, id)
  BY DEF RequestFenceResult
<1> HIDE DEF e, id, r
<1>3. b.fences = p
  BY <1>1 DEF Fencing, SetLease, Sound, AuthorityOK
<1>4. e.nextFence \in DOMAIN p /\ p[e.nextFence] = f
  <2> DEFINE any == {x : x \in {f} \cup Fence}
  <2>1. HistoryOK(e.fences, e.nextFence, any) /\ e.nextFence \in Nat \ {0}
    BY <1>1 DEF Sound, AuthorityOK, HistoryOK
  <2>2. f \in any /\ MaxFenceHistory \in Nat \ {0}
    BY BoundsAssumption
  <2> HIDE DEF any, f
  <2>3. QED
    BY <2>1, <2>2, PushedKeepsNewest
<1>5. \A g \in DOMAIN p : g # e.nextFence => g \in DOMAIN e.fences /\ p[g] = e.fences[g]
  BY PushedKeepsOlder
<1>6. f.target = h /\ ~f.acknowledged
  OBVIOUS
<1> HIDE DEF p, f, b
<1>7. OutstandingFences(e, h) = {} => OutstandingFences(b, h) = {e.nextFence}
  BY <1>3, <1>4, <1>5, <1>6 DEF OutstandingFences
<1>8. QED
  BY <1>1, <1>2, <1>7 DEF Refused, Done, r

\* acknowledge_fence closes the fence it is asked for.
LEMMA AcknowledgeCloses ==
    ASSUME NEW a, Sound(a), NEW h, NEW f \in OutstandingFences(a, h), \A g \in OutstandingFences(a, h) : g = f
    PROVE  OutstandingFences(AcknowledgeFenceResult(a, h, f).auth, h) = {}
<1> DEFINE b == Acknowledged(a, f)
<1>1. f \in DOMAIN a.fences /\ a.fences[f].target = h /\ ~a.fences[f].acknowledged /\ a.fences[f] \in Fence
  BY DEF OutstandingFences, Sound, AuthorityOK
<1>2. AcknowledgeFenceResult(a, h, f).auth = b
  BY <1>1 DEF AcknowledgeFenceResult, Done
<1>3. /\ DOMAIN b.fences = DOMAIN a.fences /\ b.fences[f].acknowledged = TRUE
      /\ \A g \in DOMAIN a.fences : g # f => b.fences[g] = a.fences[g]
  BY <1>1 DEF Acknowledged, Sound, AuthorityOK, Fence
<1> HIDE DEF b
<1>4. QED
  BY <1>2, <1>3 DEF OutstandingFences

\* The outstanding fence of an incarnation is acknowledged: none is left.
LEMMA OutstandingCloses ==
    ASSUME NEW a, Sound(a), NEW h, \A f, g \in OutstandingFences(a, h) : f = g
    PROVE  OutstandingFences(OutstandingAcknowledged(a, h), h) = {}
<1>1. CASE OutstandingFences(a, h) = {}
  BY <1>1 DEF OutstandingAcknowledged
<1>2. CASE OutstandingFences(a, h) # {}
  <2>1. OutstandingFences(a, h) \in SUBSET Nat
    BY DEF OutstandingFences, Sound, AuthorityOK
  <2>2. Oldest(OutstandingFences(a, h)) \in OutstandingFences(a, h)
    BY <1>2, <2>1, OldestIsMember
  <2>3. QED
    BY <1>2, <2>2, AcknowledgeCloses DEF OutstandingAcknowledged
<1>3. QED
  BY <1>1, <1>2

----------------------------------------------------------------------------
(* The controller between two calls, of a handoff whose components stay up *)

\* The two memories agree on what Kernel looks at.
Equal(m, k) ==
    m.phase = k.phase /\ m.pred = k.pred /\ m.succ = k.succ /\ m.camp = k.camp /\ m.auth.fences = k.auth.fences

\* d is c but for what Kernel does not look at, saved or not.
Beside(c, d) ==
    /\ Base(d)
    /\ Equal(d.mem, c.mem)
    /\ Equal(d.disk, c.disk) \/ Equal(d.disk, c.mem)
    /\ d.op = c.op /\ d.src = c.src /\ d.tgt = c.tgt /\ d.rounds = c.rounds

\* Such steps can be put together.
LEMMA BesideIsTransitive ==
    ASSUME NEW c, NEW d, NEW e, Beside(c, d), Beside(d, e)
    PROVE  Beside(c, e)
BY DEF Beside, Equal

\* What Kernel says of a memory it says of one that agrees with it.
LEMMA EqualIsKept ==
    ASSUME NEW m, NEW k, Equal(k, m)
    PROVE  /\ Open(k) = Open(m)
           /\ Ordered(m) => Ordered(k)
           /\ \A s, t : Truthful(m, s, t) => Truthful(k, s, t)
           /\ \A h : Served(m, h) => Served(k, h)
<1>1. Open(k) = Open(m)
  BY DEF Equal, Open, OutstandingFences
<1>2. QED
  BY <1>1 DEF Equal, Ordered, Truthful, Served

\* And of the controller.
LEMMA BesideKeepsKernel ==
    ASSUME NEW c, NEW d, Beside(c, d), NEW s, NEW t, Kernel(c, s, t)
    PROVE  Kernel(d, s, t)
<1>1. Ordered(d.mem) /\ Truthful(d.mem, s, t) /\ Ordered(d.disk)
  BY EqualIsKept DEF Beside, Kernel
<1>2. Recoverable(d.mem, d.disk)
  BY DEF Beside, Equal, Kernel, Recoverable
<1>3. QED
  BY <1>1, <1>2 DEF Kernel

\* Other memory that agrees.
LEMMA MemoryBeside ==
    ASSUME NEW c, Base(c), NEW m, MemOK(m), Equal(m, c.mem), NEW d, d = [c EXCEPT !.mem = m]
    PROVE  Beside(c, d) /\ d.mem = m /\ d.disk = c.disk
BY DEF Beside, Base, CtlField, Equal

\* save_state, other leases under the same fences, the handoff's position.
LEMMA SaveBeside ==
    ASSUME NEW c, Base(c)
    PROVE  Beside(c, Save(c)) /\ Save(c).mem = c.mem /\ Save(c).disk = c.mem
<1>1. Base(Save(c))
  BY SaveGoesOn DEF Onward
<1>2. QED
  BY <1>1 DEF Beside, Base, CtlField, Equal, Save

\* Other leases.
LEMMA LeasesBeside ==
    ASSUME NEW c, Base(c), NEW a, Sound(a), a.fences = c.mem.auth.fences
    PROVE  Beside(c, SetAuth(c, a)) /\ SetAuth(c, a).mem.auth = a
<1> DEFINE m == [c.mem EXCEPT !.auth = a]
<1>1. SetAuth(c, a) = [c EXCEPT !.mem = m]
  BY DEF SetAuth
<1>2. MemOK(m) /\ Equal(m, c.mem) /\ m.auth = a
  BY DEF Base, MemOK, MemField, Equal
<1> HIDE DEF m
<1>3. QED
  BY <1>1, <1>2, MemoryBeside

\* Another position.
LEMMA LsnBeside ==
    ASSUME NEW c, Base(c), NEW lsn \in Nat
    PROVE  Beside(c, [c EXCEPT !.mem.lsn = lsn])
<1> DEFINE m == [c.mem EXCEPT !.lsn = lsn]
<1>1. [c EXCEPT !.mem.lsn = lsn] = [c EXCEPT !.mem = m]
  OBVIOUS
<1>2. MemOK(m) /\ Equal(m, c.mem)
  BY DEF Base, MemOK, MemField, Equal
<1> HIDE DEF m
<1>3. QED
  BY <1>1, <1>2, MemoryBeside

\* The end of an operation.
LEMMA IdleIsTame ==
    ASSUME NEW c, Base(c), NEW s, NEW t, Kernel(c, s, t)
    PROVE  /\ Tame(Idle(c), s, t)
           /\ Idle(c).pc = "idle" /\ Idle(c).rounds = 0 /\ Idle(c).mem = c.mem /\ Idle(c).disk = c.disk
<1> DEFINE d == Idle(c)
<1>1. d.pc = "idle" /\ d.rounds = 0 /\ d.mem = c.mem /\ d.disk = c.disk
  BY DEF Base, CtlField, Idle
<1> HIDE DEF d
<1>2. Kernel(d, s, t)
  BY <1>1 DEF Kernel
<1>3. Course(d, "idle", d.data, s, t)
  BY <1>1 DEF Course
<1>4. QED
  BY <1>1, <1>2, <1>3 DEF Tame, d

\* The call at pc may be made where its Course says so.
LEMMA GotoIsTame ==
    ASSUME NEW c, Base(c), NEW pc, NEW data, NEW s, NEW t, Kernel(c, s, t), Course(c, pc, data, s, t)
    PROVE  Tame(Goto(c, pc, data), s, t)
<1> DEFINE d == Goto(c, pc, data)
<1>1. /\ d.pc = pc /\ d.data = data /\ d.op = c.op /\ d.mem = c.mem /\ d.disk = c.disk
      /\ d.src = c.src /\ d.tgt = c.tgt /\ d.rounds = c.rounds
  BY DEF Goto, Base, CtlField
<1> HIDE DEF d
<1>2. Kernel(d, s, t)
  BY <1>1 DEF Kernel
<1>3. Course(d, pc, data, s, t)
  <2>1. Purposeful(d) <=> Purposeful(c)
    BY <1>1 DEF Purposeful
  <2>2. (SourceKnown(d, s) <=> SourceKnown(c, s)) /\ (TargetKnown(d, t) <=> TargetKnown(c, t))
    BY <1>1 DEF SourceKnown, TargetKnown
  <2>3. \A left : Finishing(d, left, s, t) <=> Finishing(c, left, s, t)
    BY <1>1 DEF Finishing
  <2>4. QED
    BY <1>1, <2>1, <2>2, <2>3 DEF Course
<1>4. QED
  BY <1>1, <1>2, <1>3 DEF Tame, d

\* The calls before the fence.
Early == {"prepare.pred", "prepare.succ", "snapshot.prepare", "snapshot.take", "snapshot.install",
          "catchup.read", "catchup.apply", "catchup.src", "catchup.tgt", "catchup.migrate", "readiness"}

\* They may be made while the predecessor has not been fenced.
LEMMA EarlyIsTame ==
    ASSUME NEW c, Base(c), NEW pc \in Early, NEW data, NEW s, NEW t, Kernel(c, s, t), c.mem.phase < PredecessorFenced
    PROVE  Tame(Goto(c, pc, data), s, t)
<1>1. Course(c, pc, data, s, t)
  BY DEF Course, Early
<1>2. QED
  BY <1>1, GotoIsTame

\* bind_nodes, on behalf of an operation its phase allows.
LEMMA BindIsTame ==
    ASSUME NEW c, Base(c), NEW op, NEW s, NEW t, Kernel(c, s, t), c.rounds = 0,
           op = "begin" => c.mem.camp = "Running" /\ c.mem.phase = NoHandoff,
           op = "preflight" => c.mem.phase \in {NoHandoff, PredecessorRetired},
           op = "prepare" => c.mem.phase = NotStarted,
           op = "reconcile" => "Reconcile" \in Operations
    PROVE  Tame(Bind(c, op), s, t)
<1> DEFINE d == Bind(c, op)
<1>1. d.pc = "report.src" /\ d.op = op /\ d.mem = c.mem /\ d.disk = c.disk /\ d.rounds = 0
  BY DEF Bind, Goto, Base, CtlField
<1> HIDE DEF d
<1>2. Kernel(d, s, t)
  BY <1>1 DEF Kernel
<1>3. Purposeful(d)
  BY <1>1 DEF Purposeful
<1>4. Course(d, d.pc, d.data, s, t)
  BY <1>1, <1>3 DEF Course
<1>5. QED
  BY <1>2, <1>4 DEF Tame, d

\* What record_phase makes of the controller.
LEMMA RecordPhaseIs ==
    ASSUME NEW c, Base(c), NEW to \in Prepared..PredecessorRetired
    PROVE  LET d == RecordPhase(c, to)
           IN  /\ Base(d) /\ d.pc = c.pc /\ d.op = c.op /\ d.src = c.src /\ d.tgt = c.tgt /\ d.rounds = c.rounds
               /\ \/ d = c /\ (c.mem.phase = to \/ ~ValidTransition(c.mem.phase, to))
                  \/ /\ c.mem.phase + 1 = to /\ c.mem.phase \in NotStarted..SuccessorVerified
                     /\ d.mem.phase = to /\ d.disk = d.mem
                     /\ d.mem.pred = c.mem.pred /\ d.mem.succ = c.mem.succ /\ d.mem.camp = c.mem.camp
                     /\ d.mem.auth = c.mem.auth
<1> DEFINE d == RecordPhase(c, to)
           m == [c.mem EXCEPT !.phase = to]
           e == [c EXCEPT !.mem = m]
<1>1. Base(d)
  BY RecordPhaseGoesOn DEF Onward
<1>2. \/ d = c /\ (c.mem.phase = to \/ ~ValidTransition(c.mem.phase, to))
      \/ c.mem.phase # to /\ ValidTransition(c.mem.phase, to) /\ d = Save(e)
  BY DEF RecordPhase
<1>3. CASE c.mem.phase # to /\ ValidTransition(c.mem.phase, to) /\ d = Save(e)
  <2>1. c.mem.phase + 1 = to /\ c.mem.phase \in NotStarted..SuccessorVerified
    BY <1>3 DEF ValidTransition, Prepared, PredecessorRetired, NotStarted, SuccessorVerified, Failed, Aborted,
                Base, MemOK, HandoffPhase, NoHandoff
  <2>2. /\ m.phase = to /\ m.pred = c.mem.pred /\ m.succ = c.mem.succ /\ m.camp = c.mem.camp /\ m.auth = c.mem.auth
    BY DEF Base, MemOK, MemField
  <2> HIDE DEF m
  <2>3. Save(e).mem = m /\ Save(e).disk = m
        /\ Save(e).pc = c.pc /\ Save(e).op = c.op /\ Save(e).src = c.src /\ Save(e).tgt = c.tgt /\ Save(e).rounds = c.rounds
    BY DEF Save, Base, CtlField
  <2> HIDE DEF e
  <2>4. QED
    BY <1>1, <1>3, <2>1, <2>2, <2>3
<1>4. QED
  BY <1>1, <1>2, <1>3

\* A memory that is saved is recoverable.
LEMMA SavedIsKernel ==
    ASSUME NEW c, c.disk = c.mem, NEW s, NEW t, Ordered(c.mem), Truthful(c.mem, s, t)
    PROVE  Kernel(c, s, t)
BY DEF Kernel, Recoverable

\* record_phase, of what has happened.
LEMMA RecordPhaseIsTame ==
    ASSUME NEW c, Base(c), NEW to \in Prepared..PredecessorRetired, NEW s, NEW t, Kernel(c, s, t),
           to = PredecessorFenced => Stopped(s) /\ (Settling => Open(c.mem) = {}),
           to = AuthorityTransferred => t.confirmed,
           to = PredecessorRetired => s.life = "Retired"
    PROVE  LET d == RecordPhase(c, to)
           IN  /\ Kernel(d, s, t) /\ Tame(Idle(d), s, t)
               /\ d.mem.auth = c.mem.auth /\ d.mem.camp = c.mem.camp /\ d.mem.pred = c.mem.pred
               /\ d.mem.phase \in {c.mem.phase, to}
<1> DEFINE d == RecordPhase(c, to)
<1>1. Base(d)
  BY RecordPhaseIs
<1>2. CASE d = c
  BY <1>1, <1>2, IdleIsTame
<1>3. CASE /\ c.mem.phase + 1 = to /\ c.mem.phase \in NotStarted..SuccessorVerified
           /\ d.mem.phase = to /\ d.disk = d.mem
           /\ d.mem.pred = c.mem.pred /\ d.mem.succ = c.mem.succ /\ d.mem.camp = c.mem.camp
           /\ d.mem.auth = c.mem.auth
  <2> HIDE DEF d
  <2> USE DEF NotStarted, Prepared, SnapshotSynchronized, CaughtUp, ReadinessVerified, PredecessorFenced,
              AuthorityTransferred, SuccessorVerified, PredecessorRetired, NoHandoff
  <2>1. Ordered(d.mem)
    BY <1>3 DEF Kernel, Ordered
  <2>2. Open(d.mem) = Open(c.mem)
    BY <1>3 DEF Open
  <2>3. Truthful(d.mem, s, t)
    BY <1>3, <2>2 DEF Kernel, Truthful
  <2>4. Kernel(d, s, t)
    BY <1>3, <2>1, <2>3, SavedIsKernel
  <2>5. QED
    BY <1>1, <1>3, <2>4, IdleIsTame DEF d
<1>4. QED
  BY <1>2, <1>3, RecordPhaseIs

\* The predecessor r has obeyed its fence and is now s; the fence is closed when that is recorded.
LEMMA FencedIsTame ==
    ASSUME NEW c, Base(c), NEW r, NEW s, NEW t, Kernel(c, r, t), c.mem.phase = ReadinessVerified, Stopped(s),
           NEW a, Sound(a), OutstandingFences(a, SourceInc) = {}
    PROVE  Tame(Idle(RecordPhase(SetAuth(c, a), PredecessorFenced)), s, t)
<1> DEFINE b == SetAuth(c, a)
           m == [c.mem EXCEPT !.auth = a]
           d == RecordPhase(b, PredecessorFenced)
<1>1. Base(b)
  BY SetAuthGoesOn DEF Onward
<1>2. b = [c EXCEPT !.mem = m]
  BY DEF SetAuth
<1>3. m.auth = a /\ m.phase = c.mem.phase /\ m.pred = c.mem.pred /\ m.succ = c.mem.succ /\ m.camp = c.mem.camp
  BY DEF Base, MemOK, MemField
<1> HIDE DEF m
<1>4. b.mem = m
  BY <1>2 DEF Base, CtlField
<1> HIDE DEF b
<1> USE DEF NotStarted, Prepared, ReadinessVerified, PredecessorFenced, AuthorityTransferred,
            SuccessorVerified, PredecessorRetired, NoHandoff, Failed, Aborted
<1>5. /\ Base(d) /\ d.mem.phase = PredecessorFenced /\ d.disk = d.mem
      /\ d.mem.pred = c.mem.pred /\ d.mem.succ = c.mem.succ /\ d.mem.camp = c.mem.camp /\ d.mem.auth = a
  <2>1. PredecessorFenced \in Prepared..PredecessorRetired
    OBVIOUS
  <2>2. b.mem.phase # PredecessorFenced /\ ValidTransition(b.mem.phase, PredecessorFenced)
    BY <1>3, <1>4 DEF ValidTransition, IsForwardPhase
  <2>3. QED
    BY <1>1, <1>3, <1>4, <2>1, <2>2, RecordPhaseIs
<1> HIDE DEF d
<1>6. Open(d.mem) = {}
  BY <1>5 DEF Open
<1>7. Ordered(d.mem) /\ Truthful(d.mem, s, t)
  BY <1>5, <1>6 DEF Kernel, Ordered, Truthful
<1>8. Kernel(d, s, t)
  BY <1>5, <1>7, SavedIsKernel
<1>9. QED
  BY <1>5, <1>8, IdleIsTame DEF b, d

\* apply_action: a campaign completes when its predecessor has retired.
LEMMA ApplyActionIsTame ==
    ASSUME NEW c, Base(c), NEW action \in {"Preflight", "Start", "Pause", "Resume", "Complete"}, NEW s, NEW t,
           Kernel(c, s, t), action = "Complete" => c.mem.phase = PredecessorRetired
    PROVE  LET d == ApplyAction(c, action)
           IN  /\ Base(d) /\ Kernel(d, s, t) /\ d.pc = c.pc /\ d.data = c.data /\ d.rounds = c.rounds
               /\ d.mem.phase = c.mem.phase
               /\ action = "Start" /\ Accepts(c, action) => d.mem.camp = "Running"
<1> DEFINE camp == Decided(c, action)
           m == [c.mem EXCEPT !.camp = camp]
           e == [c EXCEPT !.mem = m]
           d == ApplyAction(c, action)
<1>1. Base(d) /\ d.pc = c.pc /\ d.data = c.data
  BY ApplyActionGoesOn DEF Onward
<1>2. \/ Accepts(c, action) /\ d = Save(e)
      \/ ~Accepts(c, action) /\ d \in {c, Save(c)}
  BY DEF ApplyAction
<1>3. CASE ~Accepts(c, action) /\ d \in {c, Save(c)}
  <2>1. Beside(c, c) /\ Beside(c, Save(c)) /\ Save(c).mem = c.mem
    BY SaveBeside DEF Beside, Equal
  <2>2. QED
    BY <1>1, <1>3, <2>1, BesideKeepsKernel DEF Beside
<1>4. CASE Accepts(c, action) /\ d = Save(e)
  <2>1. /\ camp \in {"Preflighting", "Running", "Paused", "Completed"}
        /\ action = "Start" => camp = "Running"
        /\ camp = "Completed" => c.mem.phase = PredecessorRetired
        /\ camp = "Preflighting" => c.mem.camp = "Planned"
    BY <1>4 DEF Accepts, Decided, Decision, PauseDecision
  <2> HIDE DEF camp
  <2>2. m.camp = camp /\ m.phase = c.mem.phase /\ m.pred = c.mem.pred /\ m.succ = c.mem.succ /\ m.auth = c.mem.auth
    BY DEF Base, MemOK, MemField
  <2> HIDE DEF m
  <2>3. d.mem = m /\ d.disk = m /\ d.rounds = c.rounds
    BY <1>4 DEF Save, Base, CtlField
  <2> HIDE DEF d
  <2>4. Ordered(d.mem)
    BY <2>1, <2>2, <2>3 DEF Kernel, Ordered
  <2>5. Open(d.mem) = Open(c.mem)
    BY <2>2, <2>3 DEF Open
  <2>6. Truthful(d.mem, s, t)
    BY <2>2, <2>3, <2>5 DEF Kernel, Truthful
  <2>7. Kernel(d, s, t)
    BY <2>3, <2>4, <2>6, SavedIsKernel
  <2>8. QED
    BY <1>1, <2>1, <2>2, <2>3, <2>7 DEF d
<1>5. QED
  BY <1>2, <1>3, <1>4

\* What the ensuring calls rely on.
Minded(c, s, t) == Purposeful(c) /\ SourceKnown(c, s) /\ TargetKnown(c, t)

\* The registry grants to somebody who may be served, or who gets the authority transferred.
LEMMA GrantThenIsTame ==
    ASSUME now \in Nat, NEW c, Base(c), NEW holder \in Incarnation, NEW s, NEW t, Kernel(c, s, t),
           NEW refused, Base(refused), Tame(refused, s, t), refused.pc = "idle",
           refused.mem.auth.fences = c.mem.auth.fences,
           NEW pc, \/ pc = "transfer.deliver" /\ Finishing(c, 0, s, t)
                   \/ pc \in {"ensure.renew", "ensure.deliver"} /\ Minded(c, s, t) /\ Served(c.mem, holder)
    PROVE  Tame(GrantThen(c, holder, pc, refused), s, t)
<1> DEFINE r == GrantResult(c.mem.auth, holder, "Mutating", LeaseTtl, now, c.tokens)
           g == SetAuth(c, r.auth)
           k == IF r.lease = c.mem.auth.nextLease THEN c.tokens + 1 ELSE c.tokens
           h == [g EXCEPT !.tokens = k]
           q == SetAuth(refused, r.auth)
<1>1. Sound(c.mem.auth) /\ c.tokens \in Nat /\ LeaseTtl \in Nat /\ k \in Nat
  BY NodeAssumption DEF Base, MemOK
<1>2. Sound(r.auth) /\ r.auth.fences = c.mem.auth.fences /\ (r.code = "Ok" => r.auth.leases[r.lease].holder = holder)
  <2>1. GrantOK(r)
    BY <1>1, GrantKeepsSound
  <2>2. r.auth.fences = c.mem.auth.fences /\ (r.code = "Ok" => r.auth.leases[r.lease].holder = holder)
    BY <1>1, GrantIsToHolder
  <2>3. QED
    BY <2>1, <2>2 DEF GrantOK
<1>3. GrantThen(c, holder, pc, refused) = IF r.code # "Ok" THEN q ELSE Goto(h, pc, r.lease)
  BY DEF GrantThen, SetAuth
<1> HIDE DEF r, k
<1>4. Beside(c, g) /\ g.mem.auth = r.auth
  BY <1>2, LeasesBeside
<1> HIDE DEF g
<1>5. Beside(c, h) /\ h.mem = g.mem
  BY <1>1, <1>4 DEF Beside, Base, CtlField
<1> HIDE DEF h
<1>6. CASE r.code # "Ok"
  <2>1. Beside(refused, q)
    BY <1>2, LeasesBeside
  <2>2. q.pc = "idle" /\ q.rounds = 0
    BY DEF SetAuth, Base, CtlField, Tame, Course
  <2> HIDE DEF q
  <2>3. Kernel(q, s, t)
    BY <2>1, BesideKeepsKernel DEF Tame
  <2>4. Course(q, q.pc, q.data, s, t)
    BY <2>2 DEF Course
  <2>5. QED
    BY <1>3, <1>6, <2>3, <2>4 DEF Tame
<1>7. CASE r.code = "Ok"
  <2>1. Kernel(h, s, t) /\ Base(h)
    BY <1>5, BesideKeepsKernel DEF Beside
  <2>2. h.mem.auth.leases[r.lease].holder = holder
    BY <1>2, <1>4, <1>5, <1>7
  <2>3. Served(c.mem, holder) => Served(h.mem, holder)
    BY <1>5, EqualIsKept DEF Beside
  <2>4. Minded(c, s, t) => Minded(h, s, t)
    BY <1>5 DEF Beside, Equal, Minded, Purposeful, SourceKnown, TargetKnown
  <2>5. Finishing(c, 0, s, t) => Finishing(h, 0, s, t)
    BY <1>5 DEF Beside, Equal, Finishing
  <2>6. Course(h, pc, r.lease, s, t)
    BY <2>2, <2>3, <2>4, <2>5 DEF Course, Minded
  <2>7. Tame(Goto(h, pc, r.lease), s, t)
    BY <2>1, <2>6, GotoIsTame
  <2>8. QED
    BY <1>3, <1>7, <2>7
<1>8. QED
  BY <1>6, <1>7

\* advance_snapshot and a round of advance_catch_up, up to their first calls.
LEMMA SnapshotStepIsTame ==
    ASSUME NEW c, Base(c), NEW s, NEW t, Kernel(c, s, t), c.mem.phase < PredecessorFenced
    PROVE  Tame(SnapshotStep(c), s, t)
BY EarlyIsTame, IdleIsTame DEF SnapshotStep, Early

\* A round of advance_catch_up.
LEMMA CatchUpRoundIsTame ==
    ASSUME NEW c, Base(c), NEW s, NEW t, Kernel(c, s, t), c.mem.phase < PredecessorFenced
    PROVE  Tame(CatchUpRound(c), s, t)
<1> DEFINE d == [c EXCEPT !.rounds = c.rounds + 1]
<1>1. Base(d) /\ d.mem = c.mem /\ d.disk = c.disk
  BY DEF Base, CtlField
<1>2. CatchUpRound(c) = Goto(d, "catchup.read", 0) \/ CatchUpRound(c) = Goto(c, "catchup.src", 0)
  BY DEF CatchUpRound
<1> HIDE DEF d
<1>3. Kernel(d, s, t)
  BY <1>1 DEF Kernel
<1>4. QED
  BY <1>1, <1>2, <1>3, EarlyIsTame DEF Early

\* advance_verify, up to its first call.
LEMMA VerifyStepIsTame ==
    ASSUME NEW c, Base(c), NEW s, NEW t, Kernel(c, s, t), c.mem.phase = AuthorityTransferred
    PROVE  Tame(VerifyStep(c), s, t)
<1>1. \A data : Course(c, "verify.report", data, s, t)
  BY DEF Course
<1>2. QED
  BY <1>1, GotoIsTame, IdleIsTame DEF VerifyStep

\* advance_fence, up to its call: a predecessor that says it has stopped has.
LEMMA FenceStepIsTame ==
    ASSUME now \in Nat, NEW c, Base(c), NEW s, NEW t, Kernel(c, s, t), c.mem.phase = ReadinessVerified,
           SourceKnown(c, s)
    PROVE  Tame(FenceStep(c), s, t)
<1> USE DEF NotStarted, Prepared, SnapshotSynchronized, CaughtUp, ReadinessVerified, PredecessorFenced,
            AuthorityTransferred, SuccessorVerified, PredecessorRetired, NoHandoff
<1> DEFINE a == c.mem.auth
           r == RequestFenceResult(a, SourceInc, now)
           o == OutstandingAcknowledged(a, SourceInc)
           e == SetAuth(c, r.auth)
<1>1. Sound(a) /\ c.mem.pred = SourceInc /\ SourceInc \in Incarnation
  BY DEF Base, MemOK, Kernel, Ordered
<1>2. Sound(r.auth) /\ Sound(o)
  BY <1>1, RequestFenceKeepsSound, OutstandingAcknowledgedIsSound
<1>3. \/ c.src.life \in {"Fenced", "Retired"} /\ FenceStep(c) = Idle(RecordPhase(SetAuth(c, o), PredecessorFenced))
      \/ Open(c.mem) # {} /\ FenceStep(c) = Goto(c, "fence", Oldest(Open(c.mem)))
      \/ r.code # "Ok" /\ FenceStep(c) = Idle(e)
      \/ r.code = "Ok" /\ FenceStep(c) = Goto(Save(e), "fence", Oldest(OutstandingFences(r.auth, SourceInc)))
  BY <1>1 DEF FenceStep, Open
<1>4. \A f, g \in Open(c.mem) : f = g
  BY DEF Kernel, Truthful
<1>5. OutstandingFences(o, SourceInc) = {}
  BY <1>1, <1>4, OutstandingCloses DEF Open
<1>6. r.code # "Ok" => r.auth.fences = a.fences
  BY <1>1, RequestOpensOne
<1>7. r.code = "Ok" => OutstandingFences(r.auth, SourceInc) = {a.nextFence}
  BY <1>1, RequestOpensOne
<1> HIDE DEF r, o
<1>8. CASE c.src.life \in {"Fenced", "Retired"} /\ FenceStep(c) = Idle(RecordPhase(SetAuth(c, o), PredecessorFenced))
  BY <1>2, <1>5, <1>8, FencedIsTame DEF SourceKnown
<1>9. CASE Open(c.mem) # {} /\ FenceStep(c) = Goto(c, "fence", Oldest(Open(c.mem)))
  <2>1. Open(c.mem) \in SUBSET Nat
    BY <1>1 DEF Open, OutstandingFences, Sound, AuthorityOK
  <2>2. Oldest(Open(c.mem)) \in Open(c.mem)
    BY <1>9, <2>1, OldestIsMember
  <2>3. Course(c, "fence", Oldest(Open(c.mem)), s, t)
    BY <2>2 DEF Course
  <2>4. QED
    BY <1>9, <2>3, GotoIsTame
<1>10. CASE r.code # "Ok" /\ FenceStep(c) = Idle(e)
  <2>1. Beside(c, e)
    BY <1>2, <1>6, <1>10, LeasesBeside
  <2>2. Kernel(e, s, t) /\ Base(e)
    BY <2>1, BesideKeepsKernel DEF Beside
  <2> HIDE DEF e
  <2>3. QED
    BY <1>10, <2>2, IdleIsTame
<1>11. CASE r.code = "Ok" /\ FenceStep(c) = Goto(Save(e), "fence", Oldest(OutstandingFences(r.auth, SourceInc)))
  <2> DEFINE m == [c.mem EXCEPT !.auth = r.auth]
             d == Save(e)
             f == a.nextFence
  <2>1. OutstandingFences(r.auth, SourceInc) = {f}
    BY <1>7, <1>11
  <2> HIDE DEF f
  <2>2. Base(e) /\ e = [c EXCEPT !.mem = m]
    BY <1>2, SetAuthGoesOn DEF Onward, SetAuth
  <2>3. /\ m.auth = r.auth /\ m.phase = c.mem.phase /\ m.pred = c.mem.pred /\ m.succ = c.mem.succ
        /\ m.camp = c.mem.camp
    BY DEF Base, MemOK, MemField
  <2> HIDE DEF m
  <2>4. e.mem = m
    BY <2>2 DEF Base, CtlField
  <2> HIDE DEF e
  <2>5. Base(d) /\ d.mem = m /\ d.disk = m
    BY <2>2, <2>4, SaveBeside DEF Beside
  <2> HIDE DEF d
  <2>6. Open(d.mem) = {f}
    BY <2>1, <2>3, <2>5 DEF Open
  <2>7. Ordered(d.mem) /\ Truthful(d.mem, s, t)
    BY <2>3, <2>5, <2>6 DEF Kernel, Ordered, Truthful
  <2>8. Kernel(d, s, t)
    BY <2>5, <2>7, SavedIsKernel
  <2>9. Oldest({f}) = f
    <3>1. f \in DOMAIN r.auth.fences
      BY <2>1 DEF OutstandingFences
    <3>2. {f} \in SUBSET Nat
      BY <1>2, <3>1 DEF Sound, AuthorityOK
    <3>3. QED
      BY <3>2, OldestIsMember
  <2>10. Course(d, "fence", f, s, t)
    BY <2>3, <2>5, <2>6 DEF Course
  <2>11. Tame(Goto(d, "fence", f), s, t)
    BY <2>5, <2>8, <2>10, GotoIsTame
  <2>12. QED
    BY <1>11, <2>1, <2>9, <2>11 DEF d
<1>12. QED
  BY <1>3, <1>8, <1>9, <1>10, <1>11

\* The grant at the end of advance_transfer's catch-up.
LEMMA TransferGrantIsTame ==
    ASSUME now \in Nat, NEW c, Base(c), Real(c.src), NEW s, NEW t, Kernel(c, s, t), Finishing(c, 0, s, t)
    PROVE  Tame(TransferGrant(c), s, t)
<1> DEFINE d == [c EXCEPT !.mem.lsn = c.src.lsn]
<1>1. Beside(c, d)
  BY LsnBeside DEF Real
<1>2. TransferGrant(c) = GrantThen(d, d.mem.succ, "transfer.deliver", Idle(d))
  BY DEF TransferGrant
<1> HIDE DEF d
<1>3. Base(d) /\ d.mem.succ \in Incarnation
  <2>1. d.mem.phase # NoHandoff
    BY <1>1 DEF Beside, Equal, Finishing, PredecessorFenced, NoHandoff
  <2>2. QED
    BY <1>1, <2>1 DEF Beside, Base, MemOK
<1>4. Kernel(d, s, t) /\ Finishing(d, 0, s, t)
  BY <1>1, BesideKeepsKernel DEF Beside, Equal, Finishing
<1>5. Base(Idle(d)) /\ Tame(Idle(d), s, t) /\ Idle(d).pc = "idle" /\ Idle(d).mem = d.mem
  BY <1>3, <1>4, IdleIsFine, IdleIsTame DEF Fine
<1>6. QED
  BY <1>2, <1>3, <1>4, <1>5, GrantThenIsTame

\* A round of advance_transfer's catch-up, up to its first call; the rounds left suffice.
LEMMA TransferRoundIsTame ==
    ASSUME now \in Nat, NEW c, Base(c), Real(c.src), NEW s, NEW t, Kernel(c, s, t),
           c.mem.phase = PredecessorFenced, c.src.lsn = Len(s.doc), c.rounds \in 0..MaxRounds,
           Enough /\ ~t.confirmed => \/ Len(s.doc) - Len(t.doc) <= (MaxRounds - c.rounds) * MaxBatch
                                     \/ c.rounds = 0 /\ Len(t.doc) < s.base
    PROVE  Tame(TransferRound(c), s, t)
<1> DEFINE d == [c EXCEPT !.rounds = c.rounds + 1]
<1>1. Base(d) /\ d.mem = c.mem /\ d.disk = c.disk /\ d.src = c.src /\ d.rounds = c.rounds + 1
  BY DEF Base, CtlField
<1>2. \/ c.rounds < MaxRounds /\ TransferRound(c) = Goto(d, "transfer.tgt", 0)
      \/ ~(c.rounds < MaxRounds) /\ TransferRound(c) = TransferGrant(c)
  BY DEF TransferRound
<1> HIDE DEF d
<1>3. MaxRounds \in Nat /\ MaxRounds >= 1 /\ MaxBatch \in Nat
  BY EvolutionAssumption, NodeAssumption
<1>4. CASE c.rounds < MaxRounds /\ TransferRound(c) = Goto(d, "transfer.tgt", 0)
  <2>1. /\ d.rounds \in 1..MaxRounds /\ MaxRounds - d.rounds + 1 = MaxRounds - c.rounds
        /\ MaxRounds - c.rounds # 0
    BY <1>1, <1>3, <1>4
  <2>2. Finishing(d, MaxRounds - d.rounds + 1, s, t)
    BY <1>1, <2>1 DEF Finishing
  <2>3. Course(d, "transfer.tgt", 0, s, t)
    BY <2>2 DEF Course
  <2>4. Kernel(d, s, t)
    BY <1>1 DEF Kernel
  <2>5. QED
    BY <1>1, <1>4, <2>3, <2>4, GotoIsTame
<1>5. CASE ~(c.rounds < MaxRounds) /\ TransferRound(c) = TransferGrant(c)
  <2>1. c.rounds \in 1..MaxRounds /\ MaxRounds - c.rounds = 0 /\ c.rounds # 0
    BY <1>3, <1>5
  <2>2. Finishing(c, 0, s, t)
    BY <2>1 DEF Finishing
  <2>3. QED
    BY <1>5, <2>2, TransferGrantIsTame
<1>6. QED
  BY <1>2, <1>4, <1>5

\* advance_locked: every routine is run in its phase.
LEMMA PhaseStepIsTame ==
    ASSUME now \in Nat, NEW c, Base(c), c.mem.phase # NoHandoff, NEW s, NEW t, Kernel(c, s, t),
           c.rounds = 0, SourceKnown(c, s)
    PROVE  Tame(PhaseStep(c), s, t)
<1>1. CASE Exhausted(c)
  <2>1. Base(ApplyAction(c, "Pause")) /\ Kernel(ApplyAction(c, "Pause"), s, t)
    BY ApplyActionIsTame
  <2>2. QED
    BY <1>1, <2>1, IdleIsTame DEF PhaseStep
<1>2. CASE ~Exhausted(c)
  <2> DEFINE phase == c.mem.phase
  <2> USE <1>2 DEF NotStarted, Prepared, SnapshotSynchronized, CaughtUp, ReadinessVerified,
            PredecessorFenced, AuthorityTransferred, SuccessorVerified, PredecessorRetired, NoHandoff
  <2>1. phase \in {0, 1, 2, 3, 4, 5, 6, 7, 8}
    BY DEF Kernel, Ordered
  <2>2. CASE phase = 0
    BY <2>2, BindIsTame DEF PhaseStep
  <2>3. CASE phase = 1
    BY <2>3, SnapshotStepIsTame DEF PhaseStep
  <2>4. CASE phase = 2
    BY <2>4, CatchUpRoundIsTame DEF PhaseStep
  <2>5. CASE phase = 3
    BY <2>5, EarlyIsTame DEF PhaseStep, Early
  <2>6. CASE phase = 4
    BY <2>6, FenceStepIsTame DEF PhaseStep
  <2>7. CASE phase = 5
    <3>1. Course(c, "transfer.src", 0, s, t)
      BY <2>7 DEF Course
    <3>2. QED
      BY <2>7, <3>1, GotoIsTame DEF PhaseStep
  <2>8. CASE phase = 6
    BY <2>8, VerifyStepIsTame DEF PhaseStep
  <2>9. CASE phase = 7
    <3>1. Course(c, "retire", 0, s, t)
      BY <2>9 DEF Course
    <3>2. QED
      BY <2>9, <3>1, GotoIsTame DEF PhaseStep
  <2>10. CASE phase = 8
    <3>1. phase >= 8 /\ phase \notin {0, 1, 2, 3, 4, 5, 6, 7}
      BY <2>10
    <3>2. PhaseStep(c) = Idle(c)
      BY <3>1 DEF PhaseStep
    <3>3. QED
      BY <3>2, IdleIsTame
  <2>11. QED
    BY <2>1, <2>2, <2>3, <2>4, <2>5, <2>6, <2>7, <2>8, <2>9, <2>10
<1>3. QED
  BY <1>1, <1>2

\* The end of begin_handoff.
LEMMA BegunIsTame ==
    ASSUME now \in Nat, NEW c, Base(c), NEW s, NEW t, Kernel(c, s, t), c.rounds = 0
    PROVE  Tame(Begun(c), s, t)
<1> DEFINE a == c.mem.auth
           claim == ClaimOf(MutatingLease(a))
           m == [c.mem EXCEPT !.claim = claim]
           claimed == IF /\ HasMutating(a)
                         /\ MutatingLease(a).holder = c.mem.pred
                         /\ c.mem.claim = NoClaim
                      THEN [c EXCEPT !.mem.claim = claim] ELSE c
           o == [claimed.mem EXCEPT !.winAt = now, !.winLsn = c.src.lsn]
           opened == IF c.mem.winAt < 0
                     THEN [claimed EXCEPT !.mem.winAt = now, !.mem.winLsn = c.src.lsn] ELSE claimed
<1>1. Begun(c) = Bind(Save(opened), "advance")
  BY DEF Begun
<1>2. Beside(c, claimed)
  <2>1. CASE HasMutating(a)
    <3>1. claim \in Claim
      BY <2>1, MutatingIsLease DEF Base, MemOK, Lease, Claim, ClaimOf
    <3> HIDE DEF claim
    <3>2. MemOK(m) /\ Equal(m, c.mem)
      BY <3>1 DEF Base, MemOK, MemField, Equal
    <3>3. [c EXCEPT !.mem.claim = claim] = [c EXCEPT !.mem = m]
      OBVIOUS
    <3> HIDE DEF m
    <3>4. Beside(c, [c EXCEPT !.mem = m])
      BY <3>2, MemoryBeside
    <3>5. QED
      BY <3>3, <3>4 DEF Beside, Equal
  <2>2. CASE ~HasMutating(a)
    BY <2>2 DEF Beside, Equal
  <2>3. QED
    BY <2>1, <2>2
<1> HIDE DEF claimed
<1>3. Beside(claimed, opened)
  <2>1. Base(claimed)
    BY <1>2 DEF Beside
  <2>2. MemOK(o) /\ Equal(o, claimed.mem)
    BY <2>1 DEF Base, MemOK, MemField, Equal
  <2>3. [claimed EXCEPT !.mem.winAt = now, !.mem.winLsn = c.src.lsn] = [claimed EXCEPT !.mem = o]
    BY <2>1 DEF Base, CtlField
  <2> HIDE DEF o
  <2>4. Beside(claimed, [claimed EXCEPT !.mem = o])
    BY <2>1, <2>2, MemoryBeside
  <2>5. QED
    BY <2>1, <2>3, <2>4 DEF Beside, Equal
<1> HIDE DEF opened
<1>4. Beside(c, Save(opened))
  <2>1. Base(opened)
    BY <1>3 DEF Beside
  <2>2. Beside(opened, Save(opened))
    BY <2>1, SaveBeside
  <2>3. QED
    BY <1>2, <1>3, <2>2, BesideIsTransitive
<1>5. Base(Save(opened)) /\ Kernel(Save(opened), s, t) /\ Save(opened).rounds = 0
  BY <1>4, BesideKeepsKernel DEF Beside
<1>6. QED
  BY <1>1, <1>5, BindIsTame

\* Nobody restarts, so nobody is replaced.
LEMMA NobodyReplaced ==
    ASSUME MaxBoot = 1, NEW h \in Incarnation, NEW report, report.inc \in Incarnation
    PROVE  ~Replaced(h, report)
BY EvolutionAssumption DEF Replaced

\* The end of reconcile: it records what it finds.
LEMMA ReconcileTailIsTame ==
    ASSUME MaxBoot = 1, now \in Nat, NEW c, Base(c), Real(c.src), NEW s, NEW t, Kernel(c, s, t),
           Minded(c, s, t), "Reconcile" \in Operations
    PROVE  /\ Base(ReconcileTail(c)) /\ Tame(ReconcileTail(c), s, t) /\ ReconcileTail(c).pc = "idle"
           /\ ReconcileTail(c).mem.auth = c.mem.auth
<1> DEFINE a == c.mem.auth
           transferred == /\ HasMutating(a)
                          /\ MutatingLease(a).holder = c.mem.succ
                          /\ c.tgt.hasAuthority /\ c.tgt.lease.token = MutatingLease(a).token
                          /\ c.mem.phase < AuthorityTransferred
           c1 == IF transferred THEN RecordPhase(c, AuthorityTransferred) ELSE c
           c2 == IF c.src.life \in {"Fenced", "Retired"} /\ c1.mem.phase = ReadinessVerified
                 THEN RecordPhase(c1, PredecessorFenced) ELSE c1
<1>1. \/ ReconcileTail(c) \in {Idle(c), Idle(Save(c2))}
      \/ c.mem.phase # NoHandoff /\ PredecessorReplaced(c2)
  BY DEF ReconcileTail
<1>2. transferred => t.confirmed
  BY DEF Minded, TargetKnown
<1> HIDE DEF transferred
<1>3. AuthorityTransferred \in Prepared..PredecessorRetired /\ PredecessorFenced \in Prepared..PredecessorRetired
      /\ AuthorityTransferred # PredecessorFenced /\ AuthorityTransferred # PredecessorRetired
      /\ PredecessorFenced # PredecessorRetired
  BY DEF AuthorityTransferred, PredecessorFenced, Prepared, PredecessorRetired
<1>4. Base(c1) /\ Kernel(c1, s, t) /\ c1.src = c.src /\ c1.mem.pred = c.mem.pred /\ c1.mem.auth = a
  <2>1. CASE transferred
    <3>1. Base(RecordPhase(c, AuthorityTransferred)) /\ RecordPhase(c, AuthorityTransferred).src = c.src
      BY <1>3, RecordPhaseIs
    <3>2. /\ Kernel(RecordPhase(c, AuthorityTransferred), s, t)
          /\ RecordPhase(c, AuthorityTransferred).mem.pred = c.mem.pred
          /\ RecordPhase(c, AuthorityTransferred).mem.auth = a
      BY <1>2, <1>3, <2>1, RecordPhaseIsTame
    <3>3. QED
      BY <2>1, <3>1, <3>2
  <2>2. CASE ~transferred
    BY <2>2
  <2>3. QED
    BY <2>1, <2>2
<1> HIDE DEF c1
<1>5. Base(c2) /\ Kernel(c2, s, t) /\ c2.src = c.src /\ c2.mem.pred = c.mem.pred /\ c2.mem.auth = a
  <2>1. CASE c.src.life \in {"Fenced", "Retired"} /\ c1.mem.phase = ReadinessVerified
    <3>1. Stopped(s)
      BY <2>1 DEF Minded, SourceKnown
    <3>2. ~Settling
      BY <1>4, <2>1, <3>1 DEF Settling, Kernel, Truthful, ReadinessVerified, PredecessorFenced
    <3>3. Base(RecordPhase(c1, PredecessorFenced)) /\ RecordPhase(c1, PredecessorFenced).src = c.src
      BY <1>3, <1>4, RecordPhaseIs
    <3>4. /\ Kernel(RecordPhase(c1, PredecessorFenced), s, t)
          /\ RecordPhase(c1, PredecessorFenced).mem.pred = c.mem.pred
          /\ RecordPhase(c1, PredecessorFenced).mem.auth = a
      BY <1>3, <1>4, <3>1, <3>2, RecordPhaseIsTame
    <3>5. QED
      BY <2>1, <3>3, <3>4
  <2>2. CASE ~(c.src.life \in {"Fenced", "Retired"} /\ c1.mem.phase = ReadinessVerified)
    BY <1>4, <2>2
  <2>3. QED
    BY <2>1, <2>2
<1> HIDE DEF c2
<1>6. c.mem.phase # NoHandoff => ~PredecessorReplaced(c2)
  <2>1. c.mem.phase # NoHandoff => c.mem.pred \in Incarnation
    BY DEF Base, MemOK
  <2>2. c.src.inc \in Incarnation
    BY DEF Real
  <2>3. QED
    BY <1>5, <2>1, <2>2, NobodyReplaced DEF PredecessorReplaced
<1>7. Beside(c2, Save(c2)) /\ Save(c2).mem = c2.mem
  BY <1>5, SaveBeside
<1>8. Base(Save(c2)) /\ Kernel(Save(c2), s, t)
  BY <1>5, <1>7, BesideKeepsKernel DEF Beside
<1>9. ASSUME NEW d \in {c, Save(c2)}
      PROVE  Base(Idle(d)) /\ Tame(Idle(d), s, t) /\ Idle(d).pc = "idle" /\ Idle(d).mem.auth = a
  <2>1. Base(d) /\ Kernel(d, s, t) /\ d.mem.auth = a
    BY <1>5, <1>7, <1>8
  <2>2. QED
    BY <2>1, IdleIsTame, IdleIsFine DEF Fine
<1>10. QED
  BY <1>1, <1>6, <1>9

\* What follows ensure_holder_authority when it succeeds.
LEMMA EnsuredIsTame ==
    ASSUME MaxBoot = 1, now \in Nat, NEW c, Base(c), Ensurable(c), NEW s, NEW t, Kernel(c, s, t), Minded(c, s, t)
    PROVE  Tame(Ensured(c), s, t)
<1>1. c.rounds = 0 /\ SourceKnown(c, s)
  BY DEF Minded, Purposeful
<1>2. CASE c.op = "begin"
  BY <1>1, <1>2, BegunIsTame DEF Ensured
<1>3. CASE c.op = "advance"
  BY <1>1, <1>3, PhaseStepIsTame DEF Ensured, Ensurable, Reporting
<1>4. CASE c.op = "prepare"
  <2>1. c.mem.phase < PredecessorFenced
    BY <1>4 DEF Minded, Purposeful, NotStarted, PredecessorFenced
  <2>2. QED
    BY <1>4, <2>1, EarlyIsTame, IdleIsTame DEF Ensured, Early
<1>5. CASE c.op = "preflight"
  <2>1. Base(Save(c)) /\ Kernel(Save(c), s, t)
    BY SaveBeside, BesideKeepsKernel DEF Beside
  <2>2. QED
    BY <1>5, <2>1, IdleIsTame DEF Ensured
<1>6. CASE c.op = "reconcile"
  <2>1. "Reconcile" \in Operations /\ Real(c.src)
    BY <1>6 DEF Minded, Purposeful, Ensurable
  <2>2. QED
    BY <1>6, <2>1, ReconcileTailIsTame DEF Ensured
<1>7. QED
  BY <1>2, <1>3, <1>4, <1>5, <1>6 DEF Ensurable, Reporting

\* The campaign of a preflight that failed.
LEMMA FailedIsTame ==
    ASSUME NEW c, Base(c), NEW s, NEW t, Kernel(c, s, t), c.mem.phase \in {NoHandoff, PredecessorRetired}
    PROVE  LET d == Save([c EXCEPT !.mem.camp = "Failed"])
           IN  /\ Base(d) /\ Tame(Idle(d), s, t) /\ Base(Idle(d)) /\ Idle(d).pc = "idle"
               /\ Idle(d).mem.auth = c.mem.auth
<1> DEFINE m == [c.mem EXCEPT !.camp = "Failed"]
           e == [c EXCEPT !.mem = m]
           d == Save([c EXCEPT !.mem.camp = "Failed"])
<1>1. MemOK(m) /\ m.camp = "Failed" /\ m.phase = c.mem.phase /\ m.pred = c.mem.pred /\ m.succ = c.mem.succ
      /\ m.auth = c.mem.auth
  BY DEF Base, MemOK, MemField, CampaignState
<1>2. d = Save(e)
  OBVIOUS
<1> HIDE DEF m, d
<1>3. Base(e) /\ e.mem = m
  BY <1>1 DEF Base, CtlField
<1> HIDE DEF e
<1>4. Base(d) /\ d.mem = m /\ d.disk = m
  BY <1>2, <1>3, SaveBeside DEF Beside
<1>5. Open(d.mem) = Open(c.mem)
  BY <1>1, <1>4 DEF Open
<1>6. Ordered(d.mem) /\ Truthful(d.mem, s, t)
  BY <1>1, <1>4, <1>5 DEF Kernel, Ordered, Truthful
<1>7. Kernel(d, s, t)
  BY <1>4, <1>6, SavedIsKernel
<1>8. QED
  BY <1>1, <1>4, <1>7, IdleIsTame, IdleIsFine DEF Fine, d

\* What follows ensure_holder_authority when it does not.
LEMMA NotEnsuredIsTame ==
    ASSUME MaxBoot = 1, now \in Nat, NEW c, Base(c), Ensurable(c), NEW s, NEW t, Kernel(c, s, t), Minded(c, s, t)
    PROVE  /\ Base(NotEnsured(c)) /\ Tame(NotEnsured(c), s, t) /\ NotEnsured(c).pc = "idle"
           /\ NotEnsured(c).mem.auth = c.mem.auth
<1>1. CASE c.op \in {"begin", "advance", "prepare"}
  BY <1>1, IdleIsTame, IdleIsFine DEF NotEnsured, Fine
<1>2. CASE c.op = "preflight"
  <2>1. c.mem.phase \in {NoHandoff, PredecessorRetired}
    BY <1>2 DEF Minded, Purposeful
  <2>2. NotEnsured(c) = Idle(Save([c EXCEPT !.mem.camp = "Failed"]))
    BY <1>2 DEF NotEnsured
  <2>3. QED
    BY <2>1, <2>2, FailedIsTame
<1>3. CASE c.op = "reconcile"
  <2>1. "Reconcile" \in Operations /\ Real(c.src) /\ NotEnsured(c) = ReconcileTail(c)
    BY <1>3 DEF Minded, Purposeful, Ensurable, NotEnsured
  <2>2. QED
    BY <2>1, ReconcileTailIsTame
<1>4. QED
  BY <1>1, <1>2, <1>3 DEF Ensurable, Reporting

\* ensure_holder_authority, up to its first call, for somebody who may be served.
LEMMA EnsureHolderIsTame ==
    ASSUME MaxBoot = 1, now \in Nat, NEW c, Base(c), Ensurable(c), NEW s, NEW t, Kernel(c, s, t), Minded(c, s, t),
           NEW report, report.inc \in Incarnation,
           OutstandingFences(c.mem.auth, report.inc) = {} => Served(c.mem, report.inc)
    PROVE  Tame(EnsureHolder(c, report, c.op), s, t)
<1> DEFINE a == c.mem.auth
           id == Oldest(MutatingIds(a))
           d == EnsureHolder(c, report, c.op)
<1>1. [c EXCEPT !.op = c.op] = c
  BY DEF Base, CtlField
<1>2. \/ d = Ensured(c)
      \/ /\ OutstandingFences(a, report.inc) = {}
         /\ \/ d = GrantThen(c, report.inc, "ensure.renew", NotEnsured(c))
            \/ a.leases[id].holder = report.inc /\ d = Goto(c, "ensure.reattest", id)
            \/ d = GrantThen(c, report.inc, "ensure.deliver", NotEnsured(c))
  BY <1>1 DEF EnsureHolder, MutatingLease
<1> HIDE DEF d, id
<1>3. Tame(Ensured(c), s, t)
  BY EnsuredIsTame
<1>4. /\ Base(NotEnsured(c)) /\ Tame(NotEnsured(c), s, t) /\ NotEnsured(c).pc = "idle"
      /\ NotEnsured(c).mem.auth = a
  BY NotEnsuredIsTame
<1>5. CASE OutstandingFences(a, report.inc) = {}
  <2>1. Served(c.mem, report.inc)
    BY <1>5
  <2>2. \A pc \in {"ensure.renew", "ensure.deliver"} : Tame(GrantThen(c, report.inc, pc, NotEnsured(c)), s, t)
    BY <1>4, <2>1, GrantThenIsTame
  <2>3. a.leases[id].holder = report.inc => Tame(Goto(c, "ensure.reattest", id), s, t)
    <3>1. a.leases[id].holder = report.inc => Course(c, "ensure.reattest", id, s, t)
      BY <2>1 DEF Course, Minded
    <3>2. QED
      BY <3>1, GotoIsTame
  <2>4. Tame(d, s, t)
    BY <1>2, <1>3, <2>2, <2>3
  <2>5. QED
    BY <2>4 DEF d
<1>6. CASE OutstandingFences(a, report.inc) # {}
  BY <1>2, <1>3, <1>6 DEF d
<1>7. QED
  BY <1>5, <1>6

\* ensure_holder_authority for the component the phase asks for.
LEMMA EnsureForPhaseIsTame ==
    ASSUME MaxBoot = 1, now \in Nat, NEW c, Base(c), Ensurable(c), NEW s, NEW t, Kernel(c, s, t), Minded(c, s, t)
    PROVE  Tame(EnsureForPhase(c, c.op), s, t)
<1>1. [c EXCEPT !.op = c.op] = c
  BY DEF Base, CtlField
<1>2. \/ c.mem.phase < PredecessorFenced /\ EnsureForPhase(c, c.op) = EnsureHolder(c, c.src, c.op)
      \/ c.mem.phase >= AuthorityTransferred /\ EnsureForPhase(c, c.op) = EnsureHolder(c, c.tgt, c.op)
      \/ EnsureForPhase(c, c.op) = Ensured(c)
  BY <1>1 DEF EnsureForPhase
<1>3. c.src.inc = SourceInc /\ c.tgt.inc = TargetInc /\ c.src.inc \in Incarnation /\ c.tgt.inc \in Incarnation
  BY DEF Minded, SourceKnown, TargetKnown, Ensurable, Real
<1>4. CASE c.mem.phase < PredecessorFenced /\ EnsureForPhase(c, c.op) = EnsureHolder(c, c.src, c.op)
  <2>1. OutstandingFences(c.mem.auth, c.src.inc) = {} => Served(c.mem, c.src.inc)
    BY <1>3, <1>4 DEF Served, Open
  <2>2. QED
    BY <1>3, <1>4, <2>1, EnsureHolderIsTame
<1>5. CASE c.mem.phase >= AuthorityTransferred /\ EnsureForPhase(c, c.op) = EnsureHolder(c, c.tgt, c.op)
  <2>1. Served(c.mem, c.tgt.inc)
    BY <1>3, <1>5 DEF Served
  <2>2. QED
    BY <1>3, <1>5, <2>1, EnsureHolderIsTame
<1>6. QED
  BY <1>2, <1>4, <1>5, EnsuredIsTame

\* reconcile_incarnations has nothing to do.
LEMMA NothingToReconcile ==
    ASSUME MaxBoot = 1, now \in Nat, NEW c, Base(c), Real(c.src), Real(c.tgt)
    PROVE  ~RestartsExhausted(c) /\ ReconcileIncarnations(c) = c
<1> DEFINE a == c.mem.auth
           slot == SlotLeases(a, now)
           holder == a.leases[Oldest(slot)].holder
<1>1. c.src.inc \in Incarnation /\ c.tgt.inc \in Incarnation
  BY DEF Real
<1>2. slot # {} => holder \in Incarnation
  <2>1. slot \in SUBSET Nat /\ slot \subseteq DOMAIN a.leases /\ \A i \in DOMAIN a.leases : a.leases[i] \in Lease
    <3>1. Sound(a)
      BY DEF Base, MemOK
    <3> HIDE DEF a
    <3>2. QED
      BY <3>1 DEF Sound, AuthorityOK, SlotLeases
  <2>2. slot # {} => Oldest(slot) \in DOMAIN a.leases
    BY <2>1, OldestIsMember
  <2>3. QED
    BY <2>1, <2>2 DEF Lease
<1>3. slot # {} => ~Replaced(holder, c.src) /\ ~Replaced(holder, c.tgt)
  BY <1>1, <1>2, NobodyReplaced
<1>4. ReplacedHolderRevoked(c) = c
  BY <1>3 DEF ReplacedHolderRevoked
<1>5. c.mem.phase # NoHandoff => ~PredecessorReplaced(c) /\ ~SuccessorReplaced(c)
  <2>1. c.mem.phase # NoHandoff => c.mem.pred \in Incarnation /\ c.mem.succ \in Incarnation
    BY DEF Base, MemOK
  <2>2. QED
    BY <1>1, <2>1, NobodyReplaced DEF PredecessorReplaced, SuccessorReplaced
<1>6. QED
  BY <1>4, <1>5 DEF RestartsExhausted, ReconcileIncarnations

\* What an operation does once both components have reported.
LEMMA BoundIsTame ==
    ASSUME MaxBoot = 1, now \in Nat, NEW c, Base(c), Reporting(c), Real(c.src), Real(c.tgt),
           NEW s, NEW t, Kernel(c, s, t), Minded(c, s, t), c.op = "begin" => c.mem.phase = NoHandoff
    PROVE  Tame(Bound(c), s, t)
<1> USE DEF NotStarted, PredecessorFenced, AuthorityTransferred, PredecessorRetired, NoHandoff
<1>1. c.src.inc = SourceInc /\ c.tgt.inc = TargetInc /\ SourceInc \in Incarnation /\ TargetInc \in Incarnation
  BY DEF Minded, SourceKnown, TargetKnown, Real
<1>2. CASE c.op \in {"preflight", "prepare"}
  <2>1. Ensurable(c)
    BY <1>2 DEF Ensurable
  <2>2. Bound(c) = EnsureHolder(c, c.src, c.op)
    BY <1>2 DEF Bound
  <2>3. OutstandingFences(c.mem.auth, c.src.inc) = {} => Served(c.mem, c.src.inc)
    BY <1>1, <1>2 DEF Minded, Purposeful, Served, Open
  <2>4. QED
    BY <1>1, <2>1, <2>2, <2>3, EnsureHolderIsTame
<1>3. CASE c.op = "begin"
  <2> DEFINE m == [c.mem EXCEPT !.phase = NotStarted, !.attempt = 1, !.pred = c.src.inc, !.succ = c.tgt.inc]
             d == [c EXCEPT !.mem = m]
  <2>1. Bound(c) = EnsureHolder(d, c.src, "begin")
    BY <1>3 DEF Bound
  <2>2. 1 \in 0..MaxRestarts /\ NotStarted \in HandoffPhase
    BY EvolutionAssumption DEF HandoffPhase, Aborted
  <2>3. /\ MemOK(m) /\ m.phase = NotStarted /\ m.pred = SourceInc /\ m.succ = TargetInc
        /\ m.camp = c.mem.camp /\ m.auth = c.mem.auth
    BY <1>1, <2>2 DEF Base, MemOK, MemField
  <2> HIDE DEF m
  <2>4. Onward(c, d) /\ d.mem = m /\ d.disk = c.disk /\ d.rounds = c.rounds
    BY <2>3, MemoryReplaced DEF Base, CtlField
  <2> HIDE DEF d
  <2>5. Base(d) /\ Ensurable(d) /\ d.op = "begin" /\ d.src = c.src /\ d.tgt = c.tgt
    BY <1>3, <2>3, <2>4 DEF Onward, Ensurable, Reporting
  <2>6. Open(m) = Open(c.mem)
    BY <2>3 DEF Open
  <2>7. Ordered(m) /\ Truthful(m, s, t) /\ Recoverable(m, c.disk)
    <3>1. c.mem.phase = NoHandoff /\ c.mem.camp = "Running"
      BY <1>3 DEF Minded, Purposeful
    <3>2. Ordered(m)
      BY <2>3, <3>1 DEF Ordered, PredecessorRetired
    <3>3. Truthful(m, s, t)
      BY <2>3, <2>6, <3>1 DEF Kernel, Truthful
    <3>4. Recoverable(m, c.disk)
      BY <2>3, <3>1 DEF Kernel, Recoverable
    <3>5. QED
      BY <3>2, <3>3, <3>4
  <2>8. Kernel(d, s, t)
    BY <2>4, <2>7 DEF Kernel
  <2>9. Minded(d, s, t)
    BY <1>3, <2>3, <2>4, <2>5 DEF Minded, Purposeful, SourceKnown, TargetKnown
  <2>10. OutstandingFences(d.mem.auth, c.src.inc) = {} => Served(d.mem, c.src.inc)
    BY <1>1, <2>3, <2>4 DEF Served, Open
  <2>11. QED
    BY <1>1, <2>1, <2>5, <2>8, <2>9, <2>10, EnsureHolderIsTame
<1>4. CASE c.op \in {"advance", "reconcile"}
  <2>1. ~RestartsExhausted(c) /\ ReconcileIncarnations(c) = c
    BY NothingToReconcile
  <2>2. Bound(c) = EnsureForPhase(c, c.op)
    BY <1>4, <2>1 DEF Bound, Given
  <2>3. Ensurable(c)
    BY <1>4 DEF Ensurable
  <2>4. QED
    BY <2>2, <2>3, EnsureForPhaseIsTame
<1>5. QED
  BY <1>2, <1>3, <1>4 DEF Reporting

\* bind_nodes fails.
LEMMA UnboundIsTame ==
    ASSUME NEW c, Base(c), NEW s, NEW t, Kernel(c, s, t), Purposeful(c)
    PROVE  Tame(Unbound(c), s, t)
<1>1. CASE c.op = "preflight"
  <2>1. c.mem.phase \in {NoHandoff, PredecessorRetired}
    BY <1>1 DEF Purposeful
  <2>2. QED
    BY <1>1, <2>1, FailedIsTame DEF Unbound
<1>2. CASE c.op # "preflight"
  BY <1>2, IdleIsTame DEF Unbound
<1>3. QED
  BY <1>1, <1>2

\* The controller that starts again on its saved state.
LEMMA ReopenedIsTame ==
    ASSUME NEW c, Base(c), NEW s, NEW t, Kernel(c, s, t)
    PROVE  Tame(Reopened(c), s, t)
<1> DEFINE camp == IF c.disk.camp = "Preflighting" THEN "Planned" ELSE c.disk.camp
           a == Restored(c.disk.auth)
           m == [c.disk EXCEPT !.auth = a, !.camp = camp]
           d == [c EXCEPT !.mem = m]
           e == Save(Idle(d))
<1>1. Reopened(c) = e
  BY DEF Reopened
<1>2. a.fences = c.disk.auth.fences
  BY RestoredKeepsFences DEF Base, MemOK
<1> HIDE DEF a
<1>3. m.auth = a /\ m.camp = camp /\ m.phase = c.disk.phase /\ m.pred = c.disk.pred /\ m.succ = c.disk.succ
  BY DEF Base, MemOK, MemField
<1> HIDE DEF m
<1>4. e.mem = m /\ e.disk = m /\ e.pc = "idle" /\ e.rounds = 0
  <2>1. d.mem = m /\ DOMAIN d = CtlField
    BY DEF Base, CtlField
  <2> HIDE DEF d
  <2>2. QED
    BY <2>1 DEF Save, Idle, CtlField
<1> HIDE DEF e
<1>5. Open(m) = Open(c.mem)
  BY <1>2, <1>3 DEF Open, OutstandingFences, Kernel, Recoverable
<1>6. Ordered(m)
  BY <1>3 DEF Kernel, Ordered
<1>7. Truthful(m, s, t)
  BY <1>3, <1>5 DEF Kernel, Truthful, Recoverable, Ordered, NotStarted, NoHandoff, PredecessorFenced,
     AuthorityTransferred, PredecessorRetired
<1>8. Kernel(e, s, t)
  BY <1>4, <1>6, <1>7, SavedIsKernel
<1>9. Course(e, e.pc, e.data, s, t)
  BY <1>4 DEF Course
<1>10. QED
  BY <1>1, <1>8, <1>9 DEF Tame

\* The start of begin_handoff.
LEMMA BeginIsTame ==
    ASSUME NEW c, Base(c), NEW s, NEW t, Kernel(c, s, t), c.rounds = 0, c.mem.phase = NoHandoff
    PROVE  Tame(Begin(c), s, t)
<1> DEFINE d == ApplyAction(c, "Start")
<1>1. CASE Accepts(c, "Start")
  <2>1. Base(d) /\ Kernel(d, s, t) /\ d.rounds = 0 /\ d.mem.phase = NoHandoff /\ d.mem.camp = "Running"
    BY <1>1, ApplyActionIsTame
  <2> HIDE DEF d
  <2>2. Tame(Bind(d, "begin"), s, t)
    BY <2>1, BindIsTame
  <2>3. QED
    BY <1>1, <2>2 DEF Begin, d
<1>2. CASE ~Accepts(c, "Start")
  BY <1>2, IdleIsTame DEF Begin
<1>3. QED
  BY <1>1, <1>2

\* The snapshot has been installed.
LEMMA InstalledIsTame ==
    ASSUME NEW c, Base(c), Len(c.data.doc) \in Nat, NEW s, NEW t, Kernel(c, s, t), c.mem.phase < PredecessorFenced
    PROVE  Tame(Installed(c), s, t)
<1> DEFINE d == [c EXCEPT !.mem.lsn = Len(c.data.doc)]
           e == RecordPhase(d, SnapshotSynchronized)
<1>1. Beside(c, d)
  BY LsnBeside
<1>2. Installed(c) = CatchUpRound(e) \/ Installed(c) = Idle(e)
  BY DEF Installed
<1> HIDE DEF d
<1>3. Base(d) /\ Kernel(d, s, t) /\ d.mem.phase < PredecessorFenced
  BY <1>1, BesideKeepsKernel DEF Beside, Equal
<1>4. Base(e) /\ Kernel(e, s, t) /\ e.mem.phase < PredecessorFenced
  <2> USE DEF SnapshotSynchronized, Prepared, PredecessorRetired, PredecessorFenced, AuthorityTransferred
  <2>1. Base(e)
    BY <1>3, RecordPhaseIs
  <2>2. Kernel(e, s, t) /\ e.mem.phase \in {d.mem.phase, SnapshotSynchronized}
    BY <1>3, RecordPhaseIsTame
  <2>3. QED
    BY <1>3, <2>1, <2>2
<1> HIDE DEF e
<1>5. QED
  BY <1>2, <1>4, CatchUpRoundIsTame, IdleIsTame

\* What advance_catch_up does with the records it read.
LEMMA CatchUpReadIsTame ==
    ASSUME NEW c, Base(c), NEW body, NEW s, NEW t, Kernel(c, s, t), c.mem.phase < PredecessorFenced
    PROVE  Tame(CatchUpRead(c, body), s, t)
<1> DEFINE d == [c EXCEPT !.refreshes = c.refreshes + 1]
           b == [binding |-> SourceClaim(c), batch |-> body]
<1>1. CatchUpRead(c, body) \in {Idle(c), SnapshotStep(d), Goto(c, "catchup.src", 0), Goto(c, "catchup.apply", b)}
  BY DEF CatchUpRead
<1>2. Base(d) /\ d.mem = c.mem /\ d.disk = c.disk
  BY DEF Base, CtlField
<1> HIDE DEF b, d
<1>3. Kernel(d, s, t)
  BY <1>2 DEF Kernel
<1>4. QED
  BY <1>1, <1>2, <1>3, IdleIsTame, SnapshotStepIsTame, EarlyIsTame DEF Early

\* The end of advance_catch_up.
LEMMA CaughtUpWithIsTame ==
    ASSUME NEW c, Base(c), Real(c.src), NEW s, NEW t, Kernel(c, s, t), c.mem.phase < PredecessorFenced
    PROVE  Tame(CaughtUpWith(c), s, t)
<1> DEFINE d == [c EXCEPT !.mem.lsn = c.src.lsn]
<1>1. Beside(c, d)
  BY LsnBeside DEF Real
<1>2. CaughtUpWith(c) \in {Idle(c), Goto(d, "catchup.migrate", 0), Idle(RecordPhase(d, CaughtUp))}
  BY DEF CaughtUpWith
<1> HIDE DEF d
<1>3. Base(d) /\ Kernel(d, s, t) /\ d.mem.phase < PredecessorFenced
  BY <1>1, BesideKeepsKernel DEF Beside, Equal
<1>4. Tame(Idle(RecordPhase(d, CaughtUp)), s, t)
  BY <1>3, RecordPhaseIsTame DEF CaughtUp, Prepared, PredecessorRetired, PredecessorFenced, AuthorityTransferred
<1>5. QED
  BY <1>2, <1>3, <1>4, IdleIsTame, EarlyIsTame DEF Early

----------------------------------------------------------------------------
(* Every step keeps it *)

\* What the steps have to keep: the invariant, and that a source that has stopped stays so.
Kept == SafetyInv' /\ (Stopped(nodes["source"]) => Stopped(nodes["source"])')

\* Components that are what they were, as far as authority and documents go.
LEMMA SameIsKept ==
    ASSUME NEW s, NEW t, NEW u, NEW v, Same(s, u), Same(t, v)
    PROVE  /\ \A c : Kernel(c, s, t) => Kernel(c, u, v)
           /\ \A c, pc, data : Course(c, pc, data, s, t) => Course(c, pc, data, u, v)
           /\ \A ak : Preserved(s, t, ak) => Preserved(u, v, ak)
           /\ Stopped(s) <=> Stopped(u)
<1>1. Stopped(s) <=> Stopped(u)
  BY DEF Same, Stopped
<1>2. \A m : Truthful(m, s, t) => Truthful(m, u, v)
  BY <1>1 DEF Same, Truthful
<1>3. \A c : Kernel(c, s, t) => Kernel(c, u, v)
  BY <1>2 DEF Kernel
<1>4. ASSUME NEW c, NEW pc, NEW data, Course(c, pc, data, s, t) PROVE Course(c, pc, data, u, v)
  <2>1. (SourceKnown(c, s) <=> SourceKnown(c, u)) /\ (TargetKnown(c, t) <=> TargetKnown(c, v))
    BY <1>1 DEF SourceKnown, TargetKnown, Same
  <2>2. \A left : Finishing(c, left, s, t) <=> Finishing(c, left, u, v)
    BY DEF Finishing, Same
  <2>3. u.doc = s.doc /\ u.base = s.base /\ v.doc = t.doc /\ v.confirmed = t.confirmed
    BY DEF Same
  <2>4. QED
    BY <1>4, <2>1, <2>2, <2>3 DEF Course
<1>5. ASSUME NEW ak, Preserved(s, t, ak) PROVE Preserved(u, v, ak)
  BY <1>5 DEF Preserved, Same, Contents
<1>6. QED
  BY <1>1, <1>3, <1>4, <1>5

\* The controller and the components, one by one.
LEMMA SafetyIs ==
    ASSUME EvolutionInv, SafetyInv
    PROVE  /\ Base(ctl) /\ Stage(ctl, ctl.pc, ctl.data, SourceDoc) /\ now \in Nat
           /\ Kernel(ctl, nodes["source"], nodes["target"])
           /\ Course(ctl, ctl.pc, ctl.data, nodes["source"], nodes["target"])
           /\ Preserved(nodes["source"], nodes["target"], acked)
           /\ NodeOK(nodes["source"]) /\ NodeOK(nodes["target"]) /\ DOMAIN nodes = Component
           /\ late = {}
BY ControllerIs, NowIsNat DEF SafetyInv, Tame, EvolutionInv, NodesInv

\* A call that changes nothing but what a component has saved or expects.
LEMMA ReadingIsQuiet ==
    ASSUME EvolutionInv, SafetyInv, NEW req, req.to \in Component, req.op \in Readers, Exchange(req)
    PROVE  LET u == nodes'["source"]
               v == nodes'["target"]
           IN  /\ Kernel(ctl, u, v) /\ Course(ctl, ctl.pc, ctl.data, u, v) /\ Preserved(u, v, acked)
               /\ Same(nodes["source"], u) /\ Same(nodes["target"], v)
               /\ Tame(Idle(ctl), u, v) /\ Tame(Reopened(ctl), u, v)
<1> DEFINE s == nodes["source"]
           t == nodes["target"]
           u == nodes'["source"]
           v == nodes'["target"]
           n == nodes[req.to]
           m == Executed(req).node
<1>1. /\ Base(ctl) /\ Kernel(ctl, s, t) /\ Course(ctl, ctl.pc, ctl.data, s, t) /\ Preserved(s, t, acked)
      /\ NodeOK(s) /\ NodeOK(t) /\ DOMAIN nodes = Component
  BY SafetyIs
<1>2. Same(n, m)
  BY IncarnationExists, ReadersRead DEF Executed
<1>3. Same(s, s) /\ Same(t, t)
  BY DEF Same
<1>4. nodes' \in {nodes, [nodes EXCEPT ![req.to] = m]}
  BY DEF Exchange
<1> HIDE DEF m
<1>5. u \in {s, IF req.to = "source" THEN m ELSE s} /\ v \in {t, IF req.to = "target" THEN m ELSE t}
  BY <1>1, <1>4 DEF Component
<1>6. Same(s, u) /\ Same(t, v)
  BY <1>2, <1>3, <1>5
<1> HIDE DEF s, t, u, v
<1>7. Kernel(ctl, u, v) /\ Course(ctl, ctl.pc, ctl.data, u, v) /\ Preserved(u, v, acked)
  BY <1>1, <1>6, SameIsKept
<1>8. QED
  BY <1>1, <1>6, <1>7, IdleIsTame, ReopenedIsTame DEF s, t, u, v

\* What remains when the controller's next state is Tame.
LEMMA QuietIsKept ==
    ASSUME EvolutionInv, SafetyInv, NEW req, req.to \in Component, req.op \in Readers, Exchange(req), late' = {},
           Tame(ctl', nodes'["source"], nodes'["target"])
    PROVE  Kept
<1>1. Preserved(nodes'["source"], nodes'["target"], acked) /\ Same(nodes["source"], nodes'["source"])
  BY ReadingIsQuiet
<1>2. QED
  BY <1>1 DEF Kept, SafetyInv, Exchange, Same, Stopped

\* What a component reports about itself is so.
LEMMA StatusTells ==
    ASSUME MaxBoot = 1, EvolutionInv, NEW comp \in Component
    PROVE  LET b == Executed(StatusOf(comp)).body
           IN  /\ b.inc = [comp |-> comp, boot |-> 1]
               /\ b.life = nodes[comp].life /\ b.lsn = Len(nodes[comp].doc)
               /\ b.hasAuthority => nodes[comp].confirmed
<1>1. StatusOf(comp).op = "status" /\ StatusOf(comp).to = comp
  BY DEF StatusOf
<1>2. Executed(StatusOf(comp)).body = Report(nodes[comp], IncarnationOf(comp), now)
  BY <1>1 DEF Executed, Dispatch, Ok
<1>3. nodes[comp].boot = 1
  <2>1. NodeOK(nodes[comp])
    BY IncarnationExists
  <2>2. nodes[comp].boot \in 1..MaxBoot
    BY <2>1 DEF NodeOK
  <2>3. QED
    BY <2>2
<1> DEFINE n == nodes[comp]
           b == Report(n, IncarnationOf(comp), now)
<1>4. IncarnationOf(comp) = [comp |-> comp, boot |-> 1]
  BY <1>3 DEF IncarnationOf
<1>5. b.inc = IncarnationOf(comp) /\ b.life = n.life /\ b.lsn = Len(n.doc) /\ b.hasAuthority = HasAuthority(n, now)
  BY DEF Report, Lsn
<1>6. HasAuthority(n, now) => n.confirmed
  BY DEF HasAuthority
<1> HIDE DEF n, b
<1>7. QED
  BY <1>2, <1>4, <1>5, <1>6 DEF n, b

\* The reports every operation starts with.
LEMMA ReportsAreSafe ==
    ASSUME Steady, EvolutionInv, SafetyInv, SourceReport \/ TargetReport
    PROVE  Kept
<1> DEFINE u == nodes'["source"]
           v == nodes'["target"]
<1>1. Base(ctl) /\ MaxBoot = 1 /\ now \in Nat
  BY SafetyIs DEF Steady
<1>2. CASE SourceReport
  <2> DEFINE req == StatusOf("source")
             b == Executed(req).body
             d == [ctl EXCEPT !.src = b]
  <2>1. Exchange(req) /\ late' = {} /\ ctl' \in {Goto(d, "report.tgt", 0), Unbound(ctl), Reopened(ctl)}
    BY <1>2 DEF SourceReport, Call, Exchange, Steady, SafetyInv
  <2>2. /\ Base(d) /\ d.mem = ctl.mem /\ d.disk = ctl.disk /\ d.op = ctl.op /\ d.rounds = ctl.rounds /\ d.src = b
    BY <1>1 DEF Base, CtlField
  <2>3. req.to \in Component /\ req.op \in Readers
    BY DEF StatusOf, Component, Readers
  <2>4. b.inc = SourceInc /\ b.life = nodes["source"].life
    BY <1>1, StatusTells DEF Component, SourceInc
  <2>5. ctl.pc = "report.src"
    BY <1>2 DEF SourceReport, At
  <2> HIDE DEF req, b, d
  <2>6. /\ Kernel(ctl, u, v) /\ Course(ctl, ctl.pc, ctl.data, u, v) /\ Same(nodes["source"], u)
        /\ Tame(Reopened(ctl), u, v)
    BY <2>1, <2>3, ReadingIsQuiet
  <2> HIDE DEF u, v
  <2>7. Purposeful(ctl) /\ (ctl.op = "begin" => ctl.mem.phase = NoHandoff)
    BY <2>5, <2>6 DEF Course
  <2>8. Purposeful(d) /\ SourceKnown(d, u) /\ Kernel(d, u, v)
    BY <2>2, <2>4, <2>6, <2>7 DEF Purposeful, SourceKnown, Kernel, Same, Stopped
  <2>9. Course(d, "report.tgt", 0, u, v)
    BY <2>2, <2>7, <2>8 DEF Course
  <2>10. Tame(Goto(d, "report.tgt", 0), u, v)
    BY <2>2, <2>8, <2>9, GotoIsTame
  <2>11. Tame(Unbound(ctl), u, v)
    BY <1>1, <2>6, <2>7, UnboundIsTame
  <2>12. Tame(ctl', u, v)
    BY <2>1, <2>6, <2>10, <2>11
  <2>13. QED
    BY <2>1, <2>3, <2>12, QuietIsKept DEF u, v
<1>3. CASE TargetReport
  <2> DEFINE req == StatusOf("target")
             b == Executed(req).body
             d == [ctl EXCEPT !.tgt = b]
  <2>1. Exchange(req) /\ late' = {} /\ ctl' \in {Bound(d), Unbound(ctl), Reopened(ctl)}
    BY <1>3 DEF TargetReport, Call, Exchange, Given, Steady, SafetyInv
  <2>2. /\ Base(d) /\ d.mem = ctl.mem /\ d.disk = ctl.disk /\ d.op = ctl.op /\ d.rounds = ctl.rounds
        /\ d.src = ctl.src /\ d.tgt = b
    BY <1>1 DEF Base, CtlField
  <2>3. req.to \in Component /\ req.op \in Readers
    BY DEF StatusOf, Component, Readers
  <2>4. b.inc = TargetInc /\ (b.hasAuthority => nodes["target"].confirmed) /\ Real(b)
    BY <1>1, StatusTells, StatusIs DEF Component, TargetInc
  <2>5. ctl.pc = "report.tgt"
    BY <1>3 DEF TargetReport, At
  <2>6. Reporting(ctl) /\ Real(ctl.src)
    BY <2>5, ControllerIs DEF Stage
  <2> HIDE DEF req, b, d
  <2>7. /\ Kernel(ctl, u, v) /\ Course(ctl, ctl.pc, ctl.data, u, v) /\ Same(nodes["target"], v)
        /\ Tame(Reopened(ctl), u, v)
    BY <2>1, <2>3, ReadingIsQuiet
  <2> HIDE DEF u, v
  <2>8. Purposeful(ctl) /\ (ctl.op = "begin" => ctl.mem.phase = NoHandoff) /\ SourceKnown(ctl, u)
    BY <2>5, <2>7 DEF Course
  <2>9. Minded(d, u, v) /\ Kernel(d, u, v) /\ Reporting(d)
    BY <2>2, <2>4, <2>6, <2>7, <2>8 DEF Minded, Purposeful, SourceKnown, TargetKnown, Kernel, Same, Reporting
  <2>10. Tame(Bound(d), u, v)
    BY <1>1, <2>2, <2>4, <2>6, <2>8, <2>9, BoundIsTame
  <2>11. Tame(Unbound(ctl), u, v)
    BY <1>1, <2>7, <2>8, UnboundIsTame
  <2>12. Tame(ctl', u, v)
    BY <2>1, <2>7, <2>10, <2>11
  <2>13. QED
    BY <2>1, <2>3, <2>12, QuietIsKept DEF u, v
<1>4. QED
  BY <1>2, <1>3

\* What remains of a call when the controller's next state is Tame.
LEMMA CallIsKept ==
    ASSUME NEW req, Exchange(req), late' = {}, Tame(ctl', nodes'["source"], nodes'["target"]),
           Preserved(nodes'["source"], nodes'["target"], acked),
           Stopped(nodes["source"]) => Stopped(nodes'["source"])
    PROVE  Kept
BY DEF Kept, SafetyInv, Exchange, Stopped

\* Before the fence.
LEMMA EarlyIsBefore ==
    ASSUME SafetyInv, ctl.pc \in Early
    PROVE  ctl.mem.phase < PredecessorFenced /\ ~nodes["target"].confirmed
<1>1. ctl.mem.phase < PredecessorFenced
  BY DEF SafetyInv, Tame, Course, Early
<1>2. ctl.mem.phase \in NoHandoff..PredecessorRetired /\ (nodes["target"].confirmed => ctl.mem.phase >= PredecessorFenced)
  BY DEF SafetyInv, Tame, Kernel, Ordered, Truthful
<1>3. QED
  BY <1>1, <1>2 DEF NoHandoff, PredecessorFenced, PredecessorRetired

\* A request that fills the target's document while it does not serve.
LEMMA FillingIsQuiet ==
    ASSUME EvolutionInv, SafetyInv, NEW req, req.to = "target", req.op \in TargetOnly, Proper(req, SourceDoc),
           Exchange(req), Enough => ~nodes["target"].confirmed
    PROVE  LET u == nodes'["source"]
               v == nodes'["target"]
           IN  /\ u = nodes["source"] /\ v \in {nodes["target"], Executed(req).node}
               /\ v.confirmed = nodes["target"].confirmed
               /\ Kernel(ctl, u, v) /\ Preserved(u, v, acked)
               /\ Tame(Idle(ctl), u, v) /\ Tame(Reopened(ctl), u, v)
<1> DEFINE s == nodes["source"]
           t == nodes["target"]
           m == Executed(req).node
           u == nodes'["source"]
           v == nodes'["target"]
<1>1. /\ Base(ctl) /\ Kernel(ctl, s, t) /\ Preserved(s, t, acked)
      /\ NodeOK(s) /\ NodeOK(t) /\ DOMAIN nodes = Component
  BY SafetyIs
<1>2. m.life = t.life /\ m.confirmed = t.confirmed /\ (Copy(t.doc, s.doc) => Copy(m.doc, s.doc))
  <2>1. IncarnationOf("target") \in Incarnation
    BY IncarnationExists DEF Component
  <2>2. m = Dispatch(t, IncarnationOf("target"), req, now).node
    BY DEF Executed
  <2>3. QED
    BY <1>1, <2>1, <2>2, FillersCopy DEF SourceDoc
<1>3. nodes' \in {nodes, [nodes EXCEPT !["target"] = m]}
  BY DEF Exchange
<1> HIDE DEF m
<1>4. u = s /\ v \in {t, m}
  BY <1>1, <1>3 DEF Component
<1> HIDE DEF s, t, u, v
<1>5. v.life = t.life /\ v.confirmed = t.confirmed /\ (Copy(t.doc, s.doc) => Copy(v.doc, s.doc))
  BY <1>2, <1>4
<1>6. Kernel(ctl, u, v)
  <2>1. Truthful(ctl.mem, s, v)
    BY <1>1, <1>5 DEF Kernel, Truthful
  <2>2. QED
    BY <1>1, <1>4, <2>1 DEF Kernel
<1>7. Preserved(s, v, acked)
  BY <1>1, <1>5 DEF Preserved, t
<1>8. QED
  BY <1>1, <1>4, <1>5, <1>6, <1>7, IdleIsTame, ReopenedIsTame DEF s, t, m, u, v

\* Preparation and the snapshot.
LEMMA SnapshotIsSafe ==
    ASSUME Steady, EvolutionInv, SafetyInv,
           PreparePred \/ PrepareSucc \/ SnapshotPrepare \/ SnapshotTake \/ SnapshotInstall
    PROVE  Kept
<1> DEFINE u == nodes'["source"]
           v == nodes'["target"]
<1>1. Base(ctl) /\ Stage(ctl, ctl.pc, ctl.data, SourceDoc)
  BY SafetyIs
<1>2. ctl.mem.phase < PredecessorFenced /\ ~nodes["target"].confirmed
  BY EarlyIsBefore DEF PreparePred, PrepareSucc, SnapshotPrepare, SnapshotTake, SnapshotInstall, At, Early
<1>3. ASSUME NEW req, req.to \in Component, req.op \in Readers, Exchange(req), late' = {},
             \/ ctl' \in {Idle(ctl), Reopened(ctl), Idle(RecordPhase(ctl, Prepared))}
             \/ \E pc \in Early : \E data : ctl' = Goto(ctl, pc, data)
      PROVE  Kept
  <2>1. Kernel(ctl, u, v) /\ Tame(Idle(ctl), u, v) /\ Tame(Reopened(ctl), u, v)
    BY <1>3, ReadingIsQuiet
  <2> HIDE DEF u, v
  <2>2. Tame(Idle(RecordPhase(ctl, Prepared)), u, v)
    BY <1>1, <2>1, RecordPhaseIsTame DEF Prepared, PredecessorFenced, AuthorityTransferred, PredecessorRetired
  <2>3. \A pc \in Early : \A data : Tame(Goto(ctl, pc, data), u, v)
    BY <1>1, <1>2, <2>1, EarlyIsTame
  <2>4. Tame(ctl', u, v)
    BY <1>3, <2>1, <2>2, <2>3
  <2>5. QED
    BY <1>3, <2>4, QuietIsKept DEF u, v
<1> USE DEF Call, Exchange, Steady, SafetyInv
<1>4. CASE PreparePred
  <2> DEFINE req == [to |-> "source", op |-> "prepare_source"]
  <2>1. Exchange(req) /\ late' = {} /\ ctl' \in {Goto(ctl, "prepare.succ", ctl.data), Idle(ctl), Reopened(ctl)}
    BY <1>4 DEF PreparePred
  <2>2. req.to \in Component /\ req.op \in Readers
    BY DEF Component, Readers
  <2> HIDE DEF req
  <2>3. QED
    BY <1>3, <2>1, <2>2 DEF Early
<1>5. CASE PrepareSucc
  <2> DEFINE req == [to |-> "target", op |-> "prepare_target", binding |-> ctl.data]
  <2>1. Exchange(req) /\ late' = {} /\ ctl' \in {Idle(RecordPhase(ctl, Prepared)), Idle(ctl), Reopened(ctl)}
    BY <1>5 DEF PrepareSucc
  <2>2. req.to \in Component /\ req.op \in Readers
    BY DEF Component, Readers
  <2> HIDE DEF req
  <2>3. QED
    BY <1>3, <2>1, <2>2
<1>6. CASE SnapshotPrepare
  <2> DEFINE req == [to |-> "target", op |-> "prepare_target", binding |-> ctl.data]
  <2>1. Exchange(req) /\ late' = {} /\ ctl' \in {Goto(ctl, "snapshot.take", 0), Idle(ctl), Reopened(ctl)}
    BY <1>6 DEF SnapshotPrepare
  <2>2. req.to \in Component /\ req.op \in Readers
    BY DEF Component, Readers
  <2> HIDE DEF req
  <2>3. QED
    BY <1>3, <2>1, <2>2 DEF Early
<1>7. CASE SnapshotTake
  <2> DEFINE req == [to |-> "source", op |-> "snapshot"]
             b == Executed(req).body
  <2>1. Exchange(req) /\ late' = {} /\ ctl' \in {Goto(ctl, "snapshot.install", b), Idle(ctl), Reopened(ctl)}
    BY <1>7 DEF SnapshotTake
  <2>2. req.to \in Component /\ req.op \in Readers
    BY DEF Component, Readers
  <2> HIDE DEF req, b
  <2>3. QED
    BY <1>3, <2>1, <2>2 DEF Early
<1>8. CASE SnapshotInstall
  <2> DEFINE req == [to |-> "target", op |-> "install_snapshot", snapshot |-> ctl.data]
  <2>1. Exchange(req) /\ late' = {} /\ ctl' \in {Installed(ctl), Idle(ctl), Reopened(ctl)}
    BY <1>8 DEF SnapshotInstall
  <2>2. Copy(ctl.data.doc, SourceDoc)
    BY <1>1, <1>8 DEF SnapshotInstall, At, Stage
  <2>3. req.to = "target" /\ req.op \in TargetOnly /\ Proper(req, SourceDoc)
    BY <2>2 DEF Proper, TargetOnly
  <2>4. Len(ctl.data.doc) \in Nat
    BY <2>2 DEF Copy
  <2> HIDE DEF req
  <2>5. /\ u = nodes["source"] /\ Kernel(ctl, u, v) /\ Preserved(u, v, acked)
        /\ Tame(Idle(ctl), u, v) /\ Tame(Reopened(ctl), u, v)
    BY <1>2, <2>1, <2>3, FillingIsQuiet
  <2> HIDE DEF u, v
  <2>6. Tame(ctl', u, v)
    BY <1>1, <1>2, <2>1, <2>4, <2>5, InstalledIsTame
  <2>7. QED
    BY <2>1, <2>5, <2>6, CallIsKept DEF u, v
<1>9. QED
  BY <1>4, <1>5, <1>6, <1>7, <1>8

\* Catch-up, migration and readiness.
LEMMA CatchUpIsSafe ==
    ASSUME Steady, EvolutionInv, SafetyInv,
           CatchUpFetch \/ CatchUpApply \/ CatchUpSource \/ CatchUpTarget \/ CatchUpMigrate \/ VerifyReadiness
    PROVE  Kept
<1> DEFINE u == nodes'["source"]
           v == nodes'["target"]
<1>1. Base(ctl) /\ Stage(ctl, ctl.pc, ctl.data, SourceDoc)
  BY SafetyIs
<1>2. ctl.mem.phase < PredecessorFenced /\ ~nodes["target"].confirmed
  BY EarlyIsBefore
     DEF CatchUpFetch, CatchUpApply, CatchUpSource, CatchUpTarget, CatchUpMigrate, VerifyReadiness, At, Early
<1>3. ASSUME NEW req, req.to \in Component, req.op \in Readers, Exchange(req), late' = {}, NEW after,
             ctl' \in {Idle(ctl), Reopened(ctl), after},
             Kernel(ctl, u, v) => Tame(after, u, v)
      PROVE  Kept
  <2>1. Kernel(ctl, u, v) /\ Tame(Idle(ctl), u, v) /\ Tame(Reopened(ctl), u, v)
    BY <1>3, ReadingIsQuiet
  <2>2. Tame(ctl', u, v)
    BY <1>3, <2>1
  <2>3. QED
    BY <1>3, <2>2, QuietIsKept
<1>4. ASSUME NEW req, req.to = "target", req.op \in TargetOnly, Proper(req, SourceDoc), Exchange(req), late' = {},
             NEW after, ctl' \in {Idle(ctl), Reopened(ctl), after},
             Kernel(ctl, u, v) => Tame(after, u, v)
      PROVE  Kept
  <2>1. /\ u = nodes["source"] /\ Kernel(ctl, u, v) /\ Preserved(u, v, acked)
        /\ Tame(Idle(ctl), u, v) /\ Tame(Reopened(ctl), u, v)
    BY <1>2, <1>4, FillingIsQuiet
  <2>2. Tame(ctl', u, v)
    BY <1>4, <2>1
  <2>3. QED
    BY <1>4, <2>1, <2>2, CallIsKept
<1>6. ASSUME NEW c, Beside(ctl, c), Kernel(ctl, u, v) PROVE Base(c) /\ Kernel(c, u, v) /\ c.mem.phase < PredecessorFenced
  BY <1>2, <1>6, BesideKeepsKernel DEF Beside, Equal
<1> HIDE DEF u, v
<1>7. CASE CatchUpFetch
  <2> DEFINE req == [to |-> "source", op |-> "read_since", from |-> ctl.mem.lsn]
             b == Executed(req).body
  <2>1. Exchange(req) /\ late' = {} /\ ctl' \in {Idle(ctl), Reopened(ctl), CatchUpRead(ctl, b)}
    BY <1>7 DEF CatchUpFetch, Call, Exchange, Steady, SafetyInv
  <2>2. req.to \in Component /\ req.op \in Readers
    BY DEF Component, Readers
  <2> HIDE DEF req, b
  <2>3. Kernel(ctl, u, v) => Tame(CatchUpRead(ctl, b), u, v)
    BY <1>1, <1>2, CatchUpReadIsTame
  <2>4. QED
    BY <1>3, <2>1, <2>2, <2>3
<1>8. CASE CatchUpApply
  <2> DEFINE req == ApplyTo("target", ctl)
             r == Executed(req)
             d == [ctl EXCEPT !.mem.lsn = r.body]
             after == IF r.body <= ctl.mem.lsn THEN Goto(ctl, "catchup.src", 0) ELSE CatchUpRound(d)
  <2>1. Exchange(req) /\ late' = {} /\ (ctl' \in {Idle(ctl), Reopened(ctl)} \/ (r.ok /\ ctl' = after))
    BY <1>8 DEF CatchUpApply, Call, Exchange, Steady, SafetyInv
  <2>2. req.to = "target" /\ req.op \in TargetOnly /\ Proper(req, SourceDoc) /\ req.op = "apply_records"
    BY <1>1, <1>8 DEF CatchUpApply, At, Stage, ApplyTo, Proper, TargetOnly
  <2> HIDE DEF req
  <2>3. r.ok => r.body \in Nat
    BY <2>2, AnswerIs DEF Component
  <2> HIDE DEF r
  <2>4. r.ok => Beside(ctl, d)
    BY <1>1, <2>3, LsnBeside
  <2> HIDE DEF d
  <2>5. ASSUME Kernel(ctl, u, v), r.ok PROVE Tame(after, u, v)
    <3>1. Tame(CatchUpRound(d), u, v)
      BY <1>6, <2>4, <2>5, CatchUpRoundIsTame
    <3>2. Tame(Goto(ctl, "catchup.src", 0), u, v)
      BY <1>1, <1>2, <2>5, EarlyIsTame DEF Early
    <3>3. QED
      BY <3>1, <3>2
  <2> HIDE DEF after
  <2>6. CASE r.ok
    BY <1>4, <2>1, <2>2, <2>5, <2>6
  <2>7. CASE ~r.ok
    <3>1. ctl' \in {Idle(ctl), Reopened(ctl), Idle(ctl)} /\ (Kernel(ctl, u, v) => Tame(Idle(ctl), u, v))
      BY <1>1, <2>1, <2>7, IdleIsTame
    <3>2. QED
      BY <1>4, <2>1, <2>2, <3>1
  <2>8. QED
    BY <2>6, <2>7
<1>9. CASE CatchUpSource
  <2> DEFINE req == StatusOf("source")
             d == [ctl EXCEPT !.src = Executed(req).body]
  <2>1. Exchange(req) /\ late' = {} /\ ctl' \in {Idle(ctl), Reopened(ctl), Goto(d, "catchup.tgt", 0)}
    BY <1>9 DEF CatchUpSource, Call, Exchange, Steady, SafetyInv
  <2>2. req.to \in Component /\ req.op \in Readers
    BY DEF StatusOf, Component, Readers
  <2>3. Base(d) /\ d.mem = ctl.mem /\ d.disk = ctl.disk
    BY <1>1 DEF Base, CtlField
  <2> HIDE DEF d, req
  <2>4. Kernel(ctl, u, v) => Kernel(d, u, v)
    BY <2>3 DEF Kernel
  <2>5. Kernel(ctl, u, v) => Tame(Goto(d, "catchup.tgt", 0), u, v)
    BY <1>2, <2>3, <2>4, EarlyIsTame DEF Early
  <2>6. QED
    BY <1>3, <2>1, <2>2, <2>5
<1>10. CASE CatchUpTarget
  <2> DEFINE req == StatusOf("target")
             d == [ctl EXCEPT !.tgt = Executed(req).body]
  <2>1. Exchange(req) /\ late' = {} /\ ctl' \in {Idle(ctl), Reopened(ctl), CaughtUpWith(d)}
    BY <1>10 DEF CatchUpTarget, Call, Exchange, Steady, SafetyInv
  <2>2. req.to \in Component /\ req.op \in Readers
    BY DEF StatusOf, Component, Readers
  <2>3. Base(d) /\ d.mem = ctl.mem /\ d.disk = ctl.disk /\ d.src = ctl.src
    BY <1>1 DEF Base, CtlField
  <2>4. Real(ctl.src)
    BY <1>1, <1>10 DEF CatchUpTarget, At, Stage
  <2> HIDE DEF d, req
  <2>5. Kernel(ctl, u, v) => Kernel(d, u, v)
    BY <2>3 DEF Kernel
  <2>6. Kernel(ctl, u, v) => Tame(CaughtUpWith(d), u, v)
    BY <1>2, <2>3, <2>4, <2>5, CaughtUpWithIsTame
  <2>7. QED
    BY <1>3, <2>1, <2>2, <2>6
<1>11. CASE CatchUpMigrate
  <2> DEFINE req == [to |-> "target", op |-> "migrate"]
             m == [ctl.mem EXCEPT !.crossed = ctl.mem.crossed \/ ctl.irreversible]
             d == [ctl EXCEPT !.mem = m]
  <2>1. Exchange(req) /\ late' = {} /\ ctl' \in {Idle(ctl), Reopened(ctl), Idle(RecordPhase(d, CaughtUp))}
    BY <1>11 DEF CatchUpMigrate, Call, Exchange, Steady, SafetyInv
  <2>2. req.to = "target" /\ req.op \in TargetOnly /\ Proper(req, SourceDoc)
    BY DEF Proper, TargetOnly
  <2>3. MemOK(m) /\ Equal(m, ctl.mem)
    BY <1>1 DEF Base, MemOK, MemField, Equal
  <2> HIDE DEF m
  <2>4. Beside(ctl, d)
    BY <1>1, <2>3, MemoryBeside
  <2> HIDE DEF d, req
  <2>5. ASSUME Kernel(ctl, u, v) PROVE Tame(Idle(RecordPhase(d, CaughtUp)), u, v)
    <3>1. Base(d) /\ Kernel(d, u, v)
      BY <1>6, <2>4, <2>5
    <3>2. QED
      BY <3>1, RecordPhaseIsTame DEF Prepared, CaughtUp, PredecessorFenced, AuthorityTransferred, PredecessorRetired
  <2>6. QED
    BY <1>4, <2>1, <2>2, <2>5
<1>12. CASE VerifyReadiness
  <2> DEFINE req == [to |-> "target", op |-> "readiness", lsn |-> ctl.mem.lsn]
             r == Executed(req)
             d == [ctl EXCEPT !.mem.lsn = r.body.lsn]
             after == IF r.ok THEN Idle(RecordPhase(d, ReadinessVerified)) ELSE Idle(ctl)
  <2>1. Exchange(req) /\ late' = {} /\ ctl' \in {Idle(ctl), Reopened(ctl), after}
    BY <1>12 DEF VerifyReadiness, Call, Exchange, Steady, SafetyInv
  <2>2. req.to \in Component /\ req.op \in Readers /\ req.op = "readiness" /\ Proper(req, SourceDoc)
    BY DEF Component, Readers, Proper, TargetOnly
  <2> HIDE DEF req
  <2>3. r.ok => r.body.lsn \in Nat
    BY <2>2, AnswerIs
  <2> HIDE DEF r
  <2>4. r.ok => Beside(ctl, d)
    BY <1>1, <2>3, LsnBeside
  <2> HIDE DEF d
  <2>5. ASSUME Kernel(ctl, u, v) PROVE Tame(after, u, v)
    <3>1. CASE ~r.ok
      BY <1>1, <2>5, <3>1, IdleIsTame
    <3>2. CASE r.ok
      <4>1. Base(d) /\ Kernel(d, u, v)
        BY <1>6, <2>4, <2>5, <3>2
      <4>2. QED
        BY <3>2, <4>1, RecordPhaseIsTame
           DEF Prepared, ReadinessVerified, PredecessorFenced, AuthorityTransferred, PredecessorRetired
    <3>3. QED
      BY <3>1, <3>2
  <2> HIDE DEF after
  <2>6. QED
    BY <1>3, <2>1, <2>2, <2>5
<1>13. QED
  BY <1>7, <1>8, <1>9, <1>10, <1>11, <1>12

\* ensure_holder_authority: whoever is granted authority is the one who may have it.
LEMMA EnsuringIsSafe ==
    ASSUME Steady, EvolutionInv, SafetyInv, EnsureRenew \/ EnsureReattest \/ EnsureDeliver
    PROVE  Kept
<1> DEFINE l == LeaseOf(ctl)
           s == nodes["source"]
           t == nodes["target"]
           u == nodes'["source"]
           v == nodes'["target"]
<1>1. /\ Base(ctl) /\ Stage(ctl, ctl.pc, ctl.data, SourceDoc) /\ now \in Nat /\ Kernel(ctl, s, t)
      /\ Course(ctl, ctl.pc, ctl.data, s, t) /\ Preserved(s, t, acked) /\ NodeOK(s) /\ NodeOK(t)
      /\ DOMAIN nodes = Component
  BY SafetyIs
<1>2. ctl.pc \in {"ensure.renew", "ensure.reattest", "ensure.deliver"}
  BY DEF EnsureRenew, EnsureReattest, EnsureDeliver, At
<1>3. Ensurable(ctl) /\ ctl.data \in DOMAIN ctl.mem.auth.leases /\ Sound(ctl.mem.auth) /\ MaxBoot = 1
  BY <1>1, <1>2 DEF Stage, Base, MemOK, Steady
<1>4. Minded(ctl, s, t) /\ Served(ctl.mem, l.holder)
  BY <1>1, <1>2 DEF Course, Minded, LeaseOf
<1>5. l.holder \in Incarnation /\ HolderOf(ctl) \in Component
  <2>1. l.holder \in Incarnation
    BY <1>3 DEF Sound, AuthorityOK, LeaseOf, Lease
  <2>2. l.holder.comp \in Component
    BY <2>1, EvolutionAssumption
  <2>3. QED
    BY <2>1, <2>2 DEF HolderOf
<1>6. ASSUME NEW req, req.to = HolderOf(ctl), req.op \in {"grant_authority", "reattest"}, Exchange(req)
      PROVE  /\ u.life = s.life /\ u.doc = s.doc /\ u.base = s.base
             /\ v.life = t.life /\ v.doc = t.doc /\ (v.confirmed <=> t.confirmed) /\ v.saved \in {t.saved, Len(t.doc)}
  <2> DEFINE n == nodes[HolderOf(ctl)]
             r == Executed(req)
             m == r.node
  <2>1. r = Dispatch(n, IncarnationOf(HolderOf(ctl)), req, now) /\ NodeOK(n)
    BY <1>5, <1>6, IncarnationExists DEF Executed
  <2>2. /\ m.doc = n.doc /\ m.base = n.base /\ m.saved \in {n.saved, Len(n.doc)} /\ (n.confirmed => m.confirmed)
        /\ m.life \in {n.life, "Serving"} /\ (n.life = "Retired" => m.life = "Retired")
    <3> DEFINE inc == IncarnationOf(HolderOf(ctl))
               e == Dispatch(n, inc, req, now)
    <3>1. r = e /\ m = e.node
      BY <2>1
    <3> HIDE DEF n, inc, r, m
    <3>2. CASE req.op = "grant_authority"
      <4>1. \/ n.life = "Retired" /\ ~e.ok /\ e.node = n
            \/ /\ e.ok /\ n.life # "Retired" /\ e.node.life = "Serving" /\ e.node.confirmed
               /\ e.node.saved = Len(n.doc) /\ e.node.doc = n.doc /\ e.node.base = n.base
        BY <2>1, <3>2, GrantServes
      <4> HIDE DEF e
      <4>2. QED
        BY <3>1, <4>1
    <3>3. CASE req.op = "reattest"
      <4>1. /\ e.node.life = n.life /\ e.node.doc = n.doc /\ e.node.base = n.base /\ e.node.saved = n.saved
            /\ e.node.confirmed \in {n.confirmed, TRUE}
        BY <2>1, <3>3, ReattestConfirms
      <4> HIDE DEF e
      <4>2. QED
        BY <3>1, <4>1
    <3>4. QED
      BY <1>6, <3>2, <3>3
  <2>3. nodes' \in {nodes, [nodes EXCEPT ![HolderOf(ctl)] = m]}
    BY <1>6 DEF Exchange
  <2> HIDE DEF m, r
  <2>4. u \in {s, IF HolderOf(ctl) = "source" THEN m ELSE s} /\ v \in {t, IF HolderOf(ctl) = "target" THEN m ELSE t}
    BY <1>1, <1>5, <2>3 DEF Component
  <2>5. CASE HolderOf(ctl) = "source"
    <3>1. l.holder = SourceInc
      BY <1>4, <2>5 DEF Served, HolderOf, TargetInc, SourceInc
    <3>2. ~Stopped(s) \/ s.life = "Retired"
      BY <1>1, <1>4, <3>1
         DEF Served, Kernel, Truthful, Ordered, SourceInc, TargetInc, NoHandoff, PredecessorFenced, PredecessorRetired
    <3>3. m.life = s.life
      BY <2>2, <2>5, <3>2 DEF Stopped
    <3>4. QED
      BY <2>2, <2>4, <2>5, <3>3
  <2>6. CASE HolderOf(ctl) = "target"
    <3>1. l.holder = TargetInc
      BY <1>4, <2>6 DEF Served, HolderOf, TargetInc, SourceInc
    <3>2. t.confirmed /\ t.life = "Serving"
      BY <1>1, <1>4, <3>1 DEF Served, Kernel, Truthful, SourceInc, TargetInc
    <3>3. QED
      BY <2>2, <2>4, <2>6, <3>2
  <2>7. QED
    BY <1>5, <2>5, <2>6 DEF Component
<1>7. ASSUME NEW req, req.to = HolderOf(ctl), req.op \in {"grant_authority", "reattest"}, Exchange(req)
      PROVE  /\ Kernel(ctl, u, v) /\ Minded(ctl, u, v) /\ Preserved(u, v, acked) /\ (Stopped(s) => Stopped(u))
  <2>1. /\ u.life = s.life /\ u.doc = s.doc /\ u.base = s.base
        /\ v.life = t.life /\ v.doc = t.doc /\ (v.confirmed <=> t.confirmed) /\ v.saved \in {t.saved, Len(t.doc)}
    BY <1>6, <1>7
  <2> HIDE DEF s, t, u, v
  <2>2. Stopped(s) <=> Stopped(u)
    BY <2>1 DEF Stopped
  <2>3. Truthful(ctl.mem, u, v)
    BY <1>1, <2>1, <2>2 DEF Kernel, Truthful
  <2>4. SourceKnown(ctl, u) /\ TargetKnown(ctl, v) /\ Purposeful(ctl)
    BY <1>4, <2>1, <2>2 DEF Minded, SourceKnown, TargetKnown
  <2>5. Preserved(u, v, acked)
    BY <1>1, <2>1 DEF Preserved, Contents
  <2>6. QED
    BY <1>1, <2>2, <2>3, <2>4, <2>5 DEF Kernel, Minded
<1> HIDE DEF s, t, u, v
<1>8. ASSUME NEW d, Beside(ctl, d), Kernel(ctl, u, v), Minded(ctl, u, v)
      PROVE  Base(d) /\ Ensurable(d) /\ Kernel(d, u, v) /\ Minded(d, u, v)
  <2>1. Base(d) /\ Kernel(d, u, v)
    BY <1>8, BesideKeepsKernel DEF Beside
  <2>2. d.op = ctl.op /\ d.src = ctl.src /\ d.tgt = ctl.tgt /\ d.rounds = ctl.rounds /\ Equal(d.mem, ctl.mem)
    BY <1>8 DEF Beside
  <2>3. Ensurable(d)
    BY <1>3, <2>2 DEF Ensurable, Reporting, Equal
  <2>4. Minded(d, u, v)
    BY <1>8, <2>2 DEF Minded, Purposeful, SourceKnown, TargetKnown, Equal
  <2>5. QED
    BY <2>1, <2>3, <2>4
<1>9. ASSUME NEW d, Beside(ctl, d), Kernel(ctl, u, v), Minded(ctl, u, v)
      PROVE  Tame(Ensured(d), u, v) /\ Tame(NotEnsured(d), u, v)
  BY <1>1, <1>3, <1>8, <1>9, EnsuredIsTame, NotEnsuredIsTame
<1>10. Beside(ctl, ctl) /\ Beside(ctl, Save(ctl))
  BY <1>1, SaveBeside DEF Beside, Equal
<1>11. Kernel(ctl, u, v) => Tame(Reopened(ctl), u, v)
  BY <1>1, ReopenedIsTame
<1>12. CASE EnsureRenew
  <2> DEFINE req == GrantTo(HolderOf(ctl), l)
  <2>1. Exchange(req) /\ late' = {} /\ ctl' \in {Ensured(Save(ctl)), NotEnsured(ctl), Reopened(ctl)}
    BY <1>12 DEF EnsureRenew, Call, Exchange, Steady, SafetyInv
  <2>2. req.to = HolderOf(ctl) /\ req.op \in {"grant_authority", "reattest"}
    BY DEF GrantTo
  <2> HIDE DEF req
  <2>3. /\ Kernel(ctl, u, v) /\ Minded(ctl, u, v) /\ Preserved(u, v, acked) /\ (Stopped(s) => Stopped(u))
    BY <1>7, <2>1, <2>2
  <2>4. Tame(ctl', u, v)
    BY <1>9, <1>10, <1>11, <2>1, <2>3
  <2>5. QED
    BY <2>1, <2>3, <2>4, CallIsKept DEF s, u, v
<1>13. CASE EnsureDeliver
  <2> DEFINE req == GrantTo(HolderOf(ctl), l)
  <2>1. Exchange(req) /\ late' = {} /\ ctl' \in {Ensured(Save(ctl)), NotEnsured(Revoked(ctl)), Reopened(ctl)}
    BY <1>13 DEF EnsureDeliver, Call, Exchange, Steady, SafetyInv
  <2>2. req.to = HolderOf(ctl) /\ req.op \in {"grant_authority", "reattest"}
    BY DEF GrantTo
  <2> HIDE DEF req
  <2>3. /\ Kernel(ctl, u, v) /\ Minded(ctl, u, v) /\ Preserved(u, v, acked) /\ (Stopped(s) => Stopped(u))
    BY <1>7, <2>1, <2>2
  <2>4. Beside(ctl, Revoked(ctl))
    BY <1>1, <1>3, RevokeKeepsSound, RevokeKeepsFences, LeasesBeside DEF Revoked
  <2>5. Tame(ctl', u, v)
    BY <1>9, <1>10, <1>11, <2>1, <2>3, <2>4
  <2>6. QED
    BY <2>1, <2>3, <2>5, CallIsKept DEF s, u, v
<1>14. CASE EnsureReattest
  <2> DEFINE req == [to |-> HolderOf(ctl), op |-> "reattest", token |-> l.token]
             r == ReattestResult(ctl.mem.auth, l.holder, l.token, now)
             a == SetAuth(ctl, r.auth)
             g == GrantThen(ctl, l.holder, "ensure.deliver", NotEnsured(ctl))
  <2>1. Exchange(req) /\ late' = {} /\ ctl' \in {Ensured(Save(a)), NotEnsured(a), g, Reopened(ctl)}
    BY <1>14 DEF EnsureReattest, Call, Exchange, Steady, SafetyInv
  <2>2. req.to = HolderOf(ctl) /\ req.op \in {"grant_authority", "reattest"}
    OBVIOUS
  <2> HIDE DEF req
  <2>3. /\ Kernel(ctl, u, v) /\ Minded(ctl, u, v) /\ Preserved(u, v, acked) /\ (Stopped(s) => Stopped(u))
    BY <1>7, <2>1, <2>2
  <2>4. Sound(r.auth) /\ r.auth.fences = ctl.mem.auth.fences
    BY <1>1, <1>3, ReattestKeepsSound, ReattestKeepsFences
  <2> HIDE DEF r
  <2>5. Beside(ctl, a)
    BY <1>1, <2>4, LeasesBeside
  <2> HIDE DEF a
  <2>6. Beside(ctl, Save(a))
    BY <2>5, SaveBeside, BesideIsTransitive DEF Beside
  <2>7. Tame(g, u, v)
    <3>1. /\ Base(NotEnsured(ctl)) /\ Tame(NotEnsured(ctl), u, v) /\ NotEnsured(ctl).pc = "idle"
          /\ NotEnsured(ctl).mem.auth = ctl.mem.auth
      BY <1>1, <1>3, <2>3, NotEnsuredIsTame
    <3>2. QED
      BY <1>1, <1>4, <1>5, <2>3, <3>1, GrantThenIsTame
  <2> HIDE DEF g
  <2>8. Tame(ctl', u, v)
    BY <1>9, <1>11, <2>1, <2>3, <2>5, <2>6, <2>7
  <2>9. QED
    BY <2>1, <2>3, <2>8, CallIsKept DEF s, u, v
<1>15. QED
  BY <1>12, <1>13, <1>14

\* Failed calls and restarts are counted.
Counted == faults.calls \in Nat /\ faults.crashes \in Nat

\* The fence: a predecessor that obeys it has stopped, while it is recorded as open.
LEMMA FenceIsSafe ==
    ASSUME Steady, EvolutionInv, SafetyInv, Counted, FencePredecessor
    PROVE  Kept
<1> DEFINE s == nodes["source"]
           t == nodes["target"]
           u == nodes'["source"]
           v == nodes'["target"]
           req == [to |-> "source", op |-> "fence", target |-> ctl.mem.pred, fence |-> ctl.data]
           r == Executed(req)
           m == r.node
           a == AcknowledgeFenceResult(ctl.mem.auth, ctl.mem.pred, ctl.data).auth
           d == Idle(RecordPhase(SetAuth(ctl, a), PredecessorFenced))
<1>1. /\ Base(ctl) /\ Kernel(ctl, s, t) /\ Course(ctl, ctl.pc, ctl.data, s, t) /\ Preserved(s, t, acked)
      /\ NodeOK(s) /\ NodeOK(t) /\ DOMAIN nodes = Component
  BY SafetyIs
<1>2. ctl.pc = "fence"
  BY DEF FencePredecessor, At
<1>3. /\ Exchange(req) /\ late' = {}
      /\ \/ r.ok /\ nodes' = [nodes EXCEPT !["source"] = m] /\ ctl' = d
         \/ ~r.ok /\ nodes' = [nodes EXCEPT !["source"] = m] /\ ctl' = Idle(Save(ctl))
         \/ ctl' = Idle(Save(ctl)) /\ faults.calls < MaxLosses
         \/ ctl' = Reopened(ctl) /\ faults.crashes < MaxCrashes
  BY DEF FencePredecessor, Call, Exchange, Steady, SafetyInv
<1>4. Unfailing => ~(faults.calls < MaxLosses) /\ ~(faults.crashes < MaxCrashes)
  <2>1. faults.calls \in Nat /\ faults.crashes \in Nat
    BY DEF Counted
  <2> DEFINE x == faults.calls
             y == faults.crashes
  <2> HIDE DEF x, y
  <2>2. x \in Nat /\ y \in Nat
    BY <2>1 DEF x, y
  <2>3. Unfailing => ~(x < MaxLosses) /\ ~(y < MaxCrashes)
    BY <2>2 DEF Unfailing
  <2>4. QED
    BY <2>3 DEF x, y
<1>5. ctl.mem.phase = ReadinessVerified /\ ctl.data \in Open(ctl.mem)
  BY <1>1, <1>2 DEF Course
<1>6. ctl.mem.pred = SourceInc /\ Sound(ctl.mem.auth)
  BY <1>1, <1>5 DEF Kernel, Ordered, NoHandoff, ReadinessVerified, Base, MemOK
<1>7. OutstandingFences(a, SourceInc) = {} /\ Sound(a)
  <2>1. /\ ctl.data \in OutstandingFences(ctl.mem.auth, SourceInc)
        /\ \A g \in OutstandingFences(ctl.mem.auth, SourceInc) : g = ctl.data
    BY <1>1, <1>5 DEF Kernel, Truthful, Open
  <2>2. QED
    BY <1>6, <2>1, AcknowledgeCloses, AcknowledgeResultIsSound
<1>8. /\ r.ok => m.life = "Fenced"
      /\ ~r.ok => m = s
      /\ m.doc = s.doc /\ m.base = s.base
  <2> DEFINE e == Dispatch(s, IncarnationOf("source"), req, now)
  <2>1. r = e /\ req.op = "fence"
    BY DEF Executed
  <2> HIDE DEF s, req
  <2>2. /\ e.ok => e.node.life = "Fenced"
        /\ ~e.ok => e.node = s
        /\ e.node.doc = s.doc /\ e.node.base = s.base
    BY <1>1, <2>1, FenceStops
  <2>3. QED
    BY <2>1, <2>2
<1>9. nodes' \in {nodes, [nodes EXCEPT !["source"] = m]}
  BY <1>3 DEF Exchange
<1> HIDE DEF req, r, m, a, d
<1>10. v = t /\ u \in {s, m} /\ (nodes' = [nodes EXCEPT !["source"] = m] => u = m)
  BY <1>1, <1>9 DEF Component
<1> HIDE DEF s, t, u, v
<1>11. (Stopped(s) => Stopped(u)) /\ u.doc = s.doc /\ u.base = s.base /\ (r.ok => Stopped(m))
  BY <1>8, <1>10 DEF Stopped
<1>12. Preserved(u, v, acked)
  BY <1>1, <1>10, <1>11 DEF Preserved, Contents
<1>13. ASSUME ~Unfailing \/ u = s PROVE Kernel(ctl, u, v)
  <2>1. Open(ctl.mem) # {} /\ ctl.mem.phase < PredecessorFenced
    BY <1>5 DEF ReadinessVerified, PredecessorFenced
  <2>2. Truthful(ctl.mem, u, v)
    BY <1>1, <1>5, <1>10, <1>11, <1>13, <2>1
       DEF Kernel, Truthful, ReadinessVerified, PredecessorFenced, AuthorityTransferred, PredecessorRetired
  <2>3. QED
    BY <1>1, <2>2 DEF Kernel
<1>14. CASE r.ok /\ nodes' = [nodes EXCEPT !["source"] = m] /\ ctl' = d
  <2>1. u = m /\ Stopped(u)
    BY <1>10, <1>11, <1>14
  <2>2. Tame(d, u, v)
    BY <1>1, <1>5, <1>7, <1>10, <2>1, FencedIsTame DEF d
  <2>3. QED
    BY <1>3, <1>11, <1>12, <1>14, <2>2, CallIsKept DEF s, u, v
<1>15. CASE /\ ctl' \in {Idle(Save(ctl)), Reopened(ctl)}
            /\ ~Unfailing \/ u = s
  <2>1. Kernel(ctl, u, v)
    BY <1>13, <1>15
  <2>2. Base(Save(ctl)) /\ Kernel(Save(ctl), u, v)
    BY <1>1, <2>1, SaveBeside, BesideKeepsKernel DEF Beside
  <2>3. Tame(ctl', u, v)
    BY <1>1, <1>15, <2>1, <2>2, IdleIsTame, ReopenedIsTame
  <2>4. QED
    BY <1>3, <1>11, <1>12, <2>3, CallIsKept DEF s, u, v
<1>16. ~r.ok => u = s
  BY <1>8, <1>10
<1>17. QED
  BY <1>3, <1>4, <1>14, <1>15, <1>16

\* Verification of the successor and the predecessor's retirement.
LEMMA VerifyIsSafe ==
    ASSUME Steady, EvolutionInv, SafetyInv, VerifyReport \/ VerifyProbe \/ VerifyWrite \/ RetirePredecessor
    PROVE  Kept
<1> DEFINE s == nodes["source"]
           t == nodes["target"]
           u == nodes'["source"]
           v == nodes'["target"]
<1>1. /\ Base(ctl) /\ Kernel(ctl, s, t) /\ Course(ctl, ctl.pc, ctl.data, s, t) /\ Preserved(s, t, acked)
      /\ NodeOK(s) /\ NodeOK(t) /\ DOMAIN nodes = Component
  BY SafetyIs
<1>2. ctl.mem.phase >= PredecessorFenced /\ Stopped(s)
  <2>1. ctl.mem.phase \in {AuthorityTransferred, SuccessorVerified}
    BY <1>1 DEF VerifyReport, VerifyProbe, VerifyWrite, RetirePredecessor, At, Course
  <2>2. ctl.mem.phase >= PredecessorFenced
    BY <2>1 DEF AuthorityTransferred, SuccessorVerified, PredecessorFenced
  <2>3. QED
    BY <1>1, <2>2 DEF Kernel, Truthful
<1>3. ASSUME NEW pc \in {"verify.write", "verify.probe"}, ctl.mem.phase = AuthorityTransferred,
             NEW x, NEW y, Kernel(ctl, x, y)
      PROVE  Tame(Goto(ctl, pc, ctl.data), x, y)
  <2>1. Course(ctl, pc, ctl.data, x, y)
    BY <1>3 DEF Course
  <2>2. QED
    BY <1>1, <1>3, <2>1, GotoIsTame
<1>4. CASE VerifyReport
  <2> DEFINE req == StatusOf("target")
  <2>1. /\ Exchange(req) /\ late' = {}
        /\ ctl' \in {Goto(ctl, "verify.write", ctl.data), Goto(ctl, "verify.probe", ctl.data), Idle(ctl), Reopened(ctl)}
    BY <1>4 DEF VerifyReport, Call, Exchange, Steady, SafetyInv
  <2>2. req.to \in Component /\ req.op \in Readers
    BY DEF StatusOf, Component, Readers
  <2>3. ctl.mem.phase = AuthorityTransferred
    BY <1>1, <1>4 DEF VerifyReport, At, Course
  <2> HIDE DEF req
  <2>4. Kernel(ctl, u, v) /\ Tame(Idle(ctl), u, v) /\ Tame(Reopened(ctl), u, v)
    BY <2>1, <2>2, ReadingIsQuiet
  <2> HIDE DEF u, v
  <2>5. Tame(ctl', u, v)
    BY <1>3, <2>1, <2>3, <2>4
  <2>6. QED
    BY <2>1, <2>2, <2>5, QuietIsKept DEF u, v
<1>5. CASE VerifyProbe
  <2> DEFINE req == ProbeWrite("source", ctl.mem.claim)
             r == Executed(req)
             w == Write(s, IncarnationOf("source"), ctl.mem.claim, 0, now)
  <2>1. /\ Exchange(req) /\ late' = {}
        /\ ctl' \in {Goto(ctl, "verify.write", ctl.data), Idle(ctl), Reopened(ctl)}
    BY <1>5 DEF VerifyProbe, Call, Exchange, Steady, SafetyInv
  <2>2. ctl.mem.phase = AuthorityTransferred
    BY <1>1, <1>5 DEF VerifyProbe, At, Course
  <2>3. r = w /\ req.to = "source"
    BY DEF ProbeWrite, Executed, Dispatch
  <2>4. w.node = s
    <3>1. IncarnationOf("source") \in Incarnation
      BY IncarnationExists DEF Component
    <3>2. (~w.ok => w.node = s) /\ (w.ok => ~Stopped(s))
      BY <1>1, <3>1, WriteIsKept
    <3>3. QED
      BY <1>2, <3>2
  <2>5. nodes' \in {nodes, [nodes EXCEPT !["source"] = w.node]}
    BY <2>1, <2>3 DEF Exchange
  <2> HIDE DEF req, r, w
  <2>6. u = s /\ v = t
    BY <1>1, <2>4, <2>5 DEF Component
  <2>7. Tame(ctl', u, v) /\ Preserved(u, v, acked)
    BY <1>1, <1>3, <2>1, <2>2, <2>6, IdleIsTame, ReopenedIsTame
  <2>8. QED
    BY <2>1, <2>6, <2>7, CallIsKept
<1>6. CASE VerifyWrite
  <2> DEFINE claim == ClaimOf(LeaseOf(ctl))
             req == ProbeWrite("target", claim)
             r == Executed(req)
             w == Write(t, IncarnationOf("target"), claim, 0, now)
  <2>1. /\ Exchange(req) /\ late' = {}
        /\ ctl' \in {Idle(RecordPhase(ctl, SuccessorVerified)), Idle(ctl), Reopened(ctl)}
    BY <1>6 DEF VerifyWrite, Call, Exchange, Steady, SafetyInv
  <2>2. r = w /\ req.to = "target"
    BY DEF ProbeWrite, Executed, Dispatch
  <2>3. nodes' \in {nodes, [nodes EXCEPT !["target"] = w.node]}
    BY <2>1, <2>2 DEF Exchange
  <2> HIDE DEF claim
  <2>4. /\ ~w.ok => w.node = t
        /\ w.ok => /\ t.confirmed /\ w.node.life = t.life /\ w.node.confirmed = t.confirmed
                   /\ Len(w.node.doc) = Len(t.doc) + 1 /\ w.node.saved = Len(w.node.doc)
                   /\ Contents(w.node) = Contents(t) \cup {0}
    <3> DEFINE inc == IncarnationOf("target")
    <3>1. inc \in Incarnation /\ NodeOK(t) /\ 0 \in Nat
      BY <1>1, IncarnationExists DEF Component
    <3> HIDE DEF inc, t
    <3>2. QED
      BY <3>1, WriteIsKept DEF inc
  <2> HIDE DEF req, r, w
  <2>5. u = s /\ v \in {t, w.node}
    BY <1>1, <2>3 DEF Component
  <2> HIDE DEF s, t, u, v
  <2>6. /\ v.life = t.life /\ v.confirmed = t.confirmed
        /\ \/ v = t
           \/ /\ t.confirmed /\ Len(v.doc) = Len(t.doc) + 1 /\ v.saved = Len(v.doc)
              /\ Contents(v) = Contents(t) \cup {0}
    BY <2>4, <2>5
  <2>7. Kernel(ctl, u, v)
    <3>1. Truthful(ctl.mem, s, v)
      BY <1>1, <2>6 DEF Kernel, Truthful
    <3>2. QED
      BY <1>1, <2>5, <3>1 DEF Kernel
  <2>8. Preserved(u, v, acked)
    <3>1. Len(s.doc) \in Nat /\ Len(t.doc) \in Nat
      BY <1>1 DEF NodeOK
    <3>2. Preserved(s, v, acked)
      BY <1>1, <2>6, <3>1 DEF Preserved
    <3>3. QED
      BY <2>5, <3>2
  <2>9. Tame(Idle(RecordPhase(ctl, SuccessorVerified)), u, v)
    BY <1>1, <2>7, RecordPhaseIsTame
       DEF Prepared, SuccessorVerified, PredecessorFenced, AuthorityTransferred, PredecessorRetired
  <2>10. Tame(ctl', u, v)
    BY <1>1, <2>1, <2>7, <2>9, IdleIsTame, ReopenedIsTame
  <2>11. QED
    BY <2>1, <2>5, <2>8, <2>10, CallIsKept DEF s, u, v
<1>7. CASE RetirePredecessor
  <2> DEFINE req == [to |-> "source", op |-> "retire"]
             r == Executed(req)
             d == RecordPhase(ctl, PredecessorRetired)
             e == ApplyAction(d, "Complete")
  <2>1. /\ Exchange(req) /\ late' = {}
        /\ \/ ctl' = Idle(e) /\ nodes' = [nodes EXCEPT !["source"] = r.node]
           \/ ctl' = Idle(ctl) \/ ctl' = Reopened(ctl)
    BY <1>7 DEF RetirePredecessor, Call, Exchange, Steady, SafetyInv
  <2>2. r.node.life = "Retired" /\ r.node.doc = s.doc /\ r.node.base = s.base
    <3>1. r = Dispatch(s, IncarnationOf("source"), req, now) /\ req.op = "retire"
      BY DEF Executed
    <3> HIDE DEF req, s
    <3>2. QED
      BY <1>1, <3>1, RetireStops
  <2>3. ctl.mem.phase = SuccessorVerified
    BY <1>1, <1>7 DEF RetirePredecessor, At, Course
  <2>4. nodes' \in {nodes, [nodes EXCEPT !["source"] = r.node]}
    BY <2>1 DEF Exchange
  <2> HIDE DEF req, r
  <2>5. v = t /\ u \in {s, r.node} /\ (nodes' = [nodes EXCEPT !["source"] = r.node] => u = r.node)
    BY <1>1, <2>4 DEF Component
  <2> HIDE DEF s, t, u, v
  <2>6. Stopped(u) /\ u.doc = s.doc /\ u.base = s.base
    BY <1>2, <2>2, <2>5 DEF Stopped
  <2>7. Kernel(ctl, u, v)
    <3>1. Truthful(ctl.mem, u, v)
      BY <1>1, <1>2, <2>3, <2>5, <2>6 DEF Kernel, Truthful, SuccessorVerified, PredecessorRetired
    <3>2. QED
      BY <1>1, <3>1 DEF Kernel
  <2>8. Preserved(u, v, acked)
    BY <1>1, <2>5, <2>6 DEF Preserved, Contents
  <2>9. ASSUME u.life = "Retired" PROVE Tame(Idle(e), u, v)
    <3> USE DEF Prepared, SuccessorVerified, PredecessorFenced, AuthorityTransferred, PredecessorRetired,
                NotStarted, Failed, Aborted, NoHandoff
    <3>1. PredecessorRetired \in Prepared..PredecessorRetired /\ ValidTransition(ctl.mem.phase, PredecessorRetired)
      BY <2>3 DEF ValidTransition, IsForwardPhase
    <3>2. Base(d) /\ d.mem.phase = PredecessorRetired
      BY <1>1, <2>3, <3>1, RecordPhaseIs
    <3>3. Kernel(d, u, v)
      BY <1>1, <2>7, <2>9, <3>1, RecordPhaseIsTame
    <3> HIDE DEF d
    <3>4. Base(e) /\ Kernel(e, u, v)
      BY <3>2, <3>3, ApplyActionIsTame
    <3> HIDE DEF e
    <3>5. QED
      BY <3>4, IdleIsTame
  <2> HIDE DEF d, e
  <2>10. Tame(ctl', u, v)
    BY <1>1, <2>1, <2>2, <2>5, <2>7, <2>9, IdleIsTame, ReopenedIsTame
  <2>11. QED
    BY <2>1, <2>6, <2>8, <2>10, CallIsKept DEF u, v
<1>8. QED
  BY <1>4, <1>5, <1>6, <1>7

\* The source's document has no more records than clients have been told of and its log no more than it
\* may have: what a target within reach of the log lacks fits the rounds.
LEMMA RoundsSuffice ==
    ASSUME EvolutionInv, SafetyInv, NEW from \in Nat, Enough
    PROVE  \/ Len(nodes["source"].doc) - from <= MaxRounds * MaxBatch
           \/ from < nodes["source"].base
<1>1. PICK k \in 0..MaxWrites : acked = 1..k
  BY DEF EvolutionInv
<1>2. MaxWrites \in Nat /\ MaxRounds \in Nat /\ MaxBatch \in Nat /\ MaxLog \in Nat
  BY EvolutionAssumption, NodeAssumption
<1>3. k \in Nat /\ Cardinality(1..k) = k
  BY <1>2, FS_Interval
<1> DEFINE p == MaxRounds * MaxBatch
           n == Len(nodes["source"].doc)
           base == nodes["source"].base
<1>4. n <= k /\ n - base <= MaxLog /\ n \in Nat /\ base \in Nat
  BY <1>1, <1>3, SafetyIs DEF Preserved, NodeOK
<1>5. p \in Nat /\ (MaxLog <= p \/ MaxWrites <= p)
  BY <1>2 DEF Enough
<1> HIDE DEF p, n, base
<1>6. k <= MaxWrites
  BY <1>1, <1>2
<1>7. n - from <= p \/ from < base
  BY <1>2, <1>3, <1>4, <1>5, <1>6
<1>8. QED
  BY <1>7 DEF n, p, base

\* The final catch-up, up to the grant.
LEMMA FinalCatchUpIsSafe ==
    ASSUME Steady, EvolutionInv, SafetyInv, TransferSource \/ TransferTarget \/ TransferRead \/ TransferApply
    PROVE  Kept
<1> DEFINE s == nodes["source"]
           t == nodes["target"]
           u == nodes'["source"]
           v == nodes'["target"]
<1>1. /\ Base(ctl) /\ Stage(ctl, ctl.pc, ctl.data, SourceDoc) /\ now \in Nat /\ Kernel(ctl, s, t)
      /\ Course(ctl, ctl.pc, ctl.data, s, t) /\ Preserved(s, t, acked) /\ NodeOK(s) /\ NodeOK(t)
      /\ DOMAIN nodes = Component
  BY SafetyIs
<1>2. /\ MaxRounds \in Nat \ {0} /\ MaxBatch \in Nat \ {0} /\ Len(s.doc) \in Nat /\ Len(t.doc) \in Nat
  <2>1. MaxRounds \in Nat \ {0}
    BY EvolutionAssumption
  <2>2. MaxBatch \in Nat \ {0}
    BY NodeAssumption
  <2>3. Len(s.doc) \in Nat /\ Len(t.doc) \in Nat
    BY <1>1 DEF NodeOK
  <2>4. QED
    BY <2>1, <2>2, <2>3
<1>3. CASE TransferSource
  <2> DEFINE req == StatusOf("source")
             b == Executed(req).body
             d == [ctl EXCEPT !.src = b]
  <2>1. Exchange(req) /\ late' = {} /\ ctl' \in {TransferRound(d), Idle(ctl), Reopened(ctl)}
    BY <1>3 DEF TransferSource, Call, Exchange, Steady, SafetyInv
  <2>2. req.to \in Component /\ req.op \in Readers
    BY DEF StatusOf, Component, Readers
  <2>3. b.lsn = Len(s.doc) /\ Real(b)
    BY StatusTells, StatusIs DEF Component, Steady
  <2>4. Base(d) /\ d.mem = ctl.mem /\ d.disk = ctl.disk /\ d.src = b /\ d.rounds = ctl.rounds
    BY <1>1 DEF Base, CtlField
  <2>5. ctl.mem.phase = PredecessorFenced /\ ctl.rounds = 0
    BY <1>1, <1>3 DEF TransferSource, At, Course
  <2> HIDE DEF d, req, b
  <2>6. Kernel(ctl, u, v) /\ Tame(Idle(ctl), u, v) /\ Tame(Reopened(ctl), u, v) /\ Same(s, u) /\ Same(t, v)
    BY <2>1, <2>2, ReadingIsQuiet
  <2>7. Enough => Len(s.doc) - Len(t.doc) <= MaxRounds * MaxBatch \/ Len(t.doc) < s.base
    BY <1>2, RoundsSuffice
  <2> HIDE DEF s, t, u, v
  <2>8. u.doc = s.doc /\ u.base = s.base /\ v.doc = t.doc /\ v.confirmed = t.confirmed
    BY <2>6 DEF Same
  <2>9. Kernel(d, u, v)
    BY <2>4, <2>6 DEF Kernel
  <2>10. Enough => \/ Len(u.doc) - Len(v.doc) <= (MaxRounds - d.rounds) * MaxBatch
                   \/ d.rounds = 0 /\ Len(v.doc) < u.base
    <3> DEFINE p == MaxRounds * MaxBatch
    <3>1. (MaxRounds - d.rounds) * MaxBatch = p /\ d.rounds = 0
      BY <1>2, <2>4, <2>5
    <3>2. Enough => Len(s.doc) - Len(t.doc) <= p \/ Len(t.doc) < s.base
      BY <2>7
    <3> HIDE DEF p
    <3>3. QED
      BY <2>8, <3>1, <3>2
  <2>11. d.rounds \in 0..MaxRounds /\ d.mem.phase = PredecessorFenced /\ d.src.lsn = Len(u.doc) /\ Real(d.src)
    BY <1>2, <2>3, <2>4, <2>5, <2>8
  <2>12. Tame(TransferRound(d), u, v)
    BY <1>1, <2>4, <2>9, <2>10, <2>11, TransferRoundIsTame
  <2>13. Tame(ctl', u, v)
    BY <2>1, <2>6, <2>12
  <2>14. QED
    BY <2>1, <2>2, <2>13, QuietIsKept DEF u, v
<1>4. CASE TransferTarget
  <2> DEFINE req == StatusOf("target")
             lsn == Executed(req).body.lsn
  <2>1. /\ Exchange(req) /\ late' = {}
        /\ \/ lsn >= ctl.src.lsn /\ ctl' = TransferGrant(ctl)
           \/ ~(lsn >= ctl.src.lsn) /\ ctl' = Goto(ctl, "transfer.read", lsn)
           \/ ctl' = Idle(ctl) \/ ctl' = Reopened(ctl)
    BY <1>4 DEF TransferTarget, Call, Exchange, Steady, SafetyInv
  <2>2. req.to \in Component /\ req.op \in Readers
    BY DEF StatusOf, Component, Readers
  <2>3. lsn = Len(t.doc)
    BY StatusTells DEF Component, Steady
  <2>4. Finishing(ctl, MaxRounds - ctl.rounds + 1, s, t) /\ Real(ctl.src)
    BY <1>1, <1>4 DEF TransferTarget, At, Course, Stage
  <2> HIDE DEF req, lsn
  <2>5. Kernel(ctl, u, v) /\ Tame(Idle(ctl), u, v) /\ Tame(Reopened(ctl), u, v) /\ Same(s, u) /\ Same(t, v)
    BY <2>1, <2>2, ReadingIsQuiet
  <2>6. ctl.src.lsn = Len(s.doc)
    BY <2>4 DEF Finishing
  <2> HIDE DEF s, t, u, v
  <2>7. u.doc = s.doc /\ u.base = s.base /\ v.doc = t.doc /\ v.confirmed = t.confirmed
    BY <2>5 DEF Same
  <2>8. Finishing(ctl, MaxRounds - ctl.rounds + 1, u, v)
    BY <2>4, <2>7 DEF Finishing
  <2>9. ASSUME lsn >= ctl.src.lsn PROVE Tame(TransferGrant(ctl), u, v)
    <3>1. Len(u.doc) - Len(v.doc) <= 0 * MaxBatch
      <4>1. 0 * MaxBatch = 0
        BY <1>2
      <4>2. Len(s.doc) - Len(t.doc) <= 0
        BY <1>2, <2>3, <2>6, <2>9
      <4>3. QED
        BY <2>7, <4>1, <4>2
    <3>2. Finishing(ctl, 0, u, v)
      BY <2>8, <3>1 DEF Finishing
    <3>3. QED
      BY <1>1, <2>4, <2>5, <3>2, TransferGrantIsTame
  <2>10. ASSUME ~(lsn >= ctl.src.lsn) PROVE Tame(Goto(ctl, "transfer.read", lsn), u, v)
    <3>1. Len(v.doc) < Len(u.doc)
      BY <1>2, <2>3, <2>6, <2>7, <2>10
    <3>2. Enough => ~v.confirmed
      BY <1>1, <1>2, <2>7, <3>1 DEF Preserved
    <3>3. Course(ctl, "transfer.read", lsn, u, v)
      BY <2>3, <2>7, <2>8, <3>1, <3>2 DEF Course
    <3>4. QED
      BY <1>1, <2>5, <3>3, GotoIsTame
  <2>11. Tame(ctl', u, v)
    BY <2>1, <2>5, <2>9, <2>10
  <2>12. QED
    BY <2>1, <2>2, <2>11, QuietIsKept DEF u, v
<1>5. CASE TransferRead
  <2> DEFINE req == [to |-> "source", op |-> "read_since", from |-> ctl.data]
             b == Executed(req).body
             x == [binding |-> SourceClaim(ctl), batch |-> b]
  <2>1. /\ Exchange(req) /\ late' = {}
        /\ \/ b.entries = <<>> /\ ctl' = TransferGrant(ctl)
           \/ ctl' = Goto(ctl, "transfer.apply", x)
           \/ ctl' = Idle(ctl) \/ ctl' = Reopened(ctl)
    BY <1>5 DEF TransferRead, Call, Exchange, Steady, SafetyInv
  <2>2. req.to \in Component /\ req.op \in Readers
    BY DEF Component, Readers
  <2>3. /\ Finishing(ctl, MaxRounds - ctl.rounds + 1, s, t) /\ Real(ctl.src) /\ ctl.data \in Nat
        /\ Enough => ~t.confirmed /\ ctl.data = Len(t.doc) /\ Len(t.doc) < Len(s.doc)
    BY <1>1, <1>5 DEF TransferRead, At, Course, Stage
  <2>4. Enough => b.entries # <<>> /\ s.base < b.first /\ (Len(b.entries) >= MaxBatch \/ b.first + Len(b.entries) > Len(s.doc))
    <3> DEFINE e == Dispatch(s, IncarnationOf("source"), req, now).body
    <3>1. b = e /\ req.op = "read_since" /\ req.from = ctl.data
      BY DEF Executed
    <3>2. s.base = 0 \/ s.base < Len(s.doc)
      BY <1>1 DEF Preserved
    <3> HIDE DEF s, t, b, req
    <3>3. Enough => e.entries # <<>> /\ s.base < e.first /\ (Len(e.entries) >= MaxBatch \/ e.first + Len(e.entries) > Len(s.doc))
      BY <1>1, <2>3, <3>1, <3>2, ReadsOn
    <3>4. QED
      BY <3>1, <3>3
  <2>5. x.batch = b
    OBVIOUS
  <2> HIDE DEF req, b, x
  <2>6. Kernel(ctl, u, v) /\ Tame(Idle(ctl), u, v) /\ Tame(Reopened(ctl), u, v) /\ Same(s, u) /\ Same(t, v)
    BY <2>1, <2>2, ReadingIsQuiet
  <2> HIDE DEF s, t, u, v
  <2>7. u.doc = s.doc /\ u.base = s.base /\ v.doc = t.doc /\ v.confirmed = t.confirmed
    BY <2>6 DEF Same
  <2>8. Finishing(ctl, MaxRounds - ctl.rounds + 1, u, v)
    BY <2>3, <2>7 DEF Finishing
  <2>9. ASSUME b.entries = <<>> PROVE Tame(TransferGrant(ctl), u, v)
    <3>1. ~Enough
      BY <2>4, <2>9
    <3>2. Finishing(ctl, 0, u, v)
      BY <2>8, <3>1 DEF Finishing
    <3>3. QED
      BY <1>1, <2>3, <2>6, <3>2, TransferGrantIsTame
  <2>10. Tame(Goto(ctl, "transfer.apply", x), u, v)
    <3>1. Course(ctl, "transfer.apply", x, u, v)
      BY <2>3, <2>4, <2>5, <2>7, <2>8 DEF Course
    <3>2. QED
      BY <1>1, <2>6, <3>1, GotoIsTame
  <2>11. Tame(ctl', u, v)
    BY <2>1, <2>6, <2>9, <2>10
  <2>12. QED
    BY <2>1, <2>2, <2>11, QuietIsKept DEF u, v
<1>6. CASE TransferApply
  <2> DEFINE req == ApplyTo("target", ctl)
             r == Executed(req)
             e == ctl.data.batch.entries
  <2>1. /\ Exchange(req) /\ late' = {}
        /\ \/ r.ok /\ nodes' = [nodes EXCEPT !["target"] = r.node] /\ ctl' = TransferRound(ctl)
           \/ ctl' = Idle(ctl) \/ ctl' = Reopened(ctl)
    BY <1>6 DEF TransferApply, Call, Exchange, Steady, SafetyInv, ApplyTo
  <2>2. /\ Finishing(ctl, MaxRounds - ctl.rounds + 1, s, t) /\ Real(ctl.src)
        /\ Enough => /\ ~t.confirmed /\ e # <<>> /\ s.base < ctl.data.batch.first
                     /\ Len(e) >= MaxBatch \/ ctl.data.batch.first + Len(e) > Len(s.doc)
    BY <1>1, <1>6 DEF TransferApply, At, Course, Stage
  <2>3. Segment(ctl.data.batch, SourceDoc)
    BY <1>1, <1>6 DEF TransferApply, At, Stage
  <2>4. req.to = "target" /\ req.op \in TargetOnly /\ Proper(req, SourceDoc) /\ req.op = "apply_records"
        /\ req.batch = ctl.data.batch
    BY <2>3 DEF ApplyTo, Proper, TargetOnly
  <2>5. r = Dispatch(t, IncarnationOf("target"), req, now)
    BY <2>4 DEF Executed
  <2>6. e \in Seq(Entry)
    BY <2>3 DEF Segment
  <2> HIDE DEF req
  <2>7. /\ u = s /\ v.confirmed = t.confirmed /\ Kernel(ctl, u, v) /\ Preserved(u, v, acked)
        /\ Tame(Idle(ctl), u, v) /\ Tame(Reopened(ctl), u, v)
    BY <2>1, <2>2, <2>4, FillingIsQuiet
  <2>8. nodes' = [nodes EXCEPT !["target"] = r.node] => v = r.node
    BY <1>1 DEF Component
  <2> HIDE DEF r, s, t, u, v
  <2>9. r.ok /\ Enough => /\ ctl.data.batch.first = Len(t.doc) + 1
                          /\ Len(r.node.doc) = Len(t.doc) + Len(e)
    <3> DEFINE b == ctl.data.batch
    <3>1. r = ApplyRecords(t, req.binding, b)
      BY <2>4, <2>5 DEF Dispatch
    <3>2. NodeOK(t) /\ b.entries \in Seq(Entry) /\ (Enough => Len(b.entries) # 0)
      BY <1>1, <2>2, <2>6
    <3> HIDE DEF b
    <3>3. \/ ~Enough \/ r = Deny(r.node)
          \/ b.first = Len(t.doc) + 1 /\ Len(r.node.doc) = Len(t.doc) + Len(b.entries)
      BY <3>1, <3>2, AcceptedInFull
    <3>4. r = Deny(r.node) => ~r.ok
      BY DEF Deny
    <3>5. QED
      BY <3>3, <3>4 DEF b
  <2>10. ASSUME r.ok, v = r.node PROVE Tame(TransferRound(ctl), u, v)
    <3> DEFINE k == MaxRounds - ctl.rounds
               q == k * MaxBatch
    <3>1. ctl.mem.phase = PredecessorFenced /\ ctl.src.lsn = Len(u.doc) /\ ctl.rounds \in 1..MaxRounds
      BY <2>2, <2>7 DEF Finishing
    <3>2. k \in Nat /\ (k + 1) * MaxBatch = q + MaxBatch /\ q \in Nat
      BY <1>2, <3>1
    <3>3. MaxRounds - ctl.rounds + 1 = k + 1
      BY <1>2, <3>1
    <3>4. Enough => Len(s.doc) - Len(t.doc) <= (k + 1) * MaxBatch
      <4> DEFINE y == Len(t.doc)
                 base == s.base
                 first == ctl.data.batch.first
      <4>1. Enough => Len(s.doc) - y <= (k + 1) * MaxBatch \/ y < base
        BY <2>2, <3>3 DEF Finishing
      <4>2. Enough => first = y + 1 /\ base < first
        BY <2>2, <2>9, <2>10
      <4>3. base \in Nat /\ y \in Nat
        BY <1>1, <1>2 DEF NodeOK
      <4> HIDE DEF y, base, first, k
      <4>4. Enough => ~(y < base)
        BY <4>2, <4>3
      <4>5. QED
        BY <4>1, <4>4 DEF y
    <3> HIDE DEF k
    <3>5. Enough => Len(s.doc) - Len(t.doc) <= q + MaxBatch
      BY <3>2, <3>4
    <3> HIDE DEF q
    <3>6. Len(e) \in Nat
      BY <2>6
    <3>7. ASSUME Enough PROVE Len(u.doc) - Len(v.doc) <= q
      <4> DEFINE f == ctl.data.batch.first
                 n == Len(e)
                 x == Len(s.doc)
                 y == Len(t.doc)
                 z == Len(v.doc)
      <4>1. f = y + 1 /\ z = y + n /\ (n >= MaxBatch \/ f + n > x) /\ x - y <= q + MaxBatch /\ Len(u.doc) = x
        BY <2>2, <2>7, <2>9, <2>10, <3>5, <3>7
      <4>2. x \in Nat /\ y \in Nat /\ n \in Nat /\ q \in Nat /\ MaxBatch \in Nat
        BY <1>2, <3>2, <3>6
      <4> HIDE DEF f, n, x, y, z, e
      <4>3. x - z <= q
        BY <4>1, <4>2
      <4>4. QED
        BY <4>1, <4>3 DEF z
    <3>8. ctl.rounds \in 0..MaxRounds
      BY <1>2, <3>1
    <3>9. QED
      BY <1>1, <2>2, <2>7, <3>1, <3>7, <3>8, TransferRoundIsTame DEF q, k
  <2>11. Tame(ctl', u, v)
    BY <2>1, <2>7, <2>8, <2>10
  <2>12. QED
    BY <2>1, <2>7, <2>11, CallIsKept DEF s, u, v
<1>7. QED
  BY <1>3, <1>4, <1>5, <1>6

\* The transfer of authority: the successor has everything when it is told to serve.
LEMMA DeliveryIsSafe ==
    ASSUME Steady, EvolutionInv, SafetyInv, TransferDeliver
    PROVE  Kept
<1> DEFINE s == nodes["source"]
           t == nodes["target"]
           u == nodes'["source"]
           v == nodes'["target"]
           req == GrantTo("target", LeaseOf(ctl))
           r == Executed(req)
           d == Revoked(ctl)
<1>1. /\ Base(ctl) /\ Kernel(ctl, s, t) /\ Course(ctl, ctl.pc, ctl.data, s, t) /\ Preserved(s, t, acked)
      /\ NodeOK(s) /\ NodeOK(t) /\ DOMAIN nodes = Component
  BY SafetyIs
<1>2. /\ Exchange(req) /\ late' = {}
      /\ \/ r.ok /\ nodes' = [nodes EXCEPT !["target"] = r.node] /\ ctl' = Idle(RecordPhase(ctl, AuthorityTransferred))
         \/ ctl' = Idle(Save(d)) \/ ctl' = Reopened(ctl)
  BY DEF TransferDeliver, Call, Exchange, Steady, SafetyInv, GrantTo
<1>3. Finishing(ctl, 0, s, t)
  BY <1>1 DEF TransferDeliver, At, Course
<1>4. ctl.mem.phase = PredecessorFenced /\ t.life = "Serving" /\ Stopped(s)
  BY <1>1, <1>3 DEF Finishing, Kernel, Truthful, PredecessorFenced
<1>5. req.op = "grant_authority" /\ req.to = "target" /\ r = Dispatch(t, IncarnationOf("target"), req, now)
  BY DEF GrantTo, Executed
<1>6. nodes' \in {nodes, [nodes EXCEPT !["target"] = r.node]}
  BY <1>2, <1>5 DEF Exchange
<1> HIDE DEF req, r, t
<1>7. /\ r.node.life = "Serving" /\ r.node.confirmed
      /\ r.node.saved = Len(t.doc) /\ r.node.doc = t.doc
  <2> DEFINE e == Dispatch(t, IncarnationOf("target"), req, now)
  <2>1. \/ t.life = "Retired" /\ ~e.ok /\ e.node = t
        \/ /\ e.ok /\ t.life # "Retired" /\ e.node.life = "Serving" /\ e.node.confirmed
           /\ e.node.saved = Len(t.doc) /\ e.node.doc = t.doc /\ e.node.base = t.base
    BY <1>1, <1>5, GrantServes
  <2> HIDE DEF e
  <2>2. QED
    BY <1>4, <1>5, <2>1 DEF e
<1>8. u = s /\ v \in {t, r.node} /\ (nodes' = [nodes EXCEPT !["target"] = r.node] => v = r.node)
  BY <1>1, <1>6 DEF Component, t
<1> HIDE DEF s, u, v
<1>9. Kernel(ctl, u, v)
  <2>1. Truthful(ctl.mem, s, v)
    BY <1>1, <1>4, <1>7, <1>8 DEF Kernel, Truthful, PredecessorFenced, AuthorityTransferred
  <2>2. QED
    BY <1>1, <1>8, <2>1 DEF Kernel
<1>10. Preserved(u, v, acked)
  <2>1. CASE v = t
    BY <1>1, <1>8, <2>1
  <2>2. CASE v = r.node
    <3>1. Len(s.doc) \in Nat /\ Len(t.doc) \in Nat /\ s.doc \in Seq(Entry) /\ t.doc \in Seq(Entry) /\ MaxBatch \in Nat
      BY <1>1, NodeAssumption DEF NodeOK
    <3>2. ASSUME Enough, ~t.confirmed PROVE acked \subseteq Contents(t) /\ Len(s.doc) <= Len(t.doc)
      <4>1. Len(s.doc) - Len(t.doc) <= 0 * MaxBatch /\ Copy(t.doc, s.doc) /\ acked \subseteq Contents(s)
        BY <1>1, <1>3, <3>2 DEF Finishing, Preserved
      <4>2. Len(s.doc) <= Len(t.doc)
        <5>1. 0 * MaxBatch = 0
          BY <3>1
        <5>2. Len(s.doc) - Len(t.doc) <= 0
          BY <4>1, <5>1
        <5>3. QED
          BY <3>1, <5>2
      <4>3. \A i \in DOMAIN s.doc : i \in DOMAIN t.doc
        BY <3>1, <4>2
      <4>4. \A i \in DOMAIN t.doc : t.doc[i].value = s.doc[i].value
        BY <4>1 DEF Copy
      <4>5. Contents(s) \subseteq Contents(t)
        BY <4>3, <4>4 DEF Contents
      <4>6. QED
        BY <4>1, <4>2, <4>5
    <3>3. Enough => acked \subseteq Contents(t) /\ Len(s.doc) <= Len(t.doc)
      BY <1>1, <3>2 DEF Preserved
    <3>4. v.confirmed /\ v.doc = t.doc /\ v.saved = Len(v.doc) /\ Contents(v) = Contents(t)
      BY <1>7, <2>2 DEF Contents
    <3>5. QED
      BY <1>1, <1>8, <3>3, <3>4 DEF Preserved
  <2>3. QED
    BY <1>8, <2>1, <2>2
<1>11. ASSUME v = r.node PROVE Tame(Idle(RecordPhase(ctl, AuthorityTransferred)), u, v)
  <2>1. v.confirmed
    BY <1>7, <1>11
  <2>2. AuthorityTransferred \in Prepared..PredecessorRetired
    BY DEF Prepared, AuthorityTransferred, PredecessorRetired
  <2>3. QED
    BY <1>1, <1>9, <2>1, <2>2, RecordPhaseIsTame DEF AuthorityTransferred, PredecessorFenced, PredecessorRetired
<1>12. Tame(Idle(Save(d)), u, v) /\ Tame(Reopened(ctl), u, v)
  <2>1. Sound(ctl.mem.auth)
    BY <1>1 DEF Base, MemOK
  <2>2. Beside(ctl, d)
    BY <1>1, <2>1, RevokeKeepsSound, RevokeKeepsFences, LeasesBeside DEF Revoked
  <2> HIDE DEF d
  <2>3. Beside(ctl, Save(d))
    BY <2>2, SaveBeside, BesideIsTransitive DEF Beside
  <2>4. Base(Save(d)) /\ Kernel(Save(d), u, v)
    BY <1>9, <2>3, BesideKeepsKernel DEF Beside
  <2>5. QED
    BY <1>1, <1>9, <2>4, IdleIsTame, ReopenedIsTame
<1> HIDE DEF d
<1>13. Tame(ctl', u, v)
  BY <1>2, <1>8, <1>11, <1>12
<1>14. QED
  BY <1>2, <1>8, <1>10, <1>13, CallIsKept DEF s, u, v

\* Every call keeps the invariant.
LEMMA StepIsSafe ==
    ASSUME Steady, EvolutionInv, SafetyInv, Counted, Step
    PROVE  Kept
<1>1. ~(AbortSource \/ AbortDeliver \/ AbortRetire)
  BY DEF SafetyInv, Tame, Course, AbortSource, AbortDeliver, AbortRetire, At
<1>2. QED
  BY <1>1, ReportsAreSafe, EnsuringIsSafe, SnapshotIsSafe, CatchUpIsSafe, FenceIsSafe, FinalCatchUpIsSafe,
     DeliveryIsSafe, VerifyIsSafe DEF Step

\* A step of the controller alone.
LEMMA LocalIsKept ==
    ASSUME SafetyInv, Tame(ctl', nodes["source"], nodes["target"]), UNCHANGED <<nodes, late, acked>>
    PROVE  Kept
BY DEF Kept, SafetyInv, Stopped

\* Operators' calls.
LEMMA RequestIsSafe ==
    ASSUME Steady, EvolutionInv, SafetyInv, Request
    PROVE  Kept
<1> DEFINE s == nodes["source"]
           t == nodes["target"]
<1>1. UNCHANGED <<nodes, late, now, acked>> /\ ctl.pc = "idle" /\ "Abort" \notin Operations
  BY DEF Request, Plan, Preflight, Start, Advance, Pause, Resume, Abort, Reconcile, Local, Idling, At, Steady
<1>2. Base(ctl) /\ Kernel(ctl, s, t) /\ Course(ctl, ctl.pc, ctl.data, s, t)
  BY SafetyIs
<1>3. ctl.rounds = 0
  BY <1>1, <1>2 DEF Course
<1> SUFFICES Tame(ctl', s, t)
  BY <1>1, LocalIsKept
<1> HIDE DEF s, t
<1>4. ASSUME NEW d, Base(d), Kernel(d, s, t), d.pc = "idle", d.rounds = 0
      PROVE  Tame(d, s, t)
  BY <1>4 DEF Tame, Course
<1>5. CASE Plan
  <2> DEFINE m == [ctl.mem EXCEPT !.camp = "Planned", !.crossed = FALSE, !.winAt = -1]
             d == [ctl EXCEPT !.mem = m, !.plans = ctl.plans + 1]
  <2>1. ctl' = Save(d) /\ IsTerminalState(ctl.mem.camp)
    BY <1>2, <1>5 DEF Plan, Local, Base, CtlField
  <2>2. /\ MemOK(m) /\ m.camp = "Planned" /\ m.phase = ctl.mem.phase /\ m.pred = ctl.mem.pred /\ m.succ = ctl.mem.succ
        /\ m.auth = ctl.mem.auth
    BY <1>2 DEF Base, MemOK, MemField, CampaignState
  <2> HIDE DEF m
  <2>3. Base(d) /\ d.pc = "idle" /\ d.rounds = 0 /\ d.mem = m
    BY <1>1, <1>2, <1>3, <2>2 DEF Base, CtlField
  <2> HIDE DEF d
  <2>4. Base(Save(d)) /\ Save(d).mem = m /\ Save(d).disk = m /\ Save(d).pc = "idle" /\ Save(d).rounds = 0
    BY <2>3, SaveGoesOn DEF Onward, Save, Base, CtlField
  <2>5. ctl.mem.phase \in {NoHandoff, PredecessorRetired}
    BY <1>2, <2>1 DEF Kernel, Ordered, IsTerminalState
  <2>6. Ordered(m)
    BY <1>2, <2>2, <2>5 DEF Kernel, Ordered
  <2>7. Open(m) = Open(ctl.mem)
    BY <2>2 DEF Open
  <2>8. Truthful(m, s, t)
    BY <1>2, <2>2, <2>7 DEF Kernel, Truthful
  <2>9. Kernel(Save(d), s, t)
    BY <2>4, <2>6, <2>8, SavedIsKernel
  <2>10. QED
    BY <1>4, <2>1, <2>4, <2>9
<1>6. CASE Preflight
  <2> DEFINE d == ApplyAction(ctl, "Preflight")
  <2>1. ctl' = Bind(d, "preflight") /\ Accepts(ctl, "Preflight")
    BY <1>6 DEF Preflight, Local
  <2>2. Base(d) /\ Kernel(d, s, t) /\ d.rounds = 0 /\ d.mem.phase = ctl.mem.phase
    BY <1>2, <1>3, ApplyActionIsTame
  <2>3. ctl.mem.camp = "Planned"
    BY <2>1 DEF Accepts, Decided, Decision
  <2>4. ctl.mem.phase \in {NoHandoff, PredecessorRetired}
    BY <1>2, <2>3 DEF Kernel, Ordered
  <2> HIDE DEF d
  <2>5. QED
    BY <2>1, <2>2, <2>4, BindIsTame
<1>7. CASE Start
  BY <1>2, <1>3, <1>7, BeginIsTame DEF Start, Local
<1>8. CASE Advance
  <2>1. (ctl.mem.phase = NoHandoff /\ ctl' = Begin(ctl)) \/ ctl' = Bind(ctl, "advance")
    BY <1>8 DEF Advance, Local
  <2>2. Tame(Bind(ctl, "advance"), s, t)
    BY <1>2, <1>3, BindIsTame
  <2>3. QED
    BY <1>2, <1>3, <2>1, <2>2, BeginIsTame
<1>9. ASSUME NEW action \in {"Pause", "Resume"} PROVE Tame(ApplyAction(ctl, action), s, t)
  <2> DEFINE d == ApplyAction(ctl, action)
  <2>1. Base(d) /\ Kernel(d, s, t) /\ d.pc = "idle" /\ d.rounds = 0
    BY <1>1, <1>2, <1>3, ApplyActionIsTame
  <2> HIDE DEF d
  <2>2. QED
    BY <1>4, <2>1 DEF d
<1>10. CASE Pause \/ Resume
  BY <1>9, <1>10 DEF Pause, Resume, Local
<1>11. CASE Reconcile
  <2>1. ctl' = Bind(ctl, "reconcile") /\ "Reconcile" \in Operations
    BY <1>11 DEF Reconcile, Local
  <2>2. QED
    BY <1>2, <1>3, <2>1, BindIsTame
<1>12. QED
  BY <1>1, <1>5, <1>6, <1>7, <1>8, <1>10, <1>11 DEF Request, Abort

\* A client's write: the source takes it while the target does not serve, or the target does.
LEMMA ClientWriteIsSafe ==
    ASSUME Steady, EvolutionInv, SafetyInv, NEW comp \in Component, ClientWrite(comp)
    PROVE  Kept
<1> DEFINE n == nodes[comp]
           s == nodes["source"]
           t == nodes["target"]
           u == nodes'["source"]
           v == nodes'["target"]
           w == Cardinality(acked) + 1
           claim == [holder |-> IncarnationOf(comp), epoch |-> n.lease.epoch,
                     generation |-> n.lease.generation, token |-> n.lease.token]
           r == Write(n, IncarnationOf(comp), claim, w, now)
           m == r.node
<1>1. r.ok /\ nodes' = [nodes EXCEPT ![comp] = m] /\ acked' = acked \cup {w} /\ UNCHANGED <<ctl, late>>
  BY DEF ClientWrite
<1>2. PICK k \in 0..MaxWrites : acked = 1..k
  BY DEF EvolutionInv
<1>3. w = k + 1 /\ k \in Nat /\ Cardinality(acked) = k
  <2>1. MaxWrites \in Nat
    BY EvolutionAssumption
  <2>2. k \in Nat /\ Cardinality(1..k) = k
    BY <2>1, FS_Interval
  <2>3. QED
    BY <1>2, <2>1, <2>2
<1> HIDE DEF w
<1>4. w \in Nat /\ Cardinality(acked') = k + 1
  <2>1. acked' = 1..(k + 1)
    BY <1>1, <1>2, <1>3
  <2>2. Cardinality(1..(k + 1)) = k + 1
    BY <1>3, FS_Interval
  <2>3. QED
    BY <1>3, <2>1, <2>2
<1>5. /\ Base(ctl) /\ Kernel(ctl, s, t) /\ Course(ctl, ctl.pc, ctl.data, s, t) /\ Preserved(s, t, acked)
      /\ NodeOK(s) /\ NodeOK(t) /\ DOMAIN nodes = Component /\ late = {}
  BY SafetyIs
<1>6. /\ ~Stopped(n) /\ n.confirmed /\ m.life = n.life /\ m.confirmed = n.confirmed
      /\ Len(m.doc) = Len(n.doc) + 1 /\ m.saved = Len(m.doc)
      /\ Contents(m) = Contents(n) \cup {w} /\ Grown(n.doc, m.doc)
      /\ n.base = 0 \/ n.base < Len(n.doc) => m.base = 0 \/ m.base < Len(m.doc)
      /\ Len(m.doc) - m.base <= MaxLog
  <2>1. NodeOK(n) /\ IncarnationOf(comp) \in Incarnation
    BY IncarnationExists
  <2> HIDE DEF claim
  <2>2. QED
    BY <1>1, <1>4, <2>1, WriteIsKept
<1>7. Len(s.doc) \in Nat /\ Len(t.doc) \in Nat
  BY <1>5 DEF NodeOK
<1> HIDE DEF r, m, claim
<1>8. SUFFICES Tame(ctl, u, v) /\ Preserved(u, v, acked') /\ (Stopped(s) => Stopped(u))
  BY <1>1, <1>5 DEF Kept, SafetyInv, Stopped
<1>9. CASE comp = "source"
  <2>1. u = m /\ v = t /\ n = s
    BY <1>1, <1>5, <1>9 DEF Component
  <2> HIDE DEF n, s, t, u, v
  <2>2. ~t.confirmed /\ ctl.mem.phase # PredecessorFenced /\ (Stopped(u) <=> Stopped(s))
    <3>1. ~(ctl.mem.phase >= PredecessorFenced) /\ ~t.confirmed
      BY <1>5, <1>6, <2>1 DEF Kernel, Truthful
    <3>2. QED
      BY <1>6, <2>1, <3>1 DEF Stopped, PredecessorFenced
  <2>3. Kernel(ctl, u, v)
    <3>1. u.life = s.life
      BY <1>6, <2>1
    <3>2. Truthful(ctl.mem, u, t)
      BY <1>5, <2>2, <3>1 DEF Kernel, Truthful
    <3>3. QED
      BY <1>5, <2>1, <3>2 DEF Kernel
  <2>4. Course(ctl, ctl.pc, ctl.data, u, v)
    <3>1. \A left : ~Finishing(ctl, left, s, t)
      BY <2>2 DEF Finishing
    <3>2. ctl.pc \notin {"transfer.tgt", "transfer.read", "transfer.apply", "transfer.deliver"}
      BY <1>5, <3>1 DEF Course
    <3>3. (SourceKnown(ctl, s) => SourceKnown(ctl, u)) /\ (TargetKnown(ctl, t) => TargetKnown(ctl, v))
      BY <2>1, <2>2 DEF SourceKnown, TargetKnown
    <3>4. QED
      BY <1>5, <3>2, <3>3 DEF Course
  <2>5. Copy(t.doc, s.doc) /\ acked \subseteq Contents(s) /\ Len(s.doc) <= Cardinality(acked)
        /\ (s.base = 0 \/ s.base < Len(s.doc))
    BY <1>5, <2>2 DEF Preserved
  <2>6. Copy(v.doc, u.doc)
    BY <1>6, <2>1, <2>5 DEF Copy, Grown
  <2>7. acked' \subseteq Contents(u) /\ (u.base = 0 \/ u.base < Len(u.doc)) /\ Len(u.doc) - u.base <= MaxLog
    BY <1>1, <1>6, <2>1, <2>5
  <2>8. Len(u.doc) <= Cardinality(acked')
    BY <1>3, <1>4, <1>6, <1>7, <2>1, <2>5
  <2>9. Preserved(u, v, acked')
    BY <2>1, <2>2, <2>6, <2>7, <2>8 DEF Preserved
  <2>10. QED
    BY <2>2, <2>3, <2>4, <2>9 DEF Tame
<1>10. CASE comp = "target"
  <2>1. u = s /\ v = m /\ n = t
    BY <1>1, <1>5, <1>10 DEF Component
  <2> HIDE DEF n, s, t, u, v
  <2>2. t.confirmed /\ v.confirmed = t.confirmed /\ v.life = t.life
    BY <1>6, <2>1
  <2>3. Kernel(ctl, u, v)
    <3>1. Truthful(ctl.mem, s, v)
      BY <1>5, <2>2 DEF Kernel, Truthful
    <3>2. QED
      BY <1>5, <2>1, <3>1 DEF Kernel
  <2>4. Course(ctl, ctl.pc, ctl.data, u, v)
    <3>1. \A left : Finishing(ctl, left, s, t) => Finishing(ctl, left, u, v)
      BY <2>1, <2>2 DEF Finishing
    <3>2. ctl.pc \in {"transfer.read", "transfer.apply"} => ~Enough
      BY <1>5, <2>2 DEF Course
    <3>3. (SourceKnown(ctl, s) => SourceKnown(ctl, u)) /\ (TargetKnown(ctl, t) => TargetKnown(ctl, v))
      BY <2>1, <2>2 DEF SourceKnown, TargetKnown
    <3>4. QED
      BY <1>5, <3>1, <3>2, <3>3 DEF Course
  <2>5. Enough => acked \subseteq Contents(t) /\ Len(s.doc) <= Len(t.doc)
    BY <1>5, <2>2 DEF Preserved
  <2>6. Enough => acked' \subseteq Contents(v) /\ Len(u.doc) <= Len(v.doc) /\ v.saved = Len(v.doc)
    BY <1>1, <1>6, <1>7, <2>1, <2>5
  <2>7. /\ Len(u.doc) <= Cardinality(acked') /\ (u.base = 0 \/ u.base < Len(u.doc))
        /\ Len(u.doc) - u.base <= MaxLog
    <3>1. Len(s.doc) <= k /\ (s.base = 0 \/ s.base < Len(s.doc)) /\ Len(s.doc) - s.base <= MaxLog
      BY <1>3, <1>5 DEF Preserved
    <3>2. QED
      BY <1>3, <1>4, <1>7, <2>1, <3>1
  <2>8. Preserved(u, v, acked')
    BY <2>2, <2>6, <2>7 DEF Preserved
  <2>9. QED
    BY <2>1, <2>3, <2>4, <2>8 DEF Tame
<1>11. QED
  BY <1>9, <1>10 DEF Component

\* Every step keeps the invariant.
LEMMA NextIsSafe ==
    ASSUME Steady, EvolutionInv, SafetyInv, Counted, [Next]_vars
    PROVE  Kept
<1>1. CASE \E req \in late : ExecuteLate(req)
  BY <1>1 DEF SafetyInv
<1>2. CASE ControllerRestart
  <2>1. Tame(Reopened(ctl), nodes["source"], nodes["target"])
    BY SafetyIs, ReopenedIsTame
  <2>2. QED
    BY <1>2, <2>1, LocalIsKept DEF ControllerRestart
<1>3. CASE Tick \/ UNCHANGED vars
  <2>1. UNCHANGED <<ctl, nodes, late, acked>>
    BY <1>3 DEF Tick, vars
  <2>2. Tame(ctl', nodes["source"], nodes["target"])
    BY <2>1 DEF SafetyInv
  <2>3. QED
    BY <2>1, <2>2, LocalIsKept
<1>4. ASSUME NEW comp \in Component, NodeRestart(comp) PROVE FALSE
  <2>1. NodeOK(nodes[comp])
    BY IncarnationExists
  <2>2. nodes[comp].boot \in 1..MaxBoot /\ nodes[comp].boot < MaxBoot /\ MaxBoot = 1
    BY <1>4, <2>1 DEF NodeOK, NodeRestart, Steady
  <2> DEFINE b == nodes[comp].boot
  <2> HIDE DEF b
  <2>3. b \in 1..1 /\ b < 1
    BY <2>2 DEF b
  <2>4. QED
    BY <2>3
<1>5. QED
  BY <1>1, <1>2, <1>3, <1>4, RequestIsSafe, StepIsSafe, ClientWriteIsSafe DEF Next

\* The invariant holds at first.
LEMMA InitIsSafe ==
    ASSUME Init
    PROVE  SafetyInv /\ Counted
<1> DEFINE s == nodes["source"]
           t == nodes["target"]
<1>1. /\ ctl.mem = InitialMemory /\ ctl.disk = InitialMemory /\ ctl.pc = "idle" /\ ctl.rounds = 0
      /\ late = {} /\ acked = {}
  BY DEF Init
<1>2. \A schema : /\ FreshNode(schema).life = "Serving" /\ ~FreshNode(schema).confirmed
                  /\ FreshNode(schema).doc = <<>> /\ FreshNode(schema).base = 0
  BY DEF FreshNode
<1>3. s = FreshNode(SourceSchema) /\ t = FreshNode(TargetSchema)
  BY DEF Init, Component
<1>4. s.life = "Serving" /\ ~t.confirmed /\ t.life = "Serving" /\ s.doc = <<>> /\ t.doc = <<>> /\ s.base = 0
  BY <1>2, <1>3
<1> HIDE DEF s, t
<1>5. ctl.mem.phase = NoHandoff /\ ctl.mem.camp = "Planned" /\ Open(ctl.mem) = {}
  BY <1>1 DEF InitialMemory, Established, Open, OutstandingFences
<1>6. Kernel(ctl, s, t)
  <2>1. Ordered(ctl.mem) /\ Recoverable(ctl.mem, ctl.disk) /\ ctl.disk = ctl.mem
    BY <1>1, <1>5 DEF Ordered, Recoverable, NoHandoff, PredecessorRetired
  <2>2. Truthful(ctl.mem, s, t)
    BY <1>4, <1>5 DEF Truthful, Stopped, NoHandoff, PredecessorFenced, AuthorityTransferred, PredecessorRetired
  <2>3. QED
    BY <2>1, <2>2 DEF Kernel
<1>7. Course(ctl, ctl.pc, ctl.data, s, t)
  BY <1>1 DEF Course
<1>8. Preserved(s, t, acked)
  <2>1. Cardinality(acked) = 0
    BY <1>1, FS_EmptySet
  <2>2. Copy(t.doc, s.doc) /\ Len(s.doc) = 0
    BY <1>4 DEF Copy
  <2>3. QED
    BY <1>1, <1>4, <2>1, <2>2, NodeAssumption DEF Preserved
<1>9. Counted
  BY DEF Init, Counted
<1>10. QED
  BY <1>1, <1>6, <1>7, <1>8, <1>9 DEF SafetyInv, Tame, s, t

\* A count is raised by one or stays.
Counts == \/ faults' = faults
          \/ faults' = [faults EXCEPT !.calls = faults.calls + 1]
          \/ faults' = [faults EXCEPT !.crashes = faults.crashes + 1]

\* Every call counts what fails.
LEMMA StepCounts ==
    ASSUME Step
    PROVE  Counts
<1>1. ASSUME SourceReport \/ TargetReport \/ EnsureRenew \/ EnsureReattest \/ EnsureDeliver
      PROVE  Counts
  BY <1>1 DEF SourceReport, TargetReport, EnsureRenew, EnsureReattest, EnsureDeliver, Call, Counts
<1>2. ASSUME PreparePred \/ PrepareSucc \/ SnapshotPrepare \/ SnapshotTake \/ SnapshotInstall
      PROVE  Counts
  BY <1>2 DEF PreparePred, PrepareSucc, SnapshotPrepare, SnapshotTake, SnapshotInstall, Call, Counts
<1>3. ASSUME CatchUpFetch \/ CatchUpApply \/ CatchUpSource \/ CatchUpTarget \/ CatchUpMigrate \/ VerifyReadiness
      PROVE  Counts
  BY <1>3 DEF CatchUpFetch, CatchUpApply, CatchUpSource, CatchUpTarget, CatchUpMigrate, VerifyReadiness, Call, Counts
<1>4. ASSUME FencePredecessor \/ TransferSource \/ TransferTarget \/ TransferRead \/ TransferApply \/ TransferDeliver
      PROVE  Counts
  BY <1>4 DEF FencePredecessor, TransferSource, TransferTarget, TransferRead, TransferApply, TransferDeliver,
              Call, Counts
<1>5. ASSUME VerifyReport \/ VerifyProbe \/ VerifyWrite \/ RetirePredecessor
      PROVE  Counts
  BY <1>5 DEF VerifyReport, VerifyProbe, VerifyWrite, RetirePredecessor, Call, Counts
<1>6. ASSUME AbortSource \/ AbortDeliver \/ AbortRetire
      PROVE  Counts
  BY <1>6 DEF AbortSource, AbortDeliver, AbortRetire, Call, Counts
<1>7. QED
  BY <1>1, <1>2, <1>3, <1>4, <1>5, <1>6 DEF Step

\* What fails is counted.
LEMMA NextCounts ==
    ASSUME Counted, DOMAIN faults = {"calls", "crashes"}, [Next]_vars
    PROVE  Counted' /\ DOMAIN faults' = {"calls", "crashes"}
<1>1. Counts
  <2>1. CASE Request
    BY <2>1 DEF Request, Plan, Preflight, Start, Advance, Pause, Resume, Abort, Reconcile, Local, Counts
  <2>2. CASE \E req \in late : ExecuteLate(req)
    BY <2>2 DEF ExecuteLate, Counts
  <2>3. CASE \E comp \in Component : ClientWrite(comp) \/ NodeRestart(comp)
    BY <2>3 DEF ClientWrite, NodeRestart, Counts
  <2>4. CASE ControllerRestart \/ Tick \/ UNCHANGED vars
    BY <2>4 DEF ControllerRestart, Tick, vars, Counts
  <2>5. QED
    BY <2>1, <2>2, <2>3, <2>4, StepCounts DEF Next
<1>2. QED
  BY <1>1 DEF Counts, Counted

\* A source that has stopped accepts nothing.
LEMMA SourceIsStopped ==
    ASSUME EvolutionInv, Stopped(nodes["source"])
    PROVE  "source" \notin Writers
<1>1. NodeOK(nodes["source"])
  BY DEF EvolutionInv, NodesInv
<1>2. nodes["source"].life \in {"Fenced", "Retired"}
  BY <1>1 DEF NodeOK, Stopped
<1>3. QED
  BY <1>2 DEF Writers, MayMutate

----------------------------------------------------------------------------
(* Theorems about handoffs *)

\* The inductive invariant of a handoff between components that stay up: what the recorded phase
\* says of them, what each call the controller is about to make relies on, and where the
\* acknowledged writes are.
THEOREM HandoffInvariant ==
    ASSUME Steady
    PROVE  Spec => [](SafetyInv /\ Counted)
<1> DEFINE Inv == SafetyInv /\ Counted /\ DOMAIN faults = {"calls", "crashes"}
<1>1. Init => Inv
  <2>1. Init => DOMAIN faults = {"calls", "crashes"}
    BY DEF Init
  <2>2. QED
    BY <2>1, InitIsSafe
<1>2. EvolutionInv /\ Inv /\ [Next]_vars => Inv'
  BY NextIsSafe, NextCounts DEF Kept
<1>3. QED
  BY <1>1, <1>2, EvolutionInvariant, PTL DEF Spec

\* The README's first invariant, at the components: source and target never accept mutations at the
\* same time, through any number of lost calls, lost answers and restarts of the controller, and
\* wherever the leases of registry and components have drifted to (require_authority in node.cpp,
\* advance_fence and advance_transfer in controller.cpp).
THEOREM OneWriter ==
    ASSUME Steady
    PROVE  Spec => []SingleWriter
<1>1. EvolutionInv /\ SafetyInv => SingleWriter
  <2> SUFFICES ASSUME EvolutionInv, SafetyInv PROVE SingleWriter
    OBVIOUS
  <2>1. nodes["target"].confirmed => "source" \notin Writers
    BY SourceIsStopped, SafetyIs DEF Kernel, Truthful
  <2>2. ~("source" \in Writers /\ "target" \in Writers)
    BY <2>1 DEF Writers, MayMutate, HasAuthority
  <2>3. \E comp \in Component : Writers \subseteq {comp}
    BY <2>2 DEF Writers, Component
  <2>4. PICK comp \in Component : Writers \subseteq {comp}
    BY <2>3
  <2>5. IsFiniteSet({comp}) /\ Cardinality({comp}) = 1
    BY FS_Singleton
  <2>6. Cardinality(Writers) <= Cardinality({comp})
    BY <2>4, <2>5, FS_Subset
  <2>7. QED
    BY <2>5, <2>6 DEF SingleWriter
<1>2. QED
  BY <1>1, EvolutionInvariant, HandoffInvariant, PTL

\* Nobody is unfenced: a process that has obeyed a fence does not accept writes again, whatever grants,
\* renewals and re-attestations were on their way to it.
THEOREM FencedStaysFenced ==
    ASSUME Steady
    PROVE  Spec => NobodyUnfenced
<1> DEFINE Obeyed(comp) == nodes[comp].life = "Fenced" /\ nodes'[comp].boot = nodes[comp].boot
                             => ~MayMutate(nodes[comp], now)'
<1>1. EvolutionInv /\ EvolutionInv' /\ SafetyInv /\ Counted /\ [Next]_vars => [\A comp \in Component : Obeyed(comp)]_vars
  <2> SUFFICES ASSUME EvolutionInv, EvolutionInv', SafetyInv, Counted, [Next]_vars
               PROVE  \A comp \in Component : Obeyed(comp)
    OBVIOUS
  <2>1. Obeyed("source")
    <3>1. Stopped(nodes["source"]) => Stopped(nodes["source"])'
      BY NextIsSafe DEF Kept
    <3>2. nodes["source"].life = "Fenced" => nodes'["source"].life # "Serving"
      BY <3>1 DEF Stopped
    <3>3. NodeOK(nodes["source"])'
      BY DEF EvolutionInv, NodesInv
    <3>4. nodes'["source"].life \in {"Serving", "Fenced", "Retired"}
      BY <3>3 DEF NodeOK
    <3>5. QED
      BY <3>2, <3>4 DEF MayMutate
  <2>2. Obeyed("target")
    BY SafetyIs DEF Kernel, Truthful
  <2> HIDE DEF Obeyed
  <2>3. QED
    BY <2>1, <2>2 DEF Component
<1>2. QED
  BY <1>1, EvolutionInvariant, HandoffInvariant, PTL DEF Spec, NobodyUnfenced

\* Once the handoff has reached PredecessorFenced, no fence of the predecessor is left open to keep the
\* mutation slot from the successor (acknowledge_fence in advance_fence), as long as nothing fails
\* or nobody calls reconcile.
THEOREM FenceIsSettled ==
    ASSUME Steady, Settling
    PROVE  Spec => []FenceSettled
<1>1. EvolutionInv /\ SafetyInv => FenceSettled
  <2> SUFFICES ASSUME EvolutionInv, SafetyInv, ctl.mem.phase \in PredecessorFenced..PredecessorRetired
               PROVE  OutstandingFences(ctl.mem.auth, ctl.mem.pred) = {}
    BY DEF FenceSettled
  <2>1. Kernel(ctl, nodes["source"], nodes["target"])
    BY SafetyIs
  <2>2. ctl.mem.phase >= PredecessorFenced /\ ctl.mem.phase # NoHandoff
    BY DEF PredecessorFenced, PredecessorRetired, NoHandoff
  <2>3. ctl.mem.pred = SourceInc /\ Open(ctl.mem) = {}
    BY <2>1, <2>2 DEF Kernel, Ordered, Truthful
  <2>4. QED
    BY <2>3 DEF Open
<1>2. QED
  BY <1>1, EvolutionInvariant, HandoffInvariant, PTL

\* A component that accepts mutations has every write a client was told is durable, through any number
\* of interrupted and repeated snapshots, catch-ups and transfers, when the rounds of the final
\* catch-up (max_catch_up_rounds) can carry what clients write.
THEOREM WritesArePreserved ==
    ASSUME Steady, Enough
    PROVE  Spec => []NoLostWrite
<1>1. EvolutionInv /\ SafetyInv => NoLostWrite
  <2> SUFFICES ASSUME EvolutionInv, SafetyInv PROVE NoLostWrite
    OBVIOUS
  <2>1. /\ Kernel(ctl, nodes["source"], nodes["target"])
        /\ Preserved(nodes["source"], nodes["target"], acked)
    BY SafetyIs
  <2>2. "target" \in Writers => acked \subseteq Contents(nodes["target"])
    BY <2>1 DEF Preserved, Writers, MayMutate, HasAuthority
  <2>3. "source" \in Writers => ~nodes["target"].confirmed
    BY <2>1, SourceIsStopped DEF Kernel, Truthful
  <2>4. "source" \in Writers => acked \subseteq Contents(nodes["source"])
    BY <2>1, <2>3 DEF Preserved
  <2>5. Writers \subseteq {"source", "target"}
    BY DEF Writers, Component
  <2>6. QED
    BY <2>2, <2>4, <2>5 DEF NoLostWrite
<1>2. QED
  BY <1>1, EvolutionInvariant, HandoffInvariant, PTL

\* The recorded phase is never ahead of the facts: from PredecessorFenced on the predecessor does not
\* mutate, from AuthorityTransferred on the successor has saved every acknowledged write, and a
\* restart of the controller finds the phase an operator was shown (record_phase in controller.cpp).
THEOREM PhaseMatchesFacts ==
    ASSUME Steady, Enough
    PROVE  Spec => []PhaseIsReal
<1>1. EvolutionInv /\ SafetyInv => PhaseIsReal
  <2> SUFFICES ASSUME EvolutionInv, SafetyInv PROVE PhaseIsReal
    OBVIOUS
  <2> DEFINE p == ctl.mem.phase
             t == nodes["target"]
  <2>1. /\ Kernel(ctl, nodes["source"], t)
        /\ Preserved(nodes["source"], t, acked)
        /\ NodeOK(t)
    BY SafetyIs
  <2>2. p \in PredecessorFenced..PredecessorRetired => "source" \notin Writers
    <3>1. p >= PredecessorFenced => "source" \notin Writers
      BY <2>1, SourceIsStopped DEF Kernel, Truthful
    <3>2. p \in PredecessorFenced..PredecessorRetired => p >= PredecessorFenced
      BY DEF PredecessorFenced, PredecessorRetired
    <3>3. QED
      BY <3>1, <3>2
  <2>3. p \in AuthorityTransferred..PredecessorRetired => acked \subseteq {t.doc[i].value : i \in 1..t.saved}
    <3>1. p \in AuthorityTransferred..PredecessorRetired => p >= AuthorityTransferred
      BY DEF AuthorityTransferred, PredecessorRetired
    <3>2. p >= AuthorityTransferred => t.confirmed
      BY <2>1 DEF Kernel, Truthful
    <3>3. t.confirmed => acked \subseteq Contents(t) /\ t.saved = Len(t.doc)
      BY <2>1 DEF Preserved
    <3>4. DOMAIN t.doc = 1..Len(t.doc)
      BY <2>1 DEF NodeOK
    <3>5. QED
      BY <3>1, <3>2, <3>3, <3>4 DEF Contents
  <2>4. p > NotStarted => ctl.disk.phase = p
    <3>1. p = ctl.disk.phase \/ p = NotStarted
      BY <2>1 DEF Kernel, Recoverable
    <3>2. QED
      BY <3>1 DEF NotStarted
  <2> HIDE DEF p
  <2>5. QED
    BY <2>2, <2>3, <2>4 DEF PhaseIsReal, p
<1>2. QED
  BY <1>1, EvolutionInvariant, HandoffInvariant, PTL
=============================================================================
