-------------------------- MODULE RecordFileProofs --------------------------
(***************************************************************************)
(* Facts about the record logs and sequences of RecordFile, for the proofs  *)
(* about the components that keep them.                                     *)
(***************************************************************************)
EXTENDS RecordFile, FiniteSets, SequenceTheorems, FiniteSetTheorems,
        WellFoundedInduction, TLAPS

----------------------------------------------------------------------------
(* Natural numbers *)

\* A set of natural numbers with an element has a least one.
LEMMA LeastElement ==
    ASSUME NEW S \in SUBSET Nat, S # {}
    PROVE  \E i \in S : \A j \in S : i <= j
<1> DEFINE Less == {ss \in Nat \X Nat : ss[1] < ss[2]}
<1>1. IsWellFoundedOn(Less, Nat)
  BY NatLessThanWellFounded, Zenon DEF OpToRel
<1>2. PICK i \in S : \A j \in S : ~(<<j, i>> \in Less)
  <2> HIDE DEF Less
  <2> QED BY <1>1, WFMin
<1>3. ASSUME NEW j \in S
      PROVE  i <= j
  <2>1. j \in Nat /\ i \in Nat
    OBVIOUS
  <2>2. j < i => <<j, i>> \in Less
    BY <2>1
  <2>3. ~(j < i)
    BY <1>2, <2>2
  <2>4. QED
    BY <2>1, <2>3
<1>4. QED
  BY <1>3

\* Induction over the natural numbers up to n, for the set of those with the property.
LEMMA UpTo ==
    ASSUME NEW n \in Nat, NEW S, 0 \in S,
           \A i \in 0..n : i \in S /\ i < n => i + 1 \in S
    PROVE  \A i \in 0..n : i \in S
<1> DEFINE Bad == {i \in 0..n : i \notin S}
<1> SUFFICES ASSUME Bad # {} PROVE FALSE
  OBVIOUS
<1>1. PICK m \in Bad : \A j \in Bad : m <= j
  <2>1. Bad \in SUBSET Nat
    OBVIOUS
  <2> HIDE DEF Bad
  <2>2. QED
    BY <2>1, LeastElement
<1>2. m # 0 /\ m \in 1..n
  BY <1>1
<1>3. m - 1 \in 0..n /\ m - 1 \notin Bad /\ m - 1 < n /\ (m - 1) + 1 = m
  BY <1>1, <1>2
<1>4. QED
  BY <1>1, <1>3

\* f starts with e, and h makes each value from the one before.
Iterates(f, e, h, n) == f[0] = e /\ \A i \in 1..n : f[i] = h[<<i, f[i - 1]>>]

\* A recursive definition over 0..n has a solution: what makes the CHOOSE behind f[i \in 0..n]
\* == ... denote a function.
LEMMA Iteration ==
    ASSUME NEW n \in Nat, NEW T, NEW e \in T, NEW h \in [(1..n) \X T -> T]
    PROVE  \E f \in [0..n -> T] : Iterates(f, e, h, n)
<1> DEFINE Solves(f, k) == f[0] = e /\ \A i \in 1..k : f[i] = h[<<i, f[i - 1]>>]
           S == {k \in 0..n : \E f \in [0..k -> T] : Solves(f, k)}
<1>1. 0 \in S
  <2>1. [i \in 0..0 |-> e] \in [0..0 -> T] /\ Solves([i \in 0..0 |-> e], 0)
    OBVIOUS
  <2>2. 0 \in 0..n
    OBVIOUS
  <2>3. QED
    BY <2>1, <2>2, Zenon
<1>2. ASSUME NEW k \in 0..n, k \in S, k < n
      PROVE  k + 1 \in S
  <2>1. PICK f \in [0..k -> T] : Solves(f, k)
    BY <1>2
  <2> DEFINE v == h[<<k + 1, f[k]>>]
             g == [i \in 0..(k + 1) |-> IF i <= k THEN f[i] ELSE v]
  <2>2. k \in Nat /\ k + 1 \in 1..n /\ k + 1 \in 0..n /\ f[k] \in T
    BY <1>2
  <2>3. v \in T
    BY <2>2
  <2> HIDE DEF v
  <2>4. g \in [0..(k + 1) -> T]
    BY <2>2, <2>3
  <2>5. g[0] = e
    BY <2>1, <2>2
  <2>6. ASSUME NEW i \in 1..(k + 1)
        PROVE  g[i] = h[<<i, g[i - 1]>>]
    <3>1. CASE i <= k
      BY <2>1, <2>2, <3>1
    <3>2. CASE ~(i <= k)
      <4>1. i = k + 1 /\ i - 1 = k
        BY <2>2, <3>2
      <4>2. g[i] = v /\ g[i - 1] = f[k]
        BY <2>2, <4>1
      <4>3. QED
        BY <4>1, <4>2 DEF v
    <3>3. QED
      BY <3>1, <3>2
  <2>7. Solves(g, k + 1)
    BY <2>5, <2>6
  <2>8. QED
    BY <2>2, <2>4, <2>7
<1>3. n \in S
  <2> HIDE DEF S
  <2>1. \A i \in 0..n : i \in S
    BY <1>1, <1>2, UpTo
  <2>2. QED
    BY <2>1
<1>4. QED
  BY <1>3 DEF Iterates

----------------------------------------------------------------------------
(* Record logs *)

\* A log whose cells are told apart by whether they are intact.
Cells(R) == Seq([intact: BOOLEAN, rec: R])

\* read_records stops at one place: behind intact cells only, before one that is not.
LEMMA ReadableStops ==
    ASSUME NEW R, NEW log \in Cells(R)
    PROVE  /\ Readable(log) \in 0..Len(log)
           /\ \A i \in 1..Readable(log) : log[i].intact
           /\ Readable(log) < Len(log) => ~log[Readable(log) + 1].intact
<1> DEFINE Stops(k) == (\A i \in 1..k : log[i].intact) /\ (k < Len(log) => ~log[k + 1].intact)
<1>1. Len(log) \in Nat
  BY DEF Cells
<1>2. \E k \in 0..Len(log) : Stops(k)
  <2> DEFINE Bad == {i \in 1..Len(log) : ~log[i].intact}
  <2>1. CASE Bad = {}
    <3>1. Len(log) \in 0..Len(log) /\ Stops(Len(log))
      BY <2>1, <1>1
    <3>2. QED
      BY <3>1
  <2>2. CASE Bad # {}
    <3>1. PICK m \in Bad : \A j \in Bad : m <= j
      <4>1. Bad \in SUBSET Nat
        BY <1>1
      <4> HIDE DEF Bad
      <4>2. QED
        BY <2>2, <4>1, LeastElement
    <3>2. m - 1 \in 0..Len(log) /\ (m - 1) + 1 = m
      BY <1>1, <3>1
    <3>3. \A i \in 1..(m - 1) : log[i].intact
      BY <1>1, <3>1
    <3>4. Stops(m - 1)
      BY <3>1, <3>2, <3>3
    <3>5. QED
      BY <3>2, <3>4
  <2>3. QED
    BY <2>1, <2>2
<1>3. QED
  BY <1>2 DEF Readable

\* ... and there is only one such place.
LEMMA ReadableIsUnique ==
    ASSUME NEW R, NEW log \in Cells(R), NEW k \in 0..Len(log),
           \A i \in 1..k : log[i].intact,
           k < Len(log) => ~log[k + 1].intact
    PROVE  Readable(log) = k
<1> DEFINE r == Readable(log)
<1>1. /\ r \in 0..Len(log)
      /\ \A i \in 1..r : log[i].intact
      /\ r < Len(log) => ~log[r + 1].intact
  BY ReadableStops
<1> HIDE DEF r
<1>2. Len(log) \in Nat
  BY DEF Cells
<1>3. ~(r < k)
  BY <1>1, <1>2
<1>4. ~(k < r)
  BY <1>1, <1>2
<1>5. r = k
  BY <1>1, <1>2, <1>3, <1>4
<1>6. QED
  BY <1>5 DEF r

\* An append adds at most itself to what can be read, and nothing behind a damaged cell.
LEMMA ReadableOfAppend ==
    ASSUME NEW R, NEW log \in Cells(R), NEW c \in [intact: BOOLEAN, rec: R]
    PROVE  /\ Append(log, c) \in Cells(R)
           /\ Readable(Append(log, c)) =
                IF Readable(log) = Len(log) /\ c.intact THEN Len(log) + 1 ELSE Readable(log)
<1> DEFINE new == Append(log, c)
           k == IF Readable(log) = Len(log) /\ c.intact THEN Len(log) + 1 ELSE Readable(log)
<1>1. /\ new \in Cells(R)
      /\ Len(new) = Len(log) + 1
      /\ \A i \in 1..Len(log) : new[i] = log[i]
      /\ new[Len(log) + 1] = c
      /\ Len(log) \in Nat
  BY AppendProperties, LenProperties DEF Cells
<1>2. /\ Readable(log) \in 0..Len(log)
      /\ \A i \in 1..Readable(log) : log[i].intact
      /\ Readable(log) < Len(log) => ~log[Readable(log) + 1].intact
  BY ReadableStops
<1> HIDE DEF new
<1>3. k \in 0..Len(new) /\ (\A i \in 1..k : new[i].intact) /\ (k < Len(new) => ~new[k + 1].intact)
  <2>1. CASE Readable(log) = Len(log) /\ c.intact
    BY <1>1, <1>2, <2>1
  <2>2. CASE Readable(log) = Len(log) /\ ~c.intact
    BY <1>1, <1>2, <2>2
  <2>3. CASE Readable(log) # Len(log)
    <3>1. k = Readable(log) /\ k \in 0..Len(log) /\ k < Len(log) /\ k + 1 \in 1..Len(log)
      BY <1>1, <1>2, <2>3
    <3> HIDE DEF k
    <3>2. new[k + 1] = log[k + 1] /\ ~log[k + 1].intact
      BY <1>1, <1>2, <3>1
    <3>3. \A i \in 1..k : new[i] = log[i] /\ log[i].intact
      BY <1>1, <1>2, <3>1
    <3>4. k \in 0..Len(new)
      BY <1>1, <3>1
    <3>5. QED
      BY <3>2, <3>3, <3>4
  <2>4. QED
    BY <2>1, <2>2, <2>3
<1>4. Readable(new) = k
  BY <1>1, <1>3, ReadableIsUnique
<1>5. QED
  BY <1>1, <1>4 DEF new

\* A log written in one piece can be read to its end.
LEMMA LogOfIsReadable ==
    ASSUME NEW R, NEW records \in Seq(R)
    PROVE  /\ LogOf(records) \in Cells(R)
           /\ Len(LogOf(records)) = Len(records)
           /\ Readable(LogOf(records)) = Len(records)
           /\ \A i \in 1..Len(records) : LogOf(records)[i].rec = records[i]
<1>1. Len(records) \in Nat /\ \A i \in 1..Len(records) : records[i] \in R
  BY LenProperties, ElementOfSeq
<1>2. LogOf(records) \in Cells(R) /\ Len(LogOf(records)) = Len(records)
  BY <1>1, IsASeq DEF LogOf, Intact, Cells
<1>3. \A i \in 1..Len(records) : LogOf(records)[i] = Intact(records[i])
  BY DEF LogOf
<1>4. Readable(LogOf(records)) = Len(records)
  <2>1. \A i \in 1..Len(records) : LogOf(records)[i].intact
    <3>1. \A r : Intact(r).intact = TRUE
      BY DEF Intact
    <3>2. QED
      BY <1>3, <3>1, Zenon
  <2>2. Len(records) \in 0..Len(LogOf(records)) /\ ~(Len(records) < Len(LogOf(records)))
    BY <1>1, <1>2
  <2>3. QED
    BY <1>2, <2>1, <2>2, ReadableIsUnique
<1>5. \A i \in 1..Len(records) : Intact(records[i]).rec = records[i]
  BY DEF Intact
<1>6. QED
  BY <1>2, <1>3, <1>4, <1>5

\* What is read back is the readable records, in order.
LEMMA ReadRecordsType ==
    ASSUME NEW R, NEW log \in Cells(R)
    PROVE  /\ ReadRecords(log) \in Seq(R)
           /\ Len(ReadRecords(log)) = Readable(log)
           /\ \A i \in 1..Readable(log) : ReadRecords(log)[i] = log[i].rec
<1>1. Readable(log) \in Nat /\ Readable(log) \in 0..Len(log) /\ Len(log) \in Nat
  <2>1. Len(log) \in Nat
    BY DEF Cells
  <2>2. Readable(log) \in 0..Len(log)
    BY ReadableStops
  <2>3. QED
    BY <2>1, <2>2
<1>2. \A i \in 1..Readable(log) : log[i].rec \in R
  <2>1. \A i \in 1..Len(log) : log[i] \in [intact: BOOLEAN, rec: R]
    BY ElementOfSeq, Zenon DEF Cells
  <2>2. QED
    BY <1>1, <2>1
<1>3. QED
  BY <1>1, <1>2, IsASeq DEF ReadRecords

----------------------------------------------------------------------------
(* Trimming *)

\* Newest keeps the end of a sequence, n records of it if there are as many.
LEMMA NewestIsSuffix ==
    ASSUME NEW R, NEW records \in Seq(R), NEW n \in Nat
    PROVE  /\ Newest(records, n) \in Seq(R)
           /\ Len(Newest(records, n)) = IF Len(records) <= n THEN Len(records) ELSE n
           /\ \A i \in 1..Len(Newest(records, n)) :
                Newest(records, n)[i] = records[Len(records) - Len(Newest(records, n)) + i]
<1>1. Len(records) \in Nat /\ \A i \in 1..Len(records) : records[i] \in R
  BY LenProperties, ElementOfSeq
<1>2. CASE Len(records) <= n
  BY <1>1, <1>2 DEF Newest
<1>3. CASE ~(Len(records) <= n)
  <2> DEFINE lo == Len(records) - n + 1
             hi == Len(records)
             sub == SubSeq(records, lo, hi)
  <2>1. lo \in Int /\ hi \in Int /\ lo <= hi + 1 /\ hi - lo + 1 = n /\ 1 <= lo
    BY <1>1, <1>3
  <2>2. \A i \in lo..hi : records[i] \in R
    BY <1>1, <2>1
  <2> HIDE DEF lo, hi
  <2>3. /\ sub \in Seq(R)
        /\ Len(sub) = IF lo <= hi THEN hi - lo + 1 ELSE 0
        /\ \A i \in 1..(hi - lo + 1) : sub[i] = records[lo + i - 1]
    BY <2>1, <2>2, SubSeqProperties
  <2>4. Newest(records, n) = sub
    BY <1>3 DEF Newest, lo, hi
  <2> HIDE DEF sub
  <2>5. Len(sub) = n
    BY <2>1, <2>3
  <2>6. \A i \in 1..n : lo + i - 1 = Len(records) - n + i
    BY <1>1 DEF lo
  <2>7. \A i \in 1..n : sub[i] = records[Len(records) - n + i]
    BY <2>1, <2>3, <2>6
  <2>8. QED
    BY <1>3, <2>3, <2>4, <2>5, <2>7
<1>4. QED
  BY <1>2, <1>3

\* Keep is half the capacity, and at least one.
LEMMA KeepBounds ==
    ASSUME NEW capacity \in Nat \ {0}
    PROVE  Keep(capacity) \in 1..capacity
BY DEF Keep
=============================================================================
