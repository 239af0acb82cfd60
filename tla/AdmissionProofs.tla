-------------------------- MODULE AdmissionProofs ---------------------------
(***************************************************************************)
(* Proofs about Admission: what is admitted can be negotiated, what was     *)
(* negotiated is safe, a successor that is ready has run the admitted path, *)
(* and a downgrade undoes a migration.  Recursive definitions are reasoned  *)
(* about with the lemmas on iteration of RecordFileProofs.                  *)
(***************************************************************************)
EXTENDS Admission, RecordFileProofs

----------------------------------------------------------------------------
(* Documents *)

\* The fields a document over the keys in K may have, within the limits.
FieldsOver(K) == {f \in UNION {[D -> Seq(Token)] : D \in SUBSET K} : IsFields(f)}

DocumentOver(K) == [schema: Nat, fields: FieldsOver(K)]

\* What a transformation must be for Apply to be defined on it.
IsStep(step, K) == {step.key, step.newKey} \subseteq K /\ step.value \in Seq(Token)

\* A member of FieldsOver(K) is known by its domain and its values.
LEMMA FieldsByDomain ==
    ASSUME NEW K, NEW f
    PROVE  f \in FieldsOver(K) <=> IsFields(f) /\ DOMAIN f \subseteq K
<1>1. ASSUME f \in FieldsOver(K)
      PROVE  IsFields(f) /\ DOMAIN f \subseteq K
  BY <1>1 DEF FieldsOver
<1>2. ASSUME IsFields(f), DOMAIN f \subseteq K
      PROVE  f \in FieldsOver(K)
  <2>1. f \in [DOMAIN f -> Seq(Token)] /\ DOMAIN f \in SUBSET K
    BY <1>2 DEF IsFields
  <2>2. f \in UNION {[D -> Seq(Token)] : D \in SUBSET K}
    BY <2>1
  <2>3. QED
    BY <1>2, <2>2 DEF FieldsOver
<1>3. QED
  BY <1>1, <1>2

\* The fields with one of them set, as put leaves them.
With(f, key, value) == [k \in DOMAIN f \cup {key} |-> IF k = key THEN value ELSE f[k]]

\* put gives fields within the limits, or is refused; it is refused for a value that is too
\* long and for a field more than a document may have.
LEMMA PutKeepsLimits ==
    ASSUME NEW f, IsFields(f), NEW key, NEW value \in Seq(Token)
    PROVE  /\ Put(f, key, value) \in {{}, {With(f, key, value)}}
           /\ Put(f, key, value) # {} => IsFields(With(f, key, value))
           /\ Put(f, key, value) = {} <=>
                \/ Len(value) > MaxValue
                \/ (key \notin DOMAIN f /\ Cardinality(DOMAIN f) >= MaxFields)
<1> DEFINE D == DOMAIN f
           g == With(f, key, value)
<1>1. Put(f, key, value) \in {{}, {g}}
  BY DEF Put, With
<1>2. Put(f, key, value) = {} <=>
        Len(value) > MaxValue \/ (key \notin D /\ Cardinality(D) >= MaxFields)
  BY DEF Put
<1>3. ASSUME Put(f, key, value) # {}
      PROVE  IsFields(g)
  <2>1. f \in [D -> Seq(Token)] /\ IsFiniteSet(D) /\ Cardinality(D) <= MaxFields
        /\ \A k \in D : Len(f[k]) <= MaxValue
    BY DEF IsFields
  <2>2. DOMAIN g = D \cup {key} /\ \A k \in DOMAIN g : g[k] = IF k = key THEN value ELSE f[k]
    BY DEF With
  <2>3. g \in [DOMAIN g -> Seq(Token)]
    BY <2>1 DEF With
  <2>4. IsFiniteSet(D \cup {key}) /\ Cardinality(D \cup {key}) =
            IF key \in D THEN Cardinality(D) ELSE Cardinality(D) + 1
    BY <2>1, FS_AddElement
  <2>5. MaxFields \in Nat /\ MaxValue \in Nat /\ Cardinality(D) \in Nat /\ Len(value) \in Nat
    BY <2>1, MigrationAssumption, FS_CardinalityType
  <2>6. Len(value) <= MaxValue /\ (key \in D \/ Cardinality(D) < MaxFields)
    BY <1>2, <1>3, <2>5
  <2>7. Cardinality(D \cup {key}) <= MaxFields
    BY <2>1, <2>4, <2>5, <2>6
  <2>8. \A k \in DOMAIN g : Len(g[k]) <= MaxValue
    BY <2>1, <2>2, <2>6
  <2>9. QED
    BY <2>2, <2>3, <2>4, <2>7, <2>8 DEF IsFields
<1>4. QED
  BY <1>1, <1>2, <1>3

\* Removing a field keeps the limits.
LEMMA RemoveKeepsLimits ==
    ASSUME NEW f, IsFields(f), NEW key
    PROVE  /\ IsFields(Remove(f, key))
           /\ DOMAIN Remove(f, key) = DOMAIN f \ {key}
           /\ Cardinality(DOMAIN Remove(f, key)) =
                IF key \in DOMAIN f THEN Cardinality(DOMAIN f) - 1 ELSE Cardinality(DOMAIN f)
<1> DEFINE D == DOMAIN f
           g == Remove(f, key)
<1>1. f \in [D -> Seq(Token)] /\ IsFiniteSet(D) /\ Cardinality(D) <= MaxFields
      /\ \A k \in D : Len(f[k]) <= MaxValue
  BY DEF IsFields
<1>2. DOMAIN g = D \ {key} /\ \A k \in DOMAIN g : g[k] = f[k]
  BY DEF Remove
<1>3. g \in [DOMAIN g -> Seq(Token)]
  BY <1>1 DEF Remove
<1>4. IsFiniteSet(D \ {key}) /\ Cardinality(D \ {key}) =
          IF key \in D THEN Cardinality(D) - 1 ELSE Cardinality(D)
  BY <1>1, FS_RemoveElement
<1>5. MaxFields \in Nat /\ Cardinality(D) \in Nat
  BY <1>1, MigrationAssumption, FS_CardinalityType
<1>6. Cardinality(D \ {key}) <= MaxFields
  BY <1>1, <1>4, <1>5
<1>7. QED
  BY <1>1, <1>2, <1>3, <1>4, <1>6 DEF IsFields

\* Setting a field of fields over K gives fields over K, and removing one too.
LEMMA FieldsStayOver ==
    ASSUME NEW K, NEW f \in FieldsOver(K), NEW key, NEW value \in Seq(Token)
    PROVE  /\ key \in K => \A g \in Put(f, key, value) : g \in FieldsOver(K)
           /\ Remove(f, key) \in FieldsOver(K)
           /\ \A g, h \in Put(f, key, value) : g = h
<1>1. IsFields(f) /\ DOMAIN f \subseteq K
  BY FieldsByDomain
<1>2. ASSUME key \in K, NEW g \in Put(f, key, value)
      PROVE  g \in FieldsOver(K)
  <2>1. g = With(f, key, value) /\ IsFields(With(f, key, value))
    BY <1>1, <1>2, PutKeepsLimits
  <2>2. DOMAIN With(f, key, value) \subseteq K
    BY <1>1, <1>2 DEF With
  <2>3. QED
    BY <2>1, <2>2, FieldsByDomain
<1>3. Remove(f, key) \in FieldsOver(K)
  <2>1. IsFields(Remove(f, key)) /\ DOMAIN Remove(f, key) = DOMAIN f \ {key}
    BY <1>1, RemoveKeepsLimits
  <2>2. QED
    BY <1>1, <2>1, FieldsByDomain
<1>4. \A g, h \in Put(f, key, value) : g = h
  BY <1>1, PutKeepsLimits
<1>5. QED
  BY <1>2, <1>3, <1>4

\* apply_forward gives one result or none, within the limits.
LEMMA ApplyKeepsLimits ==
    ASSUME NEW K, NEW f \in FieldsOver(K), NEW step, IsStep(step, K), step.function \in Function
    PROVE  /\ \A g \in Apply(step, f) : g \in FieldsOver(K)
           /\ \A g, h \in Apply(step, f) : g = h
<1> DEFINE key == step.key
           One(A) == (\A g \in A : g \in FieldsOver(K)) /\ (\A g, h \in A : g = h)
<1>1. /\ key \in K /\ step.newKey \in K /\ step.value \in Seq(Token)
      /\ f \in [DOMAIN f -> Seq(Token)]
  BY FieldsByDomain DEF IsStep, IsFields
<1>2. \A k \in K : \A v \in Seq(Token) : One(Put(f, k, v))
  BY FieldsStayOver
<1>3. One({Remove(f, key)}) /\ One({f}) /\ One({})
  <2>1. Remove(f, key) \in FieldsOver(K)
    BY <1>1, FieldsStayOver
  <2>2. QED
    BY <2>1
<1>4. One(Absent(step, f))
  BY <1>3 DEF Absent
<1> HIDE DEF key
<1>5. CASE step.function = "identity"
  BY <1>3, <1>5 DEF Apply
<1>6. CASE step.function = "add_field"
  <2>1. Apply(step, f) = Put(f, key, step.value)
    BY <1>6 DEF Apply, key
  <2>2. QED
    BY <1>1, <1>2, <2>1
<1>7. CASE step.function = "rename_field"
  <2>1. Apply(step, f) = Rename(step, f)
    BY <1>7 DEF Apply
  <2>2. CASE key \notin DOMAIN f \/ step.newKey \in DOMAIN f
    BY <1>3, <1>4, <2>1, <2>2 DEF Rename, key
  <2>3. CASE key \in DOMAIN f /\ step.newKey \notin DOMAIN f
    <3> DEFINE P == Put(f, step.newKey, f[key])
    <3>1. Apply(step, f) = {Remove(g, key) : g \in P}
      BY <2>1, <2>3 DEF Rename, key
    <3>2. f[key] \in Seq(Token)
      BY <1>1, <2>3
    <3>3. One(P)
      BY <1>1, <1>2, <3>2
    <3> HIDE DEF P
    <3>4. \A g \in P : Remove(g, key) \in FieldsOver(K)
      BY <1>1, <3>3, FieldsStayOver
    <3>5. QED
      BY <3>1, <3>3, <3>4
  <2>4. QED
    BY <2>2, <2>3
<1>8. CASE step.function = "remove_field"
  <2>1. Apply(step, f) = IF key \in DOMAIN f THEN {Remove(f, key)} ELSE Absent(step, f)
    BY <1>8 DEF Apply, key
  <2>2. QED
    BY <1>3, <1>4, <2>1
<1>9. CASE step.function = "wrap_value"
  <2> DEFINE v == <<Prefix>> \o f[key] \o <<Suffix>>
  <2>1. Apply(step, f) = IF key \in DOMAIN f THEN Put(f, key, v) ELSE Absent(step, f)
    BY <1>9 DEF Apply, key
  <2>2. ASSUME key \in DOMAIN f PROVE v \in Seq(Token)
    <3>1. f[key] \in Seq(Token) /\ <<Prefix>> \in Seq(Token) /\ <<Suffix>> \in Seq(Token)
      BY <1>1, <2>2, MigrationAssumption DEF Token
    <3>2. QED
      BY <3>1
  <2> HIDE DEF v
  <2>3. QED
    BY <1>1, <1>2, <1>4, <2>1, <2>2
<1>10. CASE step.function = "unwrap_value"
  <2> DEFINE v == SubSeq(f[key], 2, Len(f[key]) - 1)
  <2>1. Apply(step, f) = IF key \in DOMAIN f /\ Framed(f[key]) THEN Put(f, key, v) ELSE {}
    BY <1>10 DEF Apply, key
  <2>2. ASSUME key \in DOMAIN f PROVE v \in Seq(Token)
    <3>1. f[key] \in Seq(Token)
      BY <1>1, <2>2
    <3>2. QED
      BY <3>1
  <2> HIDE DEF v
  <2>3. QED
    BY <1>1, <1>2, <1>3, <2>1, <2>2
<1>11. CASE step.function = "lowercase_field"
  <2> DEFINE v == [i \in DOMAIN f[key] |-> Lower[f[key][i]]]
  <2>1. Apply(step, f) = IF key \in DOMAIN f THEN Put(f, key, v) ELSE {}
    BY <1>11 DEF Apply, key
  <2>2. ASSUME key \in DOMAIN f PROVE v \in Seq(Token)
    <3>1. f[key] \in Seq(Token)
      BY <1>1, <2>2
    <3>2. Len(f[key]) \in Nat /\ DOMAIN f[key] = 1..Len(f[key])
          /\ \A i \in 1..Len(f[key]) : Lower[f[key][i]] \in Token
      BY <3>1, MigrationAssumption DEF Token
    <3>3. QED
      BY <3>2
  <2> HIDE DEF v
  <2>3. QED
    BY <1>1, <1>2, <1>3, <2>1, <2>2
<1>12. QED
  BY <1>5, <1>6, <1>7, <1>8, <1>9, <1>10, <1>11 DEF Function

\* The transformation migrate_backward applies takes back what the step has done, if the step
\* is reversible and found its field: for every document, at the limits of its size too.
LEMMA ReverseUndoes ==
    ASSUME NEW f, IsFields(f), NEW step, step.value \in Seq(Token),
           Reversible(step), Clean(step, f), NEW g \in Apply(step, f)
    PROVE  Apply(Reverse(step), g) = {f}
<1> DEFINE key == step.key
           new == step.newKey
           back == Reverse(step)
<1>1. /\ f \in [DOMAIN f -> Seq(Token)] /\ IsFiniteSet(DOMAIN f) /\ Cardinality(DOMAIN f) \in Nat
      /\ {MaxFields, MaxValue} \subseteq Nat
      /\ Cardinality(DOMAIN f) <= MaxFields /\ \A k \in DOMAIN f : Len(f[k]) <= MaxValue
  BY MigrationAssumption, FS_CardinalityType DEF IsFields
<1>2. CASE step.function = "identity"
  <2>1. g = f
    BY <1>2 DEF Apply
  <2>2. back.function = "identity"
    BY <1>2 DEF Reverse
  <2>3. QED
    BY <2>1, <2>2 DEF Apply
<1>3. CASE step.function = "add_field"
  <2>1. key \notin DOMAIN f
    BY <1>3 DEF Clean
  <2>2. g = With(f, key, step.value)
    <3>1. g \in Put(f, key, step.value)
      BY <1>3 DEF Apply
    <3>2. QED
      BY <3>1, PutKeepsLimits
  <2>3. back.function = "remove_field" /\ back.key = key
    BY <1>3 DEF Reverse
  <2>4. key \in DOMAIN g
    BY <2>2 DEF With
  <2>5. Apply(back, g) = {Remove(g, key)}
    BY <2>3, <2>4 DEF Apply
  <2>6. Remove(g, key) = f
    <3>1. DOMAIN g \ {key} = DOMAIN f /\ \A k \in DOMAIN f : g[k] = f[k]
      BY <2>1, <2>2 DEF With
    <3>2. QED
      BY <1>1, <3>1 DEF Remove
  <2>7. QED
    BY <2>5, <2>6
<1>4. CASE step.function = "rename_field"
  <2>1. key \in DOMAIN f
    BY <1>4 DEF Clean
  <2>2. g \in Rename(step, f)
    BY <1>4 DEF Apply
  <2>3. new \notin DOMAIN f /\ \E h \in Put(f, new, f[key]) : g = Remove(h, key)
    BY <2>1, <2>2 DEF Rename
  <2> DEFINE h == With(f, new, f[key])
  <2>4. f[key] \in Seq(Token) /\ Len(f[key]) <= MaxValue
    BY <1>1, <2>1
  <2>5. g = Remove(h, key) /\ IsFields(h) /\ Cardinality(DOMAIN f) < MaxFields
    BY <1>1, <2>3, <2>4, PutKeepsLimits
  <2>6. /\ DOMAIN h = DOMAIN f \cup {new} /\ h[new] = f[key]
        /\ \A k \in DOMAIN f : h[k] = f[k]
    BY <2>3 DEF With
  <2>7. Cardinality(DOMAIN h) = Cardinality(DOMAIN f) + 1
    BY <1>1, <2>3, <2>6, FS_AddElement
  <2> HIDE DEF h
  <2>8. /\ IsFields(g) /\ DOMAIN g = DOMAIN h \ {key}
        /\ Cardinality(DOMAIN g) = Cardinality(DOMAIN f)
    <3>1. key \in DOMAIN h
      BY <2>1, <2>6
    <3>2. Cardinality(DOMAIN Remove(h, key)) = Cardinality(DOMAIN h) - 1
      BY <2>5, <3>1, RemoveKeepsLimits
    <3>3. IsFields(g) /\ DOMAIN g = DOMAIN h \ {key}
      BY <2>5, RemoveKeepsLimits
    <3>4. QED
      BY <1>1, <2>5, <2>7, <3>2, <3>3
  <2>9. key # new /\ new \in DOMAIN g /\ key \notin DOMAIN g /\ g[new] = f[key]
        /\ \A k \in DOMAIN f : k # key => k \in DOMAIN g /\ g[k] = f[k]
    BY <2>1, <2>3, <2>5, <2>6, <2>8 DEF Remove
  <2>10. back.function = "rename_field" /\ back.key = new /\ back.newKey = key
    BY <1>4 DEF Reverse
  <2> DEFINE e == With(g, key, g[new])
  <2>11. Put(g, key, g[new]) = {e}
    <3>1. g[new] \in Seq(Token) /\ ~(Len(g[new]) > MaxValue) /\ ~(Cardinality(DOMAIN g) >= MaxFields)
      BY <1>1, <2>4, <2>5, <2>8, <2>9
    <3>2. QED
      BY <2>8, <3>1, PutKeepsLimits
  <2>12. Apply(back, g) = {Remove(e, new)}
    <3>1. Apply(back, g) = Rename(back, g)
      BY <2>10 DEF Apply
    <3>2. Rename(back, g) = {Remove(d, new) : d \in Put(g, key, g[new])}
      BY <2>9, <2>10 DEF Rename
    <3>3. QED
      BY <2>11, <3>1, <3>2
  <2>13. Remove(e, new) = f
    <3>1. DOMAIN e = DOMAIN g \cup {key} /\ e[key] = f[key]
          /\ \A k \in DOMAIN g : e[k] = g[k]
      BY <2>9 DEF With
    <3> HIDE DEF e
    <3>2. DOMAIN e \ {new} = DOMAIN f
      BY <2>1, <2>3, <2>6, <2>8, <2>9, <3>1
    <3>3. \A k \in DOMAIN f : e[k] = f[k]
      BY <2>9, <3>1
    <3>4. QED
      BY <1>1, <3>2, <3>3 DEF Remove
  <2>14. QED
    BY <2>12, <2>13
<1>5. CASE step.function = "wrap_value"
  <2> DEFINE v == f[key]
             w == <<Prefix>> \o v \o <<Suffix>>
  <2>1. key \in DOMAIN f /\ v \in Seq(Token) /\ Len(v) <= MaxValue /\ Len(v) \in Nat
    BY <1>1, <1>5 DEF Clean
  <2>2. g \in Put(f, key, w)
    BY <1>5, <2>1 DEF Apply
  <2> HIDE DEF v
  <2>3. /\ w \in Seq(Token) /\ Len(w) = Len(v) + 2 /\ w[1] = Prefix /\ w[Len(w)] = Suffix
        /\ \A i \in 1..Len(v) : w[i + 1] = v[i]
    <3>1. Prefix \in Token /\ Suffix \in Token
      BY MigrationAssumption DEF Token
    <3>2. QED
      BY <2>1, <3>1
  <2> HIDE DEF w
  <2>4. g = With(f, key, w) /\ IsFields(g)
    BY <2>2, <2>3, PutKeepsLimits
  <2>5. DOMAIN g = DOMAIN f /\ g[key] = w /\ \A k \in DOMAIN f : k # key => g[k] = f[k]
    BY <2>1, <2>4 DEF With
  <2>6. back.function = "unwrap_value" /\ back.key = key
    BY <1>5 DEF Reverse
  <2>7. SubSeq(w, 2, Len(w) - 1) = v
    <3> DEFINE u == SubSeq(w, 2, Len(w) - 1)
    <3>1. u \in Seq(Token) /\ Len(u) = Len(v) /\ \A i \in 1..Len(v) : u[i] = w[i + 1]
      BY <2>1, <2>3
    <3> HIDE DEF u
    <3>2. \A i \in 1..Len(v) : u[i] = v[i]
      BY <2>3, <3>1
    <3>3. QED
      BY <2>1, <3>1, <3>2, SeqEqual DEF u
  <2>8. Framed(g[key])
    BY <2>1, <2>3, <2>5 DEF Framed
  <2>9. Apply(back, g) = Put(g, key, v)
    BY <2>1, <2>5, <2>6, <2>7, <2>8 DEF Apply
  <2>10. Put(g, key, v) = {With(g, key, v)}
    BY <1>1, <2>1, <2>4, <2>5, PutKeepsLimits
  <2>11. With(g, key, v) = f
    <3>1. DOMAIN g \cup {key} = DOMAIN f
          /\ \A k \in DOMAIN f : (IF k = key THEN v ELSE g[k]) = f[k]
      BY <2>1, <2>5 DEF v
    <3>2. QED
      BY <1>1, <3>1 DEF With
  <2>12. QED
    BY <2>9, <2>10, <2>11
<1>6. QED
  BY <1>2, <1>3, <1>4, <1>5 DEF Reversible

----------------------------------------------------------------------------
(* Iterating a step that may fail *)

\* run[i]: what i steps of next can make of d.
Runs(run, n, D, d, next) ==
    /\ run \in [0..n -> SUBSET D]
    /\ run[0] = {d}
    /\ \A i \in 1..n : run[i] = UNION {next[<<i, e>>] : e \in run[i - 1]}

\* There is such a run.
LEMMA RunExists ==
    ASSUME NEW n \in Nat, NEW D, NEW d \in D, NEW next \in [(1..n) \X D -> SUBSET D]
    PROVE  \E run : Runs(run, n, D, d, next)
<1> DEFINE T == SUBSET D
           e == {d}
           h == [x \in (1..n) \X T |-> UNION {next[<<x[1], c>>] : c \in x[2]}]
<1>1. e \in T
  OBVIOUS
<1>2. h \in [(1..n) \X T -> T]
  <2>1. ASSUME NEW x \in (1..n) \X T
        PROVE  UNION {next[<<x[1], c>>] : c \in x[2]} \in T
    <3>1. x[1] \in 1..n /\ x[2] \in SUBSET D
      OBVIOUS
    <3>2. \A c \in x[2] : next[<<x[1], c>>] \in SUBSET D
      BY <3>1
    <3>3. QED
      BY <3>2
  <2>2. QED
    BY <2>1
<1>3. \A i \in 1..n : \A s \in T : h[<<i, s>>] = UNION {next[<<i, c>>] : c \in s}
  OBVIOUS
<1> HIDE DEF T, e, h
<1>4. PICK run \in [0..n -> T] : Iterates(run, e, h, n)
  BY <1>1, <1>2, Iteration
<1>5. \A i \in 1..n : i - 1 \in 0..n
  OBVIOUS
<1>6. \A i \in 1..n : run[i] = UNION {next[<<i, c>>] : c \in run[i - 1]}
  BY <1>3, <1>4, <1>5 DEF Iterates
<1>7. run[0] = {d}
  BY <1>4 DEF Iterates, e
<1>8. QED
  BY <1>4, <1>6, <1>7 DEF Runs, T

\* Two runs of the same steps agree, as far as both go.
LEMMA RunsAgree ==
    ASSUME NEW n \in Nat, NEW m \in 0..n, NEW D, NEW d, NEW next, NEW other, NEW r, NEW s,
           Runs(r, n, D, d, next), Runs(s, m, D, d, other),
           \A i \in 1..m : \A e \in D : next[<<i, e>>] = other[<<i, e>>]
    PROVE  \A i \in 0..m : r[i] = s[i]
<1> DEFINE S == {i \in 0..m : r[i] = s[i]}
<1>1. 0 \in S
  <2>1. r[0] = s[0]
    BY DEF Runs
  <2>2. QED
    BY <2>1
<1>2. ASSUME NEW i \in 0..m, i \in S, i < m
      PROVE  i + 1 \in S
  <2>1. i + 1 \in 1..m /\ i + 1 \in 1..n /\ (i + 1) - 1 = i /\ i \in 0..n /\ i + 1 \in 0..m
    BY <1>2
  <2>2. r[i + 1] = UNION {next[<<i + 1, e>>] : e \in r[i]}
    BY <2>1 DEF Runs
  <2>3. s[i + 1] = UNION {other[<<i + 1, e>>] : e \in s[i]}
    BY <2>1 DEF Runs
  <2>4. r[i] = s[i] /\ r[i] \subseteq D
    BY <1>2, <2>1 DEF Runs
  <2>5. \A e \in r[i] : next[<<i + 1, e>>] = other[<<i + 1, e>>]
    BY <2>1, <2>4
  <2>6. r[i + 1] = s[i + 1]
    BY <2>2, <2>3, <2>4, <2>5
  <2>7. QED
    BY <2>1, <2>6
<1>3. \A i \in 0..m : i \in S
  <2>1. m \in Nat
    OBVIOUS
  <2> HIDE DEF S
  <2>2. QED
    BY <1>1, <1>2, <2>1, UpTo
<1>4. QED
  BY <1>3

\* t[i] is one of the results of the i-th step on t[i - 1].
Trace(t, n, D, d, next) ==
    /\ t \in [0..n -> D]
    /\ t[0] = d
    /\ \A i \in 1..n : t[i] \in next[<<i, t[i - 1]>>]

\* Whatever a run ends with has been reached step by step.
LEMMA RunTraced ==
    ASSUME NEW n \in Nat, NEW D, NEW d \in D, NEW next, NEW run, Runs(run, n, D, d, next),
           NEW e \in run[n]
    PROVE  \E t : Trace(t, n, D, d, next) /\ t[n] = e /\ \A i \in 0..n : t[i] \in run[i]
<1> DEFINE Reached(t, i) == /\ t \in [0..i -> D] /\ t[0] = d
                            /\ \A j \in 1..i : t[j] \in next[<<j, t[j - 1]>>]
                            /\ \A j \in 0..i : t[j] \in run[j]
           S == {i \in 0..n : \A c \in run[i] : \E t : Reached(t, i) /\ t[i] = c}
<1>1. 0 \in S
  <2>1. run[0] = {d} /\ 0 \in 0..n
    BY DEF Runs
  <2> DEFINE t == [j \in 0..0 |-> d]
  <2>2. Reached(t, 0) /\ t[0] = d
    BY <2>1
  <2>3. \A c \in run[0] : \E u : Reached(u, 0) /\ u[0] = c
    BY <2>1, <2>2, Zenon
  <2>4. QED
    BY <2>1, <2>3, Zenon
<1>2. ASSUME NEW i \in 0..n, i \in S, i < n
      PROVE  i + 1 \in S
  <2>1. i \in Nat /\ i + 1 \in 1..n /\ i + 1 \in 0..n /\ (i + 1) - 1 = i
    BY <1>2
  <2>2. ASSUME NEW c \in run[i + 1]
        PROVE  \E t : Reached(t, i + 1) /\ t[i + 1] = c
    <3>1. run[i + 1] = UNION {next[<<i + 1, b>>] : b \in run[i]} /\ run[i + 1] \subseteq D
      BY <2>1 DEF Runs
    <3>2. PICK b \in run[i] : c \in next[<<i + 1, b>>]
      BY <3>1
    <3>3. PICK u : Reached(u, i) /\ u[i] = b
      BY <1>2
    <3> DEFINE t == [j \in 0..(i + 1) |-> IF j <= i THEN u[j] ELSE c]
    <3>4. c \in D
      BY <3>1
    <3>5. t \in [0..(i + 1) -> D] /\ t[0] = d /\ t[i + 1] = c
      BY <2>1, <3>3, <3>4
    <3>6. \A j \in 0..i : t[j] = u[j]
      BY <2>1
    <3> HIDE DEF t
    <3>7. ASSUME NEW j \in 1..(i + 1)
          PROVE  t[j] \in next[<<j, t[j - 1]>>]
      <4>1. CASE j = i + 1
        <5>1. t[j - 1] = b /\ t[j] = c
          BY <2>1, <3>3, <3>5, <3>6, <4>1
        <5>2. QED
          BY <3>2, <4>1, <5>1
      <4>2. CASE j # i + 1
        <5>1. j \in 1..i /\ j \in 0..i /\ j - 1 \in 0..i
          BY <2>1, <4>2
        <5>2. QED
          BY <3>3, <3>6, <5>1
      <4>3. QED
        BY <4>1, <4>2
    <3>8. ASSUME NEW j \in 0..(i + 1)
          PROVE  t[j] \in run[j]
      <4>1. CASE j = i + 1
        BY <3>5, <4>1
      <4>2. CASE j # i + 1
        <5>1. j \in 0..i
          BY <2>1, <4>2
        <5>2. QED
          BY <3>3, <3>6, <5>1
      <4>3. QED
        BY <4>1, <4>2
    <3>9. QED
      BY <3>5, <3>7, <3>8, Zenon
  <2>3. QED
    BY <2>1, <2>2, Zenon
<1>3. n \in S
  <2>1. n \in 0..n
    OBVIOUS
  <2> HIDE DEF S
  <2>2. QED
    BY <1>1, <1>2, <2>1, UpTo
<1>4. PICK t : Reached(t, n) /\ t[n] = e
  BY <1>3
<1>5. QED
  BY <1>4, Zenon DEF Trace

----------------------------------------------------------------------------
(* migrate_forward and migrate_backward *)

\* Steps over the keys in K.
AreSteps(steps, K) ==
    /\ Len(steps) \in Nat
    /\ \A i \in 1..Len(steps) : IsStep(steps[i], K) /\ {steps[i].from, steps[i].to} \subseteq Nat

\* A step that is carried out, in either direction, gives a document over the same keys.
LEMMA StepKeepsLimits ==
    ASSUME NEW K, NEW d \in DocumentOver(K), NEW step, IsStep(step, K),
           {step.from, step.to} \subseteq Nat
    PROVE  /\ Forward(step, d) \in SUBSET DocumentOver(K)
           /\ Backward(step, d) \in SUBSET DocumentOver(K)
           /\ \A e \in Forward(step, d) : step.from = d.schema /\ e.schema = step.to
           /\ \A e \in Backward(step, d) : Reversible(step) /\ step.to = d.schema /\ e.schema = step.from
<1>1. d.fields \in FieldsOver(K)
  BY DEF DocumentOver
<1>2. ASSUME Resolvable(step)
      PROVE  \A g \in Apply(step, d.fields) : g \in FieldsOver(K)
  BY <1>1, <1>2, ApplyKeepsLimits DEF Resolvable
<1>3. ASSUME Reversible(step)
      PROVE  \A g \in Apply(Reverse(step), d.fields) : g \in FieldsOver(K)
  <2>1. IsStep(Reverse(step), K)
    BY DEF IsStep, Reverse
  <2>2. Reverse(step).function \in Function
    BY <1>3 DEF Reversible, Reverse, Function
  <2>3. QED
    BY <1>1, <2>1, <2>2, ApplyKeepsLimits
<1>4. ASSUME NEW e \in Forward(step, d)
      PROVE  e \in DocumentOver(K) /\ step.from = d.schema /\ e.schema = step.to
  BY <1>2, <1>4 DEF Forward, DocumentOver
<1>5. ASSUME NEW e \in Backward(step, d)
      PROVE  e \in DocumentOver(K) /\ Reversible(step) /\ step.to = d.schema /\ e.schema = step.from
  BY <1>3, <1>5 DEF Backward, DocumentOver
<1>6. QED
  BY <1>4, <1>5

\* The steps of migrate_forward, and those of migrate_backward, one by one.
ForwardStep(steps, D) == [x \in (1..Len(steps)) \X D |-> Forward(steps[x[1]], x[2])]
BackwardStep(steps, D) ==
    [x \in (1..Len(steps)) \X D |-> Backward(steps[Len(steps) + 1 - x[1]], x[2])]

\* Both map documents over K to documents over K.
LEMMA StepsOverDocuments ==
    ASSUME NEW K, NEW steps, AreSteps(steps, K), NEW D, D = DocumentOver(K)
    PROVE  /\ ForwardStep(steps, D) \in [(1..Len(steps)) \X D -> SUBSET D]
           /\ BackwardStep(steps, D) \in [(1..Len(steps)) \X D -> SUBSET D]
<1> DEFINE n == Len(steps)
<1>1. n \in Nat /\ \A i \in 1..n : n + 1 - i \in 1..n
  BY DEF AreSteps
<1>2. ASSUME NEW i \in 1..n, NEW d \in D
      PROVE  Forward(steps[i], d) \in SUBSET D /\ Backward(steps[i], d) \in SUBSET D
  <2>1. IsStep(steps[i], K) /\ {steps[i].from, steps[i].to} \subseteq Nat
    BY DEF AreSteps
  <2>2. QED
    BY <2>1, StepKeepsLimits
<1> HIDE DEF n
<1>3. ASSUME NEW x \in (1..n) \X D
      PROVE  Forward(steps[x[1]], x[2]) \in SUBSET D /\ Backward(steps[n + 1 - x[1]], x[2]) \in SUBSET D
  BY <1>1, <1>2
<1>4. ForwardStep(steps, D) \in [(1..n) \X D -> SUBSET D]
  BY <1>3 DEF ForwardStep, n
<1>5. BackwardStep(steps, D) \in [(1..n) \X D -> SUBSET D]
  BY <1>3 DEF BackwardStep, n
<1>6. QED
  BY <1>4, <1>5 DEF n

\* migrate_forward is a run of the steps in their order.
LEMMA ForwardRuns ==
    ASSUME NEW K, NEW doc0 \in DocumentOver(K), NEW steps, AreSteps(steps, K)
    PROVE  \E run : /\ Runs(run, Len(steps), DocumentOver(K), doc0, ForwardStep(steps, DocumentOver(K)))
                    /\ MigrateForward(doc0, steps) = run[Len(steps)]
<1> DEFINE D == DocumentOver(K)
           n == Len(steps)
           next == ForwardStep(steps, D)
           Body(r, i) == IF i = 0 THEN {doc0} ELSE UNION {Forward(steps[i], d) : d \in r[i - 1]}
           run == CHOOSE r : r = [i \in 0..n |-> Body(r, i)]
<1>1. MigrateForward(doc0, steps) = run[n]
  BY DEF MigrateForward
<1>2. n \in Nat
  BY DEF AreSteps
<1>3. next \in [(1..n) \X D -> SUBSET D]
      /\ \A i \in 1..n : \A d \in D : next[<<i, d>>] = Forward(steps[i], d)
  <2>1. next \in [(1..n) \X D -> SUBSET D]
    BY StepsOverDocuments, Zenon
  <2>2. \A i \in 1..n : \A d \in D : next[<<i, d>>] = Forward(steps[i], d)
    BY DEF ForwardStep
  <2>3. QED
    BY <2>1, <2>2
<1>4. doc0 \in D
  OBVIOUS
<1> HIDE DEF D, n, next
<1>5. PICK r : Runs(r, n, D, doc0, next)
  BY <1>2, <1>3, <1>4, RunExists
<1>6. ASSUME NEW i \in 0..n
      PROVE  r[i] = Body(r, i)
  <2>1. CASE i = 0
    BY <1>5, <2>1 DEF Runs
  <2>2. CASE i # 0
    <3>1. i \in 1..n /\ i - 1 \in 0..n
      BY <1>2, <2>2
    <3>2. r[i] = UNION {next[<<i, d>>] : d \in r[i - 1]} /\ r[i - 1] \subseteq D
      BY <1>5, <3>1 DEF Runs
    <3>3. \A d \in r[i - 1] : next[<<i, d>>] = Forward(steps[i], d)
      BY <1>3, <3>1, <3>2
    <3>4. QED
      BY <2>2, <3>2, <3>3
  <2>3. QED
    BY <2>1, <2>2
<1>7. r = [i \in 0..n |-> Body(r, i)]
  BY <1>5, <1>6 DEF Runs
<1>8. run = [i \in 0..n |-> Body(run, i)]
  BY <1>7, Zenon
<1> HIDE DEF run
<1> DEFINE S == {i \in 0..n : run[i] = r[i]}
<1>9. 0 \in S
  <2>1. run[0] = {doc0}
    BY <1>2, <1>8
  <2>2. r[0] = {doc0}
    BY <1>5 DEF Runs
  <2>3. QED
    BY <1>2, <2>1, <2>2
<1>10. ASSUME NEW i \in 0..n, i \in S, i < n
       PROVE  i + 1 \in S
  <2>1. i + 1 \in 0..n /\ i + 1 # 0 /\ (i + 1) - 1 = i
    BY <1>2, <1>10
  <2>2. run[i + 1] = UNION {Forward(steps[i + 1], d) : d \in run[i]}
    BY <1>8, <2>1
  <2>3. r[i + 1] = UNION {Forward(steps[i + 1], d) : d \in r[i]}
    BY <1>6, <2>1
  <2>4. QED
    BY <1>10, <2>1, <2>2, <2>3
<1>11. run = r
  <2>1. \A i \in 0..n : i \in S
    <3> HIDE DEF S
    <3> QED BY <1>2, <1>9, <1>10, UpTo
  <2>2. \A i \in 0..n : run[i] = r[i]
    BY <2>1
  <2>3. r = [i \in 0..n |-> r[i]] /\ run = [i \in 0..n |-> run[i]]
    BY <1>5, <1>8 DEF Runs
  <2>4. QED
    BY <2>2, <2>3
<1>12. QED
  BY <1>1, <1>5, <1>11, Zenon DEF D, n, next

\* migrate_backward is a run of the reversed steps, from the last one to the first.
LEMMA BackwardRuns ==
    ASSUME NEW K, NEW doc0 \in DocumentOver(K), NEW steps, AreSteps(steps, K)
    PROVE  \E run : /\ Runs(run, Len(steps), DocumentOver(K), doc0, BackwardStep(steps, DocumentOver(K)))
                    /\ MigrateBackward(doc0, steps) = run[Len(steps)]
<1> DEFINE D == DocumentOver(K)
           n == Len(steps)
           next == BackwardStep(steps, D)
           Body(r, i) == IF i = 0 THEN {doc0} ELSE UNION {Backward(steps[n + 1 - i], d) : d \in r[i - 1]}
           run == CHOOSE r : r = [i \in 0..n |-> Body(r, i)]
<1>1. MigrateBackward(doc0, steps) = run[n]
  BY DEF MigrateBackward
<1>2. n \in Nat
  BY DEF AreSteps
<1>3. next \in [(1..n) \X D -> SUBSET D]
      /\ \A i \in 1..n : \A d \in D : next[<<i, d>>] = Backward(steps[n + 1 - i], d)
  <2>1. next \in [(1..n) \X D -> SUBSET D]
    BY StepsOverDocuments, Zenon
  <2>2. \A i \in 1..n : \A d \in D : next[<<i, d>>] = Backward(steps[n + 1 - i], d)
    BY DEF BackwardStep
  <2>3. QED
    BY <2>1, <2>2
<1>4. doc0 \in D
  OBVIOUS
<1> HIDE DEF D, n, next
<1>5. PICK r : Runs(r, n, D, doc0, next)
  BY <1>2, <1>3, <1>4, RunExists
<1>6. ASSUME NEW i \in 0..n
      PROVE  r[i] = Body(r, i)
  <2>1. CASE i = 0
    BY <1>5, <2>1 DEF Runs
  <2>2. CASE i # 0
    <3>1. i \in 1..n /\ i - 1 \in 0..n
      BY <1>2, <2>2
    <3>2. r[i] = UNION {next[<<i, d>>] : d \in r[i - 1]} /\ r[i - 1] \subseteq D
      BY <1>5, <3>1 DEF Runs
    <3>3. \A d \in r[i - 1] : next[<<i, d>>] = Backward(steps[n + 1 - i], d)
      BY <1>3, <3>1, <3>2
    <3>4. QED
      BY <2>2, <3>2, <3>3
  <2>3. QED
    BY <2>1, <2>2
<1>7. r = [i \in 0..n |-> Body(r, i)]
  BY <1>5, <1>6 DEF Runs
<1>8. run = [i \in 0..n |-> Body(run, i)]
  BY <1>7, Zenon
<1> HIDE DEF run
<1> DEFINE S == {i \in 0..n : run[i] = r[i]}
<1>9. 0 \in S
  <2>1. run[0] = {doc0}
    BY <1>2, <1>8
  <2>2. r[0] = {doc0}
    BY <1>5 DEF Runs
  <2>3. QED
    BY <1>2, <2>1, <2>2
<1>10. ASSUME NEW i \in 0..n, i \in S, i < n
       PROVE  i + 1 \in S
  <2>1. i + 1 \in 0..n /\ i + 1 # 0 /\ (i + 1) - 1 = i
    BY <1>2, <1>10
  <2>2. run[i + 1] = UNION {Backward(steps[n + 1 - (i + 1)], d) : d \in run[i]}
    BY <1>8, <2>1
  <2>3. r[i + 1] = UNION {Backward(steps[n + 1 - (i + 1)], d) : d \in r[i]}
    BY <1>6, <2>1
  <2>4. QED
    BY <1>10, <2>1, <2>2, <2>3
<1>11. run = r
  <2>1. \A i \in 0..n : i \in S
    <3> HIDE DEF S
    <3> QED BY <1>2, <1>9, <1>10, UpTo
  <2>2. \A i \in 0..n : run[i] = r[i]
    BY <2>1
  <2>3. r = [i \in 0..n |-> r[i]] /\ run = [i \in 0..n |-> run[i]]
    BY <1>5, <1>8 DEF Runs
  <2>4. QED
    BY <2>2, <2>3
<1>12. QED
  BY <1>1, <1>5, <1>11, Zenon DEF D, n, next

\* The documents a migration has passed through: t[i] is the one behind the i-th step.
Passed(t, steps, K, first, last) ==
    /\ t \in [0..Len(steps) -> DocumentOver(K)]
    /\ t[0] = first /\ t[Len(steps)] = last
    /\ \A i \in 1..Len(steps) : t[i] \in Forward(steps[i], t[i - 1])

\* A migration passes through one document after the other, and each of them is what the steps
\* up to there make of the first.
LEMMA ForwardTrace ==
    ASSUME NEW K, NEW first \in DocumentOver(K), NEW X, NEW steps \in Seq(X), AreSteps(steps, K),
           NEW last \in MigrateForward(first, steps)
    PROVE  \E t : /\ Passed(t, steps, K, first, last)
                  /\ \A i \in 1..Len(steps) : t[i - 1] \in MigrateForward(first, SubSeq(steps, 1, i - 1))
<1> DEFINE D == DocumentOver(K)
           n == Len(steps)
           next == ForwardStep(steps, D)
<1>1. PICK run : Runs(run, n, D, first, next) /\ MigrateForward(first, steps) = run[n]
  BY ForwardRuns
<1>2. n \in Nat /\ first \in D /\ last \in run[n]
  BY <1>1
<1>3. PICK t : Trace(t, n, D, first, next) /\ t[n] = last /\ \A i \in 0..n : t[i] \in run[i]
  <2> HIDE DEF D, n, next
  <2> QED BY <1>1, <1>2, RunTraced
<1>4. ASSUME NEW i \in 1..n
      PROVE  t[i] \in Forward(steps[i], t[i - 1])
  <2>1. t[i - 1] \in D /\ t[i] \in next[<<i, t[i - 1]>>]
    BY <1>2, <1>3 DEF Trace
  <2>2. QED
    BY <2>1 DEF ForwardStep
<1>5. ASSUME NEW i \in 1..n
      PROVE  t[i - 1] \in MigrateForward(first, SubSeq(steps, 1, i - 1))
  <2> DEFINE m == i - 1
             part == SubSeq(steps, 1, m)
  <2>1. m \in 0..n /\ m \in Nat
    BY <1>2
  <2>2. Len(part) = m /\ \A j \in 1..m : part[j] = steps[j]
    BY <2>1
  <2> HIDE DEF part, m
  <2>3. AreSteps(part, K)
    BY <2>1, <2>2 DEF AreSteps
  <2> DEFINE other == ForwardStep(part, D)
  <2>4. PICK s : Runs(s, m, D, first, other) /\ MigrateForward(first, part) = s[m]
    BY <2>2, <2>3, ForwardRuns
  <2>5. \A j \in 1..m : \A e \in D : next[<<j, e>>] = other[<<j, e>>]
    <3>1. \A j \in 1..m : j \in 1..n
      BY <1>2, <2>1
    <3>2. QED
      BY <2>2, <3>1 DEF ForwardStep
  <2>6. run[m] = s[m]
    <3> HIDE DEF D, n, next, other
    <3>1. \A j \in 0..m : run[j] = s[j]
      BY <1>1, <1>2, <2>1, <2>4, <2>5, RunsAgree
    <3>2. m \in 0..m
      BY <2>1
    <3>3. QED
      BY <3>1, <3>2
  <2>7. t[m] \in run[m]
    BY <1>3, <2>1
  <2>8. QED
    BY <2>4, <2>6, <2>7 DEF part, m
<1>6. Passed(t, steps, K, first, last)
  BY <1>3, <1>4 DEF Passed, Trace
<1>7. QED
  BY <1>5, <1>6

\* The documents a downgrade has passed through.
Rewound(t, steps, K, first, last) ==
    /\ t \in [0..Len(steps) -> DocumentOver(K)]
    /\ t[0] = first /\ t[Len(steps)] = last
    /\ \A i \in 1..Len(steps) : t[i] \in Backward(steps[Len(steps) + 1 - i], t[i - 1])

\* A downgrade goes over every step, the last one first.
LEMMA BackwardTrace ==
    ASSUME NEW K, NEW first \in DocumentOver(K), NEW steps, AreSteps(steps, K),
           NEW last \in MigrateBackward(first, steps)
    PROVE  \E t : Rewound(t, steps, K, first, last)
<1> DEFINE D == DocumentOver(K)
           n == Len(steps)
           next == BackwardStep(steps, D)
<1>1. PICK run : Runs(run, n, D, first, next) /\ MigrateBackward(first, steps) = run[n]
  BY BackwardRuns
<1>2. n \in Nat /\ first \in D /\ last \in run[n]
  BY <1>1 DEF AreSteps
<1>3. PICK t : Trace(t, n, D, first, next) /\ t[n] = last
  <2> HIDE DEF D, n, next
  <2> QED BY <1>1, <1>2, RunTraced
<1>4. ASSUME NEW i \in 1..n
      PROVE  t[i] \in Backward(steps[n + 1 - i], t[i - 1])
  <2>1. t[i - 1] \in D /\ t[i] \in next[<<i, t[i - 1]>>]
    BY <1>2, <1>3 DEF Trace
  <2>2. QED
    BY <2>1 DEF BackwardStep
<1>5. QED
  BY <1>3, <1>4 DEF Trace, Rewound

\* A reversible step that found its field is undone by the reverse of it.
LEMMA StepUndone ==
    ASSUME NEW K, NEW d \in DocumentOver(K), NEW step, IsStep(step, K),
           {step.from, step.to} \subseteq Nat, Reversible(step), Clean(step, d.fields),
           NEW e \in Forward(step, d)
    PROVE  Backward(step, e) = {d}
<1>1. Resolvable(step) /\ step.from = d.schema
  BY DEF Forward
<1>2. PICK g \in Apply(step, d.fields) : e = [schema |-> step.to, fields |-> g]
  BY <1>1 DEF Forward
<1>3. IsFields(d.fields) /\ step.value \in Seq(Token)
  BY FieldsByDomain DEF DocumentOver, IsStep
<1>4. Apply(Reverse(step), g) = {d.fields}
  BY <1>2, <1>3, ReverseUndoes
<1>5. Backward(step, e) = {[schema |-> step.from, fields |-> f] : f \in {d.fields}}
  BY <1>1, <1>2, <1>4 DEF Backward
<1>6. d = [schema |-> d.schema, fields |-> d.fields]
  BY DEF DocumentOver
<1>7. QED
  BY <1>1, <1>5, <1>6

\* migrate_backward takes back a migration whose steps are reversible and found their fields:
\* it is possible, and gives the document the migration began with.
LEMMA MigrationUndone ==
    ASSUME NEW K, NEW first, NEW last, NEW steps, AreSteps(steps, K), NEW t,
           Passed(t, steps, K, first, last),
           \A i \in 1..Len(steps) : Reversible(steps[i]) /\ Clean(steps[i], t[i - 1].fields)
    PROVE  MigrateBackward(last, steps) = {first}
<1> DEFINE D == DocumentOver(K)
           n == Len(steps)
           next == BackwardStep(steps, D)
<1>1. n \in Nat /\ t \in [0..n -> D] /\ t[0] = first /\ t[n] = last /\ last \in D
  BY DEF AreSteps, Passed
<1>2. PICK run : Runs(run, n, D, last, next) /\ MigrateBackward(last, steps) = run[n]
  BY <1>1, BackwardRuns
<1>3. ASSUME NEW i \in 1..n
      PROVE  Backward(steps[i], t[i]) = {t[i - 1]}
  <2>1. t[i - 1] \in D /\ IsStep(steps[i], K) /\ {steps[i].from, steps[i].to} \subseteq Nat
        /\ t[i] \in Forward(steps[i], t[i - 1])
    BY <1>1 DEF AreSteps, Passed
  <2>2. QED
    BY <2>1, StepUndone
<1> DEFINE S == {j \in 0..n : run[j] = {t[n - j]}}
<1>4. 0 \in S
  <2>1. run[0] = {last} /\ n - 0 = n /\ 0 \in 0..n
    BY <1>1, <1>2 DEF Runs
  <2>2. QED
    BY <1>1, <2>1
<1>5. ASSUME NEW j \in 0..n, j \in S, j < n
      PROVE  j + 1 \in S
  <2>1. /\ j + 1 \in 1..n /\ j + 1 \in 0..n /\ (j + 1) - 1 = j /\ n - j \in 1..n /\ n - j \in 0..n
        /\ n + 1 - (j + 1) = n - j /\ (n - j) - 1 = n - (j + 1)
    BY <1>1, <1>5
  <2>2. run[j + 1] = UNION {next[<<j + 1, e>>] : e \in {t[n - j]}}
    BY <1>2, <1>5, <2>1 DEF Runs
  <2>3. next[<<j + 1, t[n - j]>>] = Backward(steps[n - j], t[n - j])
    BY <1>1, <2>1 DEF BackwardStep
  <2>4. Backward(steps[n - j], t[n - j]) = {t[n - (j + 1)]}
    BY <1>3, <2>1
  <2> HIDE DEF next, D
  <2>5. run[j + 1] = {t[n - (j + 1)]}
    BY <2>2, <2>3, <2>4
  <2>6. QED
    BY <2>1, <2>5
<1>6. run[n] = {t[0]}
  <2>1. n \in S
    <3>1. n \in 0..n
      BY <1>1
    <3> HIDE DEF S, n
    <3>2. QED
      BY <1>1, <1>4, <1>5, <3>1, UpTo
  <2>2. n - n = 0
    BY <1>1
  <2>3. QED
    BY <2>1, <2>2
<1>7. QED
  BY <1>1, <1>2, <1>6

----------------------------------------------------------------------------
(* The migration path *)

\* Steps that follow one another from one schema version to another.
Chain(steps, from, to) ==
    /\ steps # <<>> => steps[1].from = from /\ steps[Len(steps)].to = to
    /\ steps = <<>> => from = to
    /\ \A i \in 1..(Len(steps) - 1) : steps[i + 1].from = steps[i].to

Advancing(steps) ==
    \A i \in 1..Len(steps) : {steps[i].from, steps[i].to} \subseteq Nat /\ steps[i].to > steps[i].from

\* step_from finds the one step that leaves a version of the chain.
LEMMA OneStepLeaves ==
    ASSUME NEW X, NEW steps \in Seq(X), NEW k \in 1..Len(steps),
           \A i \in 1..Len(steps) : steps[i].from = steps[k].from => i = k
    PROVE  StepFrom(steps, steps[k].from) = <<steps[k]>>
<1> DEFINE leaving == {i \in DOMAIN steps : steps[i].from = steps[k].from}
<1>1. leaving = {k} /\ k \in Nat
  OBVIOUS
<1>2. (CHOOSE i \in leaving : \A j \in leaving : i <= j) = k
  <2> HIDE DEF leaving
  <2>1. \E i \in leaving : \A j \in leaving : i <= j
    BY <1>1
  <2>2. (CHOOSE i \in leaving : \A j \in leaving : i <= j) \in leaving
    BY <2>1
  <2>3. QED
    BY <1>1, <2>2
<1>3. leaving # {}
  BY <1>1
<1>4. QED
  BY <1>2, <1>3 DEF StepFrom

\* Steps that advance and follow one another from the source's to the target's version are the
\* migration path: migration_path finds each of them and stops at the last.
LEMMA ChainIsPath ==
    ASSUME NEW X, NEW steps \in Seq(X), steps # <<>>, NEW from \in Nat, NEW to \in Nat,
           Advancing(steps), Chain(steps, from, to)
    PROVE  MigrationPath(steps, from, to) = steps
<1> DEFINE n == Len(steps)
           At(path) == IF path = <<>> THEN from ELSE path[Len(path)].to
           Extended(path) ==
             LET next == StepFrom(steps, At(path))
             IN  IF At(path) = to \/ next = <<>> \/ next[1].to <= At(path)
                 THEN path ELSE Append(path, next[1])
           walk == CHOOSE f : f = [k \in 0..(n + 1) |-> IF k = 0 THEN <<>> ELSE Extended(f[k - 1])]
           Mark(k) == IF k = 0 THEN from ELSE steps[k].to
           First(k) == SubSeq(steps, 1, k)
<1>1. MigrationPath(steps, from, to) =
        IF from < to /\ At(walk[n + 1]) = to THEN walk[n + 1] ELSE <<>>
  BY DEF MigrationPath
<1>2. n \in Nat /\ n >= 1 /\ DOMAIN steps = 1..n
  BY EmptySeq, LenProperties
<1>3. /\ \A k \in 1..n : {steps[k].from, steps[k].to} \subseteq Nat /\ steps[k].to > steps[k].from
      /\ \A k \in 1..n : steps[k].from = Mark(k - 1)
  <2>1. \A k \in 1..n : {steps[k].from, steps[k].to} \subseteq Nat /\ steps[k].to > steps[k].from
    BY DEF Advancing
  <2>2. ASSUME NEW k \in 1..n
        PROVE  steps[k].from = Mark(k - 1)
    <3>1. CASE k = 1
      BY <3>1 DEF Chain
    <3>2. CASE k # 1
      <4>1. k - 1 \in 1..(n - 1) /\ (k - 1) + 1 = k /\ k - 1 # 0
        BY <1>2, <3>2
      <4>2. steps[(k - 1) + 1].from = steps[k - 1].to
        BY <4>1 DEF Chain
      <4>3. QED
        BY <4>1, <4>2
    <3>3. QED
      BY <3>1, <3>2
  <2>3. QED
    BY <2>1, <2>2
<1>4. \A k \in 0..n : Mark(k) \in Nat
  BY <1>2, <1>3
<1>5. Mark(n) = to
  BY <1>2 DEF Chain
<1>6. \A k \in 0..n : \A j \in 0..n : j < k => Mark(j) < Mark(k)
  <2> DEFINE S == {k \in 0..n : \A j \in 0..n : j < k => Mark(j) < Mark(k)}
  <2>1. 0 \in S
    BY <1>2
  <2>2. ASSUME NEW k \in 0..n, k \in S, k < n
        PROVE  k + 1 \in S
    <3>1. k + 1 \in 1..n /\ (k + 1) - 1 = k /\ k + 1 \in 0..n /\ k \in Nat
      BY <1>2, <2>2
    <3>2. Mark(k) < Mark(k + 1)
      <4>1. steps[k + 1].from = Mark(k) /\ steps[k + 1].to > steps[k + 1].from
            /\ {steps[k + 1].from, steps[k + 1].to} \subseteq Nat
        BY <1>3, <3>1
      <4>2. Mark(k + 1) = steps[k + 1].to
        BY <3>1
      <4> HIDE DEF Mark
      <4>3. QED
        BY <4>1, <4>2
    <3> HIDE DEF Mark
    <3>3. ASSUME NEW j \in 0..n, j < k + 1
          PROVE  Mark(j) < Mark(k + 1)
      <4>1. j = k \/ j < k
        BY <1>2, <3>1, <3>3
      <4>2. Mark(j) = Mark(k) \/ Mark(j) < Mark(k)
        BY <2>2, <4>1
      <4>3. QED
        BY <1>4, <3>1, <3>2, <4>2
    <3>4. QED
      BY <3>1, <3>3
  <2>3. \A k \in 0..n : k \in S
    <3> HIDE DEF S, n, Mark
    <3> QED BY <1>2, <2>1, <2>2, UpTo
  <2>4. QED
    BY <2>3
<1>7. ASSUME NEW k \in 0..n
      PROVE  /\ At(First(k)) = Mark(k)
             /\ First(k) = <<>> <=> k = 0
  <2>1. First(k) \in Seq(X) /\ Len(First(k)) = k /\ \A i \in 1..k : First(k)[i] = steps[i]
    BY <1>2
  <2> HIDE DEF First
  <2>2. First(k) = <<>> <=> k = 0
    BY <2>1, EmptySeq
  <2>3. k # 0 => First(k)[Len(First(k))] = steps[k]
    BY <1>2, <2>1
  <2>4. QED
    BY <2>2, <2>3
<1>8. ASSUME NEW k \in 0..n, k < n
      PROVE  Extended(First(k)) = First(k + 1)
  <2>1. k + 1 \in 1..n /\ (k + 1) - 1 = k /\ k + 1 \in 0..n /\ n \in 0..n /\ k + 1 # 0
    BY <1>2, <1>8
  <2>2. Mark(k) # to
    <3> HIDE DEF Mark
    <3> QED BY <1>4, <1>5, <1>6, <1>8, <2>1
  <2>3. steps[k + 1].from = Mark(k) /\ ~(steps[k + 1].to <= Mark(k))
    <3>1. steps[k + 1].from = Mark(k) /\ steps[k + 1].to > steps[k + 1].from
          /\ {steps[k + 1].from, steps[k + 1].to} \subseteq Nat
      BY <1>3, <2>1
    <3> HIDE DEF Mark
    <3>2. QED
      BY <3>1
  <2>4. \A i \in 1..n : steps[i].from = steps[k + 1].from => i = k + 1
    <3> SUFFICES ASSUME NEW i \in 1..n, steps[i].from = steps[k + 1].from, i # k + 1
                 PROVE  FALSE
      OBVIOUS
    <3>1. i - 1 \in 0..n /\ i - 1 # k /\ (i - 1 < k \/ k < i - 1)
      BY <1>2, <2>1
    <3>2. Mark(i - 1) = Mark(k)
      BY <1>3, <2>3
    <3> HIDE DEF Mark
    <3>3. QED
      BY <1>4, <1>6, <3>1, <3>2
  <2>5. StepFrom(steps, Mark(k)) = <<steps[k + 1]>>
    <3> HIDE DEF Mark
    <3> QED BY <2>1, <2>3, <2>4, OneStepLeaves
  <2>6. At(First(k)) = Mark(k)
    BY <1>7
  <2> HIDE DEF At, Mark, First
  <2>7. Extended(First(k)) = Append(First(k), steps[k + 1])
    <3> DEFINE next == <<steps[k + 1]>>
    <3>1. next # <<>> /\ next[1] = steps[k + 1]
      OBVIOUS
    <3>2. ~(next[1].to <= Mark(k)) /\ StepFrom(steps, Mark(k)) = next
      BY <2>3, <2>5, <3>1
    <3> HIDE DEF next
    <3>3. Extended(First(k)) = Append(First(k), next[1])
      BY <2>2, <2>6, <3>1, <3>2
    <3>4. QED
      BY <3>1, <3>3
  <2>8. Append(First(k), steps[k + 1]) = First(k + 1)
    <3>1. k + 1 \in 1..Len(steps)
      BY <2>1
    <3>2. QED
      BY <1>2, <1>8, <2>1 DEF First
  <2>9. QED
    BY <2>7, <2>8
<1>9. First(n) = steps /\ At(steps) = to /\ Extended(steps) = steps
  <2>1. First(n) = steps
    BY <1>2
  <2>2. At(steps) = to
    BY <1>2 DEF Chain
  <2>3. QED
    BY <2>1, <2>2
<1> HIDE DEF Extended, At
<1> DEFINE w == [k \in 0..(n + 1) |-> IF k <= n THEN First(k) ELSE steps]
<1>10. ASSUME NEW k \in 1..(n + 1)
       PROVE  w[k] = Extended(w[k - 1]) /\ k - 1 \in 0..n /\ w[k - 1] = First(k - 1)
  <2>1. k - 1 \in 0..n /\ (k - 1) + 1 = k /\ (k <= n \/ k = n + 1)
    BY <1>2
  <2>2. w[k - 1] = First(k - 1) /\ w[k] = IF k <= n THEN First(k) ELSE steps
    BY <1>2, <2>1
  <2> HIDE DEF w, First
  <2>3. CASE k <= n
    <3>1. k - 1 < n
      BY <1>2, <2>3
    <3>2. Extended(First(k - 1)) = First(k)
      BY <1>8, <2>1, <3>1
    <3>3. QED
      BY <2>1, <2>2, <2>3, <3>2
  <2>4. CASE k = n + 1
    <3>1. k - 1 = n /\ ~(k <= n)
      BY <1>2, <2>4
    <3>2. QED
      BY <1>9, <2>1, <2>2, <3>1
  <2>5. QED
    BY <2>1, <2>3, <2>4
<1>11. w[0] = <<>>
  BY <1>2, <1>7
<1>12. w = [k \in 0..(n + 1) |-> IF k = 0 THEN <<>> ELSE Extended(w[k - 1])]
  <2>1. \A k \in 0..(n + 1) : w[k] = IF k = 0 THEN <<>> ELSE Extended(w[k - 1])
    <3>1. \A k \in 0..(n + 1) : k # 0 => k \in 1..(n + 1)
      BY <1>2
    <3> HIDE DEF w
    <3>2. QED
      BY <1>10, <1>11, <3>1
  <2>2. w = [k \in 0..(n + 1) |-> w[k]]
    OBVIOUS
  <2> HIDE DEF w
  <2>3. QED
    BY <2>1, <2>2
<1>13. w[n + 1] = steps
  <2>1. n + 1 \in 0..(n + 1) /\ ~(n + 1 <= n)
    BY <1>2
  <2>2. QED
    BY <2>1
<1> HIDE DEF w
<1>14. walk = [k \in 0..(n + 1) |-> IF k = 0 THEN <<>> ELSE Extended(walk[k - 1])]
  BY <1>12, Zenon
<1> HIDE DEF walk
<1>15. walk[n + 1] = steps
  <2> DEFINE S == {k \in 0..(n + 1) : walk[k] = w[k]}
  <2>1. 0 \in S
    BY <1>2, <1>11, <1>14
  <2>2. ASSUME NEW k \in 0..(n + 1), k \in S, k < n + 1
        PROVE  k + 1 \in S
    <3>1. k + 1 \in 1..(n + 1) /\ (k + 1) - 1 = k /\ k + 1 # 0 /\ k + 1 \in 0..(n + 1)
      BY <1>2, <2>2
    <3>2. walk[k + 1] = Extended(walk[k])
      BY <1>14, <3>1
    <3>3. w[k + 1] = Extended(w[k])
      BY <1>10, <3>1
    <3>4. QED
      BY <2>2, <3>1, <3>2, <3>3
  <2>3. n + 1 \in S
    <3> DEFINE m == n + 1
    <3>1. m \in Nat /\ m \in 0..m
      BY <1>2
    <3> HIDE DEF S, m
    <3>2. \A k \in 0..m : k \in S /\ k < m => k + 1 \in S
      BY <2>2 DEF m
    <3>3. QED
      BY <2>1, <3>1, <3>2, UpTo DEF m
  <2>4. QED
    BY <1>13, <2>3
<1>16. from < to
  <2>1. 0 \in 0..n /\ n \in 0..n /\ 0 < n /\ Mark(0) = from
    BY <1>2
  <2> HIDE DEF Mark
  <2>2. QED
    BY <1>5, <1>6, <2>1
<1>17. QED
  BY <1>1, <1>9, <1>15, <1>16

----------------------------------------------------------------------------
(* The inductive invariant *)

\* The steps some manifest declares.
Declared == UNION {{m.migrations[i] : i \in DOMAIN m.migrations} : m \in Manifests}

IsDocument(d) ==
    /\ d = [schema |-> d.schema, fields |-> d.fields]
    /\ d.schema \in Nat /\ IsFields(d.fields)

\* Counters, document and journal are within their limits.
Bounded ==
    /\ policy \in Policies /\ phase \in Phase
    /\ restarts \in 0..MaxRestarts /\ crossed \in BOOLEAN
    /\ journal \in Seq(Declared) /\ Len(journal) <= JournalCapacity
    /\ IsDocument(doc) /\ IsDocument(original)

\* A campaign's manifest has passed every check of its admission.
Admitted ==
    /\ phase = "none" => manifest = <<>> /\ seen = {}
    /\ phase # "none" =>
        /\ manifest = <<TheManifest>> /\ TheManifest \in Manifests
        /\ Validate(TheManifest)
        /\ VerifyEvidence(TheManifest.evidence, registry, policy)
        /\ seen = Decide(registry, TheManifest.evidence)

\* What preflight negotiated is what the two hellos and the manifest give.
Agreed ==
    /\ phase \in {"none", "planned"} => hellos = <<>> /\ negotiated = Refused
    /\ phase \notin {"none", "planned"} =>
        /\ hellos = <<hellos[1], hellos[2]>> /\ hellos[1] \in Sources /\ hellos[2] \in Targets
        /\ negotiated = NegotiateGroup(TheManifest, hellos[1], hellos[2])
    /\ phase \notin {"none", "planned", "failed"} => negotiated.mode # "refused"

\* The successor's document is what the declared steps make of the snapshot, ...
Carried ==
    /\ phase \in {"installed", "migrated", "ready", "downgraded"} =>
        original.schema = TheManifest.source.schema
    /\ phase = "installed" => doc = original
    /\ phase \in {"migrated", "ready"} => doc \in MigrateForward(original, Steps)
    /\ phase = "ready" => doc.schema = TheManifest.target.schema

\* ... its journal ends with those steps, and has dropped nothing until it was full, ...
Noted ==
    /\ phase \in {"migrated", "ready"} =>
        \A i \in DOMAIN Steps : i > Len(Steps) - JournalCapacity => HasApplied(journal, Steps[i])
    /\ crossed /\ Len(journal) < JournalCapacity => IrreversibleCrossed(journal)

\* ... and a downgraded document is the snapshot again.
TakenBack ==
    phase = "downgraded" =>
        /\ CleanRun => doc = original
        /\ doc.schema = original.schema
        /\ \A i \in DOMAIN Steps : ~Steps[i].boundary

IndInv == Bounded /\ Admitted /\ Agreed /\ Carried /\ Noted /\ TakenBack

\* The steps of a manifest are a sequence of steps over some keys, the document's among them.
LEMMA StepsDeclared ==
    ASSUME NEW m \in Manifests, NEW d, IsDocument(d)
    PROVE  /\ m.migrations \in Seq(Declared)
           /\ \E K : d \in DocumentOver(K) /\ AreSteps(m.migrations, K)
<1> DEFINE steps == m.migrations
           E == {steps[i] : i \in DOMAIN steps}
           K == DOMAIN d.fields \cup {steps[i].key : i \in DOMAIN steps}
                    \cup {steps[i].newKey : i \in DOMAIN steps}
<1>1. steps \in Seq(E)
  BY InputsAssumption
<1>2. steps \in Seq(Declared)
  <2>1. E \subseteq Declared
    BY DEF Declared
  <2> HIDE DEF E
  <2>2. QED
    BY <1>1, <2>1
<1>3. Len(steps) \in Nat /\ DOMAIN steps = 1..Len(steps)
  <2> HIDE DEF E, steps
  <2> QED BY <1>1, LenProperties
<1>4. AreSteps(steps, K)
  <2>1. ASSUME NEW i \in 1..Len(steps)
        PROVE  IsStep(steps[i], K) /\ {steps[i].from, steps[i].to} \subseteq Nat
    <3>1. {steps[i].from, steps[i].to} \subseteq Nat /\ steps[i].value \in Seq(Token)
      BY <1>3, InputsAssumption
    <3>2. steps[i].key \in K /\ steps[i].newKey \in K
      BY <1>3
    <3>3. QED
      BY <3>1, <3>2 DEF IsStep
  <2>2. QED
    BY <1>3, <2>1 DEF AreSteps
<1>5. d \in DocumentOver(K)
  <2>1. DOMAIN d.fields \subseteq K
    OBVIOUS
  <2> HIDE DEF K
  <2>2. d.fields \in FieldsOver(K)
    BY <2>1, FieldsByDomain DEF IsDocument
  <2>3. QED
    BY <2>2 DEF IsDocument, DocumentOver
<1>6. QED
  BY <1>2, <1>4, <1>5

\* A document over some keys is a document.
LEMMA DocumentsAre ==
    ASSUME NEW K, NEW d \in DocumentOver(K)
    PROVE  IsDocument(d)
<1>1. IsFields(d.fields)
  BY FieldsByDomain DEF DocumentOver
<1>2. QED
  BY <1>1 DEF DocumentOver, IsDocument

\* What a migration has passed through is a chain of steps, from the first document's version
\* to the last one's.
LEMMA PassedIsChain ==
    ASSUME NEW K, NEW X, NEW steps \in Seq(X), AreSteps(steps, K), NEW t, NEW first, NEW last,
           Passed(t, steps, K, first, last)
    PROVE  Chain(steps, first.schema, last.schema)
<1> DEFINE n == Len(steps)
<1>1. n \in Nat /\ t \in [0..n -> DocumentOver(K)] /\ t[0] = first /\ t[n] = last
  BY DEF Passed
<1>2. ASSUME NEW i \in 1..n
      PROVE  steps[i].from = t[i - 1].schema /\ t[i].schema = steps[i].to
  <2>1. t[i - 1] \in DocumentOver(K) /\ IsStep(steps[i], K) /\ {steps[i].from, steps[i].to} \subseteq Nat
        /\ t[i] \in Forward(steps[i], t[i - 1])
    BY <1>1 DEF AreSteps, Passed
  <2>2. QED
    BY <2>1, StepKeepsLimits
<1>3. CASE steps = <<>>
  BY <1>1, <1>3 DEF Chain
<1>4. CASE steps # <<>>
  <2>1. n >= 1
    BY <1>1, <1>4, EmptySeq
  <2>2. 1 \in 1..n /\ n \in 1..n /\ 1 - 1 = 0
    BY <1>1, <2>1
  <2>3. steps[1].from = first.schema /\ steps[n].to = last.schema
    BY <1>1, <1>2, <2>2
  <2>4. ASSUME NEW i \in 1..(n - 1)
        PROVE  steps[i + 1].from = steps[i].to
    <3>1. i \in 1..n /\ i + 1 \in 1..n /\ (i + 1) - 1 = i
      BY <1>1
    <3>2. steps[i + 1].from = t[(i + 1) - 1].schema
      BY <1>2, <3>1
    <3>3. t[i].schema = steps[i].to
      BY <1>2, <3>1
    <3>4. QED
      BY <3>1, <3>2, <3>3
  <2>5. QED
    BY <1>4, <2>3, <2>4 DEF Chain
<1>5. QED
  BY <1>3, <1>4

\* A migration makes documents within the limits, and all of it follows the steps.
LEMMA MigrationOfManifest ==
    ASSUME NEW m \in Manifests, NEW d, IsDocument(d), NEW e \in MigrateForward(d, m.migrations)
    PROVE  IsDocument(e) /\ Chain(m.migrations, d.schema, e.schema)
<1> DEFINE steps == m.migrations
<1>1. steps \in Seq(Declared)
  BY StepsDeclared
<1>2. PICK K : d \in DocumentOver(K) /\ AreSteps(steps, K)
  BY StepsDeclared
<1>3. e \in MigrateForward(d, steps)
  OBVIOUS
<1> HIDE DEF steps
<1>4. PICK t : Passed(t, steps, K, d, e)
  BY <1>1, <1>2, <1>3, ForwardTrace
<1>5. e \in DocumentOver(K)
  <2>1. Len(steps) \in Nat
    BY <1>1
  <2>2. Len(steps) \in 0..Len(steps)
    BY <2>1
  <2>3. QED
    BY <1>4, <2>2 DEF Passed
<1>6. IsDocument(e)
  BY <1>5, DocumentsAre
<1>7. Chain(steps, d.schema, e.schema)
  BY <1>1, <1>2, <1>4, PassedIsChain
<1>8. QED
  BY <1>6, <1>7 DEF steps

\* Every step found the field it is about (CleanRun, for any document and steps).
CleanRunOf(d, steps) ==
    \A i \in DOMAIN steps :
        \A x \in MigrateForward(d, SubSeq(steps, 1, i - 1)) : Clean(steps[i], x.fields)

\* A migration without failures can be taken back, and what a downgrade leaves is the document
\* the migration began with, at its version.
LEMMA DowngradeOfManifest ==
    ASSUME NEW m \in Manifests, NEW d, IsDocument(d), NEW e \in MigrateForward(d, m.migrations)
    PROVE  LET steps == m.migrations
           IN  /\ CleanRunOf(d, steps) /\ (\A i \in DOMAIN steps : Reversible(steps[i])) =>
                    MigrateBackward(e, steps) = {d}
               /\ \A b \in MigrateBackward(e, steps) :
                    /\ IsDocument(b) /\ b.schema = d.schema
                    /\ \A i \in DOMAIN steps : Reversible(steps[i])
<1> DEFINE steps == m.migrations
           n == Len(steps)
<1>1. steps \in Seq(Declared)
  BY StepsDeclared
<1>2. PICK K : d \in DocumentOver(K) /\ AreSteps(steps, K)
  BY StepsDeclared
<1>3. e \in MigrateForward(d, steps)
  OBVIOUS
<1>4. Chain(steps, d.schema, e.schema)
  BY MigrationOfManifest
<1> HIDE DEF steps
<1>5. PICK t : /\ Passed(t, steps, K, d, e)
               /\ \A i \in 1..n : t[i - 1] \in MigrateForward(d, SubSeq(steps, 1, i - 1))
  BY <1>1, <1>2, <1>3, ForwardTrace
<1>6. n \in Nat /\ DOMAIN steps = 1..n /\ t \in [0..n -> DocumentOver(K)] /\ e \in DocumentOver(K)
  <2>1. n \in Nat /\ DOMAIN steps = 1..n /\ n \in 0..n
    BY <1>1
  <2>2. QED
    BY <1>5, <2>1 DEF Passed
<1>7. ASSUME CleanRunOf(d, steps), \A i \in DOMAIN steps : Reversible(steps[i])
      PROVE  MigrateBackward(e, steps) = {d}
  <2>1. \A i \in 1..n : Reversible(steps[i]) /\ Clean(steps[i], t[i - 1].fields)
    BY <1>5, <1>6, <1>7 DEF CleanRunOf
  <2>2. QED
    BY <1>2, <1>5, <2>1, MigrationUndone
<1>8. ASSUME NEW b \in MigrateBackward(e, steps)
      PROVE  IsDocument(b) /\ b.schema = d.schema /\ \A i \in DOMAIN steps : Reversible(steps[i])
  <2>1. PICK u \in [0..n -> DocumentOver(K)] :
            /\ u[0] = e /\ u[n] = b
            /\ \A i \in 1..n : u[i] \in Backward(steps[n + 1 - i], u[i - 1])
    <3>1. \E u : Rewound(u, steps, K, e, b)
      BY <1>2, <1>6, BackwardTrace
    <3>2. QED
      BY <3>1 DEF Rewound
  <2>2. b \in DocumentOver(K)
    <3>1. n \in 0..n
      BY <1>6
    <3>2. QED
      BY <2>1, <3>1
  <2>3. ASSUME NEW i \in 1..n
        PROVE  /\ Reversible(steps[n + 1 - i]) /\ steps[n + 1 - i].to = u[i - 1].schema
               /\ u[i].schema = steps[n + 1 - i].from
    <3> DEFINE k == n + 1 - i
    <3>1. k \in 1..n /\ i - 1 \in 0..n
      BY <1>6
    <3>2. u[i] \in Backward(steps[k], u[i - 1]) /\ u[i - 1] \in DocumentOver(K)
      BY <2>1, <3>1
    <3> HIDE DEF k
    <3>3. IsStep(steps[k], K) /\ {steps[k].from, steps[k].to} \subseteq Nat
      BY <1>2, <3>1 DEF AreSteps
    <3>4. Reversible(steps[k]) /\ steps[k].to = u[i - 1].schema /\ u[i].schema = steps[k].from
      BY <3>2, <3>3, StepKeepsLimits
    <3>5. QED
      BY <3>4 DEF k
  <2>4. ASSUME NEW i \in DOMAIN steps
        PROVE  Reversible(steps[i])
    <3>1. n + 1 - i \in 1..n /\ n + 1 - (n + 1 - i) = i
      BY <1>6
    <3>2. Reversible(steps[n + 1 - (n + 1 - i)])
      BY <2>3, <3>1
    <3>3. QED
      BY <3>1, <3>2
  <2>5. b.schema = d.schema
    <3>1. CASE n = 0
      <4>1. steps = <<>>
        BY <1>1, <3>1, EmptySeq
      <4>2. d.schema = e.schema /\ b = e
        BY <1>4, <2>1, <3>1, <4>1 DEF Chain
      <4>3. QED
        BY <4>2
    <3>2. CASE n # 0
      <4>1. n \in 1..n /\ n + 1 - n = 1 /\ steps # <<>>
        BY <1>6, <3>2
      <4>2. b.schema = steps[1].from
        BY <2>1, <2>3, <4>1
      <4>3. steps[1].from = d.schema
        BY <1>4, <4>1 DEF Chain
      <4>4. QED
        BY <4>2, <4>3
    <3>3. QED
      BY <3>1, <3>2
  <2>6. QED
    BY <2>2, <2>4, <2>5, DocumentsAre
<1>9. QED
  BY <1>7, <1>8 DEF steps

\* record appends the steps and drops the oldest entries, only when the journal is full, and
\* never one of the newest steps.
LEMMA RecordedKeeps ==
    ASSUME NEW S, NEW j \in Seq(S), NEW steps \in Seq(S)
    PROVE  /\ Recorded(j, steps) \in Seq(S) /\ Len(Recorded(j, steps)) <= JournalCapacity
           /\ Len(Recorded(j, steps)) < JournalCapacity => Recorded(j, steps) = j \o steps
           /\ \A i \in 1..Len(steps) : i > Len(steps) - JournalCapacity =>
                \E k \in DOMAIN Recorded(j, steps) : Recorded(j, steps)[k] = steps[i]
<1> DEFINE all == j \o steps
           n == Len(all)
           C == JournalCapacity
           r == Recorded(j, steps)
<1>1. /\ all \in Seq(S) /\ n = Len(j) + Len(steps) /\ {n, Len(j), Len(steps)} \subseteq Nat
      /\ \A i \in 1..Len(steps) : all[Len(j) + i] = steps[i]
  OBVIOUS
<1>2. C \in Nat /\ C > 0
  BY MigrationAssumption
<1>3. r = SubSeq(all, IF n > C THEN n - C + 1 ELSE 1, n)
  BY DEF Recorded
<1> HIDE DEF all, n, C, r
<1>4. CASE n > C
  <2>1. n - C + 1 \in 1..n
    BY <1>1, <1>2, <1>4
  <2>2. r \in Seq(S) /\ Len(r) = C /\ DOMAIN r = 1..C
        /\ \A k \in 1..C : r[k] = all[n - C + k]
    BY <1>1, <1>2, <1>3, <1>4, <2>1 DEF n
  <2>3. ASSUME NEW i \in 1..Len(steps), i > Len(steps) - C
        PROVE  \E k \in DOMAIN r : r[k] = steps[i]
    <3> DEFINE k == Len(j) + i - (n - C)
    <3>1. k \in 1..C /\ n - C + k = Len(j) + i
      BY <1>1, <1>2, <2>3
    <3> HIDE DEF k
    <3>2. r[k] = all[Len(j) + i] /\ k \in DOMAIN r
      BY <2>2, <3>1
    <3>3. QED
      BY <1>1, <3>2
  <2>4. QED
    BY <1>2, <2>2, <2>3 DEF r, C
<1>5. CASE ~(n > C)
  <2>1. r = all
    BY <1>1, <1>2, <1>3, <1>5 DEF n
  <2>2. ASSUME NEW i \in 1..Len(steps)
        PROVE  \E k \in DOMAIN r : r[k] = steps[i]
    <3>1. Len(j) + i \in 1..n /\ DOMAIN r = 1..n
      BY <1>1, <2>1 DEF n
    <3>2. QED
      BY <1>1, <2>1, <3>1
  <2>3. QED
    BY <1>1, <1>2, <1>5, <2>1, <2>2 DEF r, C, n, all
<1>6. QED
  BY <1>4, <1>5

----------------------------------------------------------------------------
(* The invariant holds initially and in every step *)

\* A campaign has not begun: nothing is admitted, and the document is empty.
LEMMA InitHolds == Init => IndInv
<1> SUFFICES ASSUME Init PROVE IndInv
  OBVIOUS
<1>1. IsDocument(Empty)
  <2>1. DOMAIN <<>> = {} /\ <<>> \in [{} -> Seq(Token)] /\ Cardinality({}) = 0 /\ IsFiniteSet({})
    BY FS_EmptySet
  <2>2. IsFields(<<>>)
    BY <2>1, MigrationAssumption DEF IsFields
  <2>3. QED
    BY <2>2 DEF IsDocument, Empty
<1>2. Bounded
  <2>1. policy \in Policies /\ phase \in Phase /\ restarts \in 0..MaxRestarts /\ crossed \in BOOLEAN
    <3>1. restarts = 0 /\ MaxRestarts \in Nat
      BY AdmissionAssumption DEF Init
    <3>2. crossed \in BOOLEAN
      BY Zenon DEF Init
    <3>3. QED
      BY <3>1, <3>2 DEF Init, Phase
  <2>2. journal \in Seq(Declared) /\ Len(journal) <= JournalCapacity
    BY MigrationAssumption DEF Init
  <2>3. IsDocument(doc) /\ IsDocument(original)
    BY <1>1 DEF Init
  <2>4. QED
    BY <2>1, <2>2, <2>3 DEF Bounded
<1>3. QED
  BY <1>2 DEF Init, IndInv, Admitted, Agreed, Carried, Noted, TakenBack

\* Planning admits a manifest that has passed the checks.
LEMMA PlanHolds ==
    ASSUME IndInv, NEW m \in Manifests, Plan(m)
    PROVE  IndInv'
<1>1. phase = "none" /\ phase' = "planned" /\ TheManifest' = m /\ manifest' = <<TheManifest'>>
  BY DEF Plan, TheManifest
<1>2. Bounded'
  BY <1>1 DEF IndInv, Bounded, Plan, successor, Phase
<1>3. Admitted'
  BY <1>1 DEF Plan, Admitted
<1>4. Agreed'
  BY <1>1 DEF Plan, IndInv, Agreed
<1>5. Carried' /\ TakenBack'
  BY <1>1 DEF Carried, TakenBack
<1>6. Noted'
  BY <1>1 DEF IndInv, Noted, Plan, successor
<1>7. QED
  BY <1>2, <1>3, <1>4, <1>5, <1>6 DEF IndInv

\* Preflight negotiates, and goes on only when nothing was refused.
LEMMA PreflightHolds ==
    ASSUME IndInv, NEW source \in Sources, NEW target \in Targets, Preflight(source, target)
    PROVE  IndInv'
<1>1. phase = "planned" /\ phase' \in {"preflighted", "failed"} /\ TheManifest' = TheManifest
  BY DEF Preflight, TheManifest
<1>2. Bounded'
  BY <1>1 DEF IndInv, Bounded, Preflight, successor, Phase
<1>3. Admitted'
  BY <1>1 DEF Preflight, IndInv, Admitted
<1>4. Agreed'
  <2>1. hellos' = <<source, target>> /\ negotiated' = NegotiateGroup(TheManifest, source, target)
    BY DEF Preflight
  <2>2. phase' = "preflighted" => negotiated'.mode # "refused"
    BY DEF Preflight
  <2>3. QED
    BY <1>1, <2>1, <2>2 DEF Agreed
<1>5. Carried' /\ TakenBack'
  BY <1>1 DEF Carried, TakenBack
<1>6. Noted'
  BY <1>1 DEF IndInv, Noted, Preflight, successor
<1>7. QED
  BY <1>2, <1>3, <1>4, <1>5, <1>6 DEF IndInv

\* The campaign's part of the state stays what it was.
LEMMA CampaignStays ==
    ASSUME IndInv, phase \notin {"none", "planned", "failed"}, phase' \notin {"none", "planned", "failed"},
           UNCHANGED <<registry, policy, campaign>>
    PROVE  Admitted' /\ Agreed' /\ TheManifest' = TheManifest /\ Steps' = Steps
<1>1. TheManifest' = TheManifest /\ Steps' = Steps
  BY DEF campaign, TheManifest, Steps
<1>2. Admitted'
  BY <1>1 DEF IndInv, Admitted, campaign
<1>3. Agreed'
  BY <1>1 DEF IndInv, Agreed, campaign
<1>4. QED
  BY <1>1, <1>2, <1>3

\* A snapshot is a document at the source's version.
LEMMA InstallSnapshotHolds ==
    ASSUME IndInv, NEW fields \in SourceStates, InstallSnapshot(fields)
    PROVE  IndInv'
<1>1. /\ phase = "preflighted" /\ phase' = "installed" /\ UNCHANGED <<registry, policy, campaign>>
      /\ doc' = [schema |-> TheManifest.source.schema, fields |-> fields] /\ original' = doc'
  BY DEF InstallSnapshot
<1>2. Admitted' /\ Agreed' /\ TheManifest' = TheManifest
  BY <1>1, CampaignStays
<1>3. IsDocument(doc')
  <2>1. TheManifest \in Manifests
    BY <1>1 DEF IndInv, Admitted
  <2>2. TheManifest.source.schema \in Nat /\ IsFields(fields)
    BY <2>1, InputsAssumption
  <2>3. QED
    BY <1>1, <2>2 DEF IsDocument
<1>4. Bounded'
  <2>1. IsDocument(doc)' /\ IsDocument(original)'
    BY <1>1, <1>3
  <2>2. QED
    BY <1>1, <2>1 DEF IndInv, Bounded, InstallSnapshot, Phase
<1>5. Carried' /\ TakenBack'
  BY <1>1, <1>2 DEF Carried, TakenBack
<1>6. Noted'
  BY <1>1 DEF IndInv, Noted, InstallSnapshot
<1>7. QED
  BY <1>2, <1>4, <1>5, <1>6 DEF IndInv

\* No steps leave a document as it is.
LEMMA NothingToRun ==
    ASSUME NEW m \in Manifests, m.migrations = <<>>, NEW d, IsDocument(d)
    PROVE  MigrateForward(d, m.migrations) = {d}
<1> DEFINE steps == m.migrations
<1>1. PICK K : d \in DocumentOver(K) /\ AreSteps(steps, K)
  BY StepsDeclared
<1>2. Len(steps) = 0
  OBVIOUS
<1>3. d \in DocumentOver(K)
  BY <1>1
<1> HIDE DEF steps
<1>4. PICK run : /\ Runs(run, Len(steps), DocumentOver(K), d, ForwardStep(steps, DocumentOver(K)))
                 /\ MigrateForward(d, steps) = run[Len(steps)]
  BY <1>1, <1>3, ForwardRuns
<1>5. QED
  BY <1>2, <1>4 DEF Runs, steps

\* A migration makes a document within the limits, by the declared steps, and records them.
LEMMA MigrateHolds ==
    ASSUME IndInv, Migrate
    PROVE  IndInv'
<1>1. /\ phase = "installed" /\ phase' = "migrated" /\ UNCHANGED <<registry, policy, campaign>>
      /\ doc' \in MigrateForward(doc, Steps) /\ journal' = Recorded(journal, Steps)
      /\ crossed' = (crossed \/ \E i \in DOMAIN Steps : Steps[i].boundary)
      /\ original' = original /\ restarts' = restarts
  BY DEF Migrate
<1>2. Admitted' /\ Agreed' /\ TheManifest' = TheManifest /\ Steps' = Steps
  BY <1>1, CampaignStays
<1>3. doc = original /\ original.schema = TheManifest.source.schema
  BY <1>1 DEF IndInv, Carried
<1>4. TheManifest \in Manifests /\ Steps = TheManifest.migrations
  BY <1>1 DEF IndInv, Admitted, Steps
<1>5. IsDocument(doc)'
  <2>1. IsDocument(doc)
    BY DEF IndInv, Bounded
  <2>2. QED
    BY <1>1, <1>4, <2>1, MigrationOfManifest
<1>6. Steps \in Seq(Declared) /\ journal \in Seq(Declared)
  <2>1. IsDocument(doc)
    BY DEF IndInv, Bounded
  <2>2. QED
    BY <1>4, <2>1, StepsDeclared DEF IndInv, Bounded
<1>7. /\ journal' \in Seq(Declared) /\ Len(journal') <= JournalCapacity
      /\ Len(journal') < JournalCapacity => journal' = journal \o Steps
      /\ \A i \in 1..Len(Steps) : i > Len(Steps) - JournalCapacity =>
            \E k \in DOMAIN journal' : journal'[k] = Steps[i]
  <2> DEFINE r == Recorded(journal, Steps)
  <2>1. r \in Seq(Declared) /\ Len(r) <= JournalCapacity
    BY <1>6, RecordedKeeps
  <2>2. Len(r) < JournalCapacity => r = journal \o Steps
    BY <1>6, RecordedKeeps
  <2>3. \A i \in 1..Len(Steps) : i > Len(Steps) - JournalCapacity => \E k \in DOMAIN r : r[k] = Steps[i]
    BY <1>6, RecordedKeeps
  <2>4. journal' = r
    BY <1>1
  <2> HIDE DEF r
  <2>5. QED
    BY <2>1, <2>2, <2>3, <2>4
<1>8. Bounded'
  <2>1. crossed' \in BOOLEAN
    BY <1>1
  <2>2. IsDocument(original)'
    BY <1>1 DEF IndInv, Bounded
  <2>3. QED
    BY <1>1, <1>5, <1>7, <2>1, <2>2 DEF IndInv, Bounded, Phase
<1>9. Carried' /\ TakenBack'
  BY <1>1, <1>2, <1>3 DEF Carried, TakenBack
<1>10. Noted'
  <2>1. ASSUME NEW i \in DOMAIN Steps, i > Len(Steps) - JournalCapacity
        PROVE  HasApplied(journal', Steps[i])
    <3>1. i \in 1..Len(Steps)
      BY <1>6
    <3>2. PICK k \in DOMAIN journal' : journal'[k] = Steps[i]
      BY <1>7, <2>1, <3>1
    <3>3. QED
      BY <3>2 DEF HasApplied
  <2>2. ASSUME crossed', Len(journal') < JournalCapacity
        PROVE  IrreversibleCrossed(journal')
    <3>1. journal' = journal \o Steps
      BY <1>7, <2>2
    <3>2. /\ DOMAIN journal' = 1..(Len(journal) + Len(Steps))
          /\ \A i \in 1..Len(journal) : journal'[i] = journal[i]
          /\ \A i \in 1..Len(Steps) : journal'[Len(journal) + i] = Steps[i]
          /\ DOMAIN journal = 1..Len(journal) /\ DOMAIN Steps = 1..Len(Steps)
          /\ {Len(journal), Len(Steps)} \subseteq Nat /\ Len(journal') = Len(journal) + Len(Steps)
      BY <1>6, <3>1
    <3>3. CASE crossed
      <4>1. Len(journal) < JournalCapacity
        BY <2>2, <3>2, MigrationAssumption
      <4>2. PICK i \in DOMAIN journal : journal[i].boundary
        BY <3>3, <4>1 DEF IndInv, Noted, IrreversibleCrossed
      <4>3. i \in DOMAIN journal' /\ journal'[i] = journal[i]
        BY <3>2, <4>2
      <4>4. QED
        BY <4>2, <4>3 DEF IrreversibleCrossed
    <3>4. CASE ~crossed
      <4>1. PICK i \in DOMAIN Steps : Steps[i].boundary
        BY <1>1, <2>2, <3>4
      <4>2. Len(journal) + i \in DOMAIN journal' /\ journal'[Len(journal) + i] = Steps[i]
        BY <3>2, <4>1
      <4>3. QED
        BY <4>1, <4>2 DEF IrreversibleCrossed
    <3>5. QED
      BY <3>3, <3>4
  <2>3. QED
    BY <1>2, <2>1, <2>2 DEF Noted
<1>11. QED
  BY <1>2, <1>8, <1>9, <1>10 DEF IndInv

\* With one version on both sides a valid manifest declares no steps.
LEMMA NothingToMigrateHolds ==
    ASSUME IndInv, NothingToMigrate
    PROVE  IndInv'
<1>1. /\ phase = "installed" /\ phase' = "migrated" /\ UNCHANGED <<registry, policy, campaign>>
      /\ UNCHANGED <<doc, original, journal, crossed, restarts>>
      /\ doc.schema = TheManifest.target.schema
  BY DEF NothingToMigrate, successor
<1>2. Admitted' /\ Agreed' /\ TheManifest' = TheManifest /\ Steps' = Steps
  BY <1>1, CampaignStays
<1>3. doc = original /\ original.schema = TheManifest.source.schema
  BY <1>1 DEF IndInv, Carried
<1>4. TheManifest \in Manifests /\ Steps = TheManifest.migrations /\ Validate(TheManifest)
  BY <1>1 DEF IndInv, Admitted, Steps
<1>5. Steps = <<>>
  BY <1>1, <1>3, <1>4 DEF Validate, StepsValid
<1>6. doc' \in MigrateForward(original', Steps')
  <2>1. MigrateForward(original, Steps) = {original}
    BY <1>4, <1>5, NothingToRun DEF IndInv, Bounded
  <2>2. QED
    BY <1>1, <1>2, <1>3, <2>1
<1>7. Bounded'
  BY <1>1 DEF IndInv, Bounded, Phase, IsDocument
<1>8. Carried' /\ TakenBack'
  BY <1>1, <1>2, <1>3, <1>6 DEF Carried, TakenBack
<1>9. Noted'
  <2>1. DOMAIN Steps' = {}
    BY <1>2, <1>5
  <2>2. QED
    BY <1>1, <2>1 DEF IndInv, Noted
<1>10. QED
  BY <1>2, <1>7, <1>8, <1>9 DEF IndInv

\* Readiness checks the version.
LEMMA ReadinessHolds ==
    ASSUME IndInv, Readiness
    PROVE  IndInv'
<1>1. /\ phase = "migrated" /\ phase' = "ready" /\ UNCHANGED <<registry, policy, campaign>>
      /\ UNCHANGED <<doc, original, journal, crossed, restarts>>
      /\ doc.schema = TheManifest.target.schema
  BY DEF Readiness, successor
<1>2. Admitted' /\ Agreed' /\ TheManifest' = TheManifest /\ Steps' = Steps
  BY <1>1, CampaignStays
<1>3. Bounded'
  BY <1>1 DEF IndInv, Bounded, Phase, IsDocument
<1>4. Carried' /\ TakenBack'
  BY <1>1, <1>2 DEF IndInv, Carried, TakenBack
<1>5. Noted'
  BY <1>1, <1>2 DEF IndInv, Noted
<1>6. QED
  BY <1>2, <1>3, <1>4, <1>5 DEF IndInv

\* A handoff begun anew keeps the journal.
LEMMA RestartHandoffHolds ==
    ASSUME IndInv, RestartHandoff
    PROVE  IndInv'
<1>1. /\ phase \in {"installed", "migrated", "ready"} /\ phase' = "preflighted"
      /\ UNCHANGED <<registry, policy, campaign>> /\ UNCHANGED <<doc, original, journal, crossed>>
      /\ restarts < MaxRestarts /\ restarts' = restarts + 1
  BY DEF RestartHandoff, successor
<1>2. Admitted' /\ Agreed' /\ TheManifest' = TheManifest /\ Steps' = Steps
  BY <1>1, CampaignStays
<1>3. Bounded'
  <2>1. restarts' \in 0..MaxRestarts
    BY <1>1, AdmissionAssumption DEF IndInv, Bounded
  <2>2. QED
    BY <1>1, <2>1 DEF IndInv, Bounded, Phase, IsDocument
<1>4. Carried' /\ TakenBack'
  BY <1>1 DEF Carried, TakenBack
<1>5. Noted'
  BY <1>1 DEF IndInv, Noted
<1>6. QED
  BY <1>2, <1>3, <1>4, <1>5 DEF IndInv

\* The steps of a run found their fields: the property's own form of it.
LEMMA CleanRunIs == CleanRun <=> CleanRunOf(original, Steps)
BY DEF CleanRun, CleanRunOf

\* A downgrade gives the snapshot back.
LEMMA DowngradeHolds ==
    ASSUME IndInv, Downgrade
    PROVE  IndInv'
<1>1. /\ phase \in {"migrated", "ready"} /\ phase' = "downgraded"
      /\ UNCHANGED <<registry, policy, campaign>>
      /\ UNCHANGED <<original, journal, crossed, restarts>> /\ doc' \in MigrateBackward(doc, Steps)
  BY DEF Downgrade
<1>2. Admitted' /\ Agreed' /\ TheManifest' = TheManifest /\ Steps' = Steps
  BY <1>1, CampaignStays
<1>3. TheManifest \in Manifests /\ Steps = TheManifest.migrations
  BY <1>1 DEF IndInv, Admitted, Steps
<1>4. IsDocument(original) /\ doc \in MigrateForward(original, Steps)
  BY <1>1 DEF IndInv, Bounded, Carried
<1>5. /\ CleanRunOf(original, Steps) /\ (\A i \in DOMAIN Steps : Reversible(Steps[i])) =>
            MigrateBackward(doc, Steps) = {original}
      /\ IsDocument(doc') /\ doc'.schema = original.schema
      /\ \A i \in DOMAIN Steps : Reversible(Steps[i])
  BY <1>1, <1>3, <1>4, DowngradeOfManifest
<1>6. CleanRun' <=> CleanRunOf(original, Steps)
  BY <1>1, <1>2 DEF CleanRun, CleanRunOf
<1>7. TakenBack'
  BY <1>1, <1>2, <1>5, <1>6 DEF TakenBack, Reversible
<1>8. Bounded'
  BY <1>1, <1>5 DEF IndInv, Bounded, Phase, IsDocument
<1>9. Carried'
  BY <1>1, <1>2 DEF IndInv, Carried
<1>10. Noted'
  BY <1>1 DEF IndInv, Noted
<1>11. QED
  BY <1>2, <1>7, <1>8, <1>9, <1>10 DEF IndInv

\* A step that changes nothing keeps the invariant.
LEMMA StutterHolds ==
    ASSUME IndInv, UNCHANGED vars
    PROVE  IndInv'
<1>1. /\ UNCHANGED <<registry, policy, phase, manifest, hellos, negotiated, seen>>
      /\ UNCHANGED <<doc, original, journal, crossed, restarts>>
  BY DEF vars, campaign, successor
<1>2. TheManifest' = TheManifest /\ Steps' = Steps /\ (CleanRun' <=> CleanRun)
  BY <1>1 DEF TheManifest, Steps, CleanRun
<1>3. Bounded' /\ Admitted' /\ Agreed'
  BY <1>1, <1>2 DEF IndInv, Bounded, IsDocument, Admitted, Agreed
<1>4. Carried' /\ Noted' /\ TakenBack'
  BY <1>1, <1>2 DEF IndInv, Carried, Noted, TakenBack
<1>5. QED
  BY <1>3, <1>4 DEF IndInv

\* The invariant holds in every reachable state.
LEMMA Invariance == Spec => []IndInv
<1>1. IndInv /\ [Next]_vars => IndInv'
  <2> SUFFICES ASSUME IndInv, [Next]_vars PROVE IndInv'
    OBVIOUS
  <2>1. CASE \E m \in Manifests : Plan(m)
    BY <2>1, PlanHolds
  <2>2. CASE \E source \in Sources, target \in Targets : Preflight(source, target)
    BY <2>2, PreflightHolds
  <2>3. CASE \E fields \in SourceStates : InstallSnapshot(fields)
    BY <2>3, InstallSnapshotHolds
  <2>4. CASE Migrate
    BY <2>4, MigrateHolds
  <2>5. CASE NothingToMigrate
    BY <2>5, NothingToMigrateHolds
  <2>6. CASE Readiness
    BY <2>6, ReadinessHolds
  <2>7. CASE RestartHandoff
    BY <2>7, RestartHandoffHolds
  <2>8. CASE Downgrade
    BY <2>8, DowngradeHolds
  <2>9. CASE UNCHANGED vars
    BY <2>9, StutterHolds
  <2>10. QED
    BY <2>1, <2>2, <2>3, <2>4, <2>5, <2>6, <2>7, <2>8, <2>9 DEF Next
<1>2. QED
  BY <1>1, InitHolds, PTL DEF Spec

----------------------------------------------------------------------------
(* Theorems *)

\* The campaign's state is well formed, and document and journal keep within their limits,
\* whatever steps a manifest declares.
THEOREM AdmissionTypeCorrect == Spec => []TypeOK
<1>1. IndInv => TypeOK
  <2> SUFFICES ASSUME IndInv PROVE TypeOK
    OBVIOUS
  <2>1. Len(manifest) <= 1 /\ ((manifest = <<>>) <=> (phase = "none"))
    <3>1. CASE phase = "none"
      BY <3>1 DEF IndInv, Admitted
    <3>2. CASE phase # "none"
      <4>1. manifest = <<TheManifest>>
        BY <3>2 DEF IndInv, Admitted
      <4> HIDE DEF TheManifest
      <4>2. QED
        BY <3>2, <4>1
    <3>3. QED
      BY <3>1, <3>2
  <2>2. hellos = <<>> \/ (hellos[1] \in Sources /\ hellos[2] \in Targets)
    BY DEF IndInv, Agreed
  <2>3. negotiated.mode \in {"refused", "restricted", "compatible"}
    BY DEF IndInv, Agreed, NegotiateGroup, Refused
  <2>4. Cardinality(seen) <= 1
    <3>1. seen = {} \/ \E d : seen = {d}
      BY DEF IndInv, Admitted, Decide
    <3>2. Cardinality({}) = 0 /\ \A d : Cardinality({d}) = 1
      BY FS_EmptySet, FS_Singleton
    <3>3. QED
      BY <3>1, <3>2
  <2>5. QED
    BY <2>1, <2>2, <2>3, <2>4 DEF IndInv, Bounded, IsDocument, TypeOK
<1>2. QED
  BY <1>1, Invariance, PTL

\* Admission is enough for the negotiation of preflight: what validate has accepted negotiate_group never refuses
\* between the components the manifest declares.
THEOREM AdmissionSuffices == Spec => []DeclaredNegotiates
<1>1. IndInv => DeclaredNegotiates
  <2> SUFFICES ASSUME IndInv, manifest # <<>>
               PROVE  LET m == TheManifest
                          result == NegotiateGroup(m, Hello(m.source), Hello(m.target))
                      IN  /\ result.mode # "refused"
                          /\ result.effective \in {m.source.protocol, m.target.protocol}
    BY DEF DeclaredNegotiates
  <2> DEFINE m == TheManifest
             s == Hello(m.source)
             t == Hello(m.target)
             v == NegotiateVersion(s.protocol, t.protocol)
  <2>1. m \in Manifests /\ Validate(m)
    BY DEF IndInv, Admitted
  <2> HIDE DEF m
  <2>2. /\ s.protocol = m.source.protocol /\ t.protocol = m.target.protocol
        /\ s.features = m.source.features /\ t.features = m.target.features
        /\ s.schema = m.source.schema /\ t.schema = m.target.schema
        /\ s.id = m.source.id /\ t.id = m.target.id
    BY DEF Hello
  <2> HIDE DEF s, t
  <2>3. s.protocol \in Version /\ t.protocol \in Version
    BY <2>1, <2>2, InputsAssumption
  <2>4. ProtocolValid(m)
    BY <2>1 DEF Validate
  <2>5. CompatibleWith(s.protocol, t.protocol)
    BY <2>2, <2>4 DEF ProtocolValid, CompatibleWith
  <2>6. v \in {s.protocol, t.protocol}
    BY <2>3, <2>5 DEF Version, NegotiateVersion, CompatibleWith
  <2> HIDE DEF v
  <2>7. v \in m.protocol.accepted
    BY <2>2, <2>4, <2>6 DEF ProtocolValid
  <2>8. m.protocol.required \subseteq s.features \cap t.features \cap m.protocol.allowed
    BY <2>2, <2>4 DEF ProtocolValid
  <2>9. NegotiateGroup(m, s, t).mode \in {"compatible", "restricted"}
        /\ NegotiateGroup(m, s, t).effective = v
    BY <2>2, <2>5, <2>7, <2>8 DEF NegotiateGroup, v
  <2>10. QED
    BY <2>2, <2>6, <2>9 DEF m, s, t
<1>2. QED
  BY <1>1, Invariance, PTL

\* Whatever the components report: a campaign goes on only with a version neither of them is
\* too old for, and with certified features both have, the required ones among them.
THEOREM NegotiationSafe == Spec => []NegotiatedSafe
<1>1. IndInv => NegotiatedSafe
  <2> SUFFICES ASSUME IndInv, phase \notin {"none", "planned", "failed"}
               PROVE  /\ \A i \in {1, 2} :
                            /\ hellos[i].protocol.major = negotiated.effective.major
                            /\ hellos[i].protocol.minor >= negotiated.effective.minor
                            /\ negotiated.enabled \subseteq hellos[i].features
                      /\ TheManifest.protocol.required \subseteq negotiated.enabled
                      /\ negotiated.enabled \subseteq TheManifest.evidence.certified
                      /\ policy = "exact" => \E d \in seen : negotiated.enabled \subseteq d.certified
    BY DEF NegotiatedSafe
  <2> DEFINE m == TheManifest
             s == hellos[1]
             t == hellos[2]
             v == NegotiateVersion(s.protocol, t.protocol)
             enabled == s.features \cap t.features \cap m.protocol.allowed
  <2>1. /\ Validate(m) /\ VerifyEvidence(m.evidence, registry, policy)
        /\ seen = Decide(registry, m.evidence)
    BY DEF IndInv, Admitted
  <2>2. /\ s \in Sources /\ t \in Targets
        /\ negotiated = NegotiateGroup(m, s, t) /\ negotiated.mode # "refused"
    BY DEF IndInv, Agreed
  <2>3. s.protocol \in Version /\ t.protocol \in Version
    BY <2>2, InputsAssumption
  <2> HIDE DEF m, s, t
  <2>4. /\ negotiated.effective = v /\ negotiated.enabled = enabled
        /\ CompatibleWith(s.protocol, t.protocol) /\ m.protocol.required \subseteq enabled
    BY <2>2 DEF NegotiateGroup, Refused
  <2>5. /\ v.major = s.protocol.major /\ v.major = t.protocol.major
        /\ s.protocol.minor >= v.minor /\ t.protocol.minor >= v.minor
    BY <2>3, <2>4 DEF NegotiateVersion, CompatibleWith, Version
  <2>6. m.protocol.allowed \subseteq m.evidence.certified
    BY <2>1 DEF Validate, ProtocolValid
  <2>7. enabled \subseteq m.evidence.certified
    BY <2>6
  <2>8. policy = "exact" => m.evidence \in seen
    BY <2>1 DEF VerifyEvidence
  <2> HIDE DEF v
  <2>9. \A i \in {1, 2} :
            /\ hellos[i].protocol.major = negotiated.effective.major
            /\ hellos[i].protocol.minor >= negotiated.effective.minor
            /\ negotiated.enabled \subseteq hellos[i].features
    BY <2>4, <2>5 DEF s, t
  <2> HIDE DEF enabled
  <2>10. QED
    BY <2>4, <2>7, <2>8, <2>9 DEF m
<1>2. QED
  BY <1>1, Invariance, PTL

\* A successor that reports ready has run exactly the migration path that was admitted, and its
\* journal says so.
THEOREM ReadyMeansMigrated == Spec => []ReadyRanThePath
<1>1. IndInv => ReadyRanThePath
  <2> SUFFICES ASSUME IndInv, phase = "ready"
               PROVE  /\ Steps = Path
                      /\ \A i \in DOMAIN Steps :
                            i > Len(Steps) - JournalCapacity => HasApplied(journal, Steps[i])
                      /\ crossed /\ Len(journal) < JournalCapacity => IrreversibleCrossed(journal)
                      /\ TheManifest.rollback.kind = "rollback_to_predecessor" =>
                            ~\E i \in DOMAIN Steps : Steps[i].boundary
    BY DEF ReadyRanThePath
  <2> DEFINE m == TheManifest
             from == m.source.schema
             to == m.target.schema
  <2>1. m \in Manifests /\ Validate(m) /\ Steps = m.migrations
    BY DEF IndInv, Admitted, Steps
  <2>2. /\ IsDocument(original) /\ doc \in MigrateForward(original, Steps)
        /\ original.schema = from /\ doc.schema = to
    BY DEF IndInv, Bounded, Carried
  <2>3. Chain(Steps, from, to)
    BY <2>1, <2>2, MigrationOfManifest
  <2>4. Steps \in Seq(Declared) /\ from \in Nat /\ to \in Nat
    BY <2>1, <2>2, StepsDeclared, InputsAssumption
  <2>5. Path = MigrationPath(Steps, from, to)
    BY DEF Path
  <2> HIDE DEF m
  <2>6. Advancing(Steps)
    <3>1. DOMAIN Steps = 1..Len(Steps)
      BY <2>4
    <3>2. QED
      BY <2>1, <3>1, InputsAssumption DEF Validate, StepsValid, Advancing
  <2>7. Steps = Path
    <3>1. CASE Steps = <<>>
      <4>1. ~(from < to)
        BY <2>3, <2>4, <3>1 DEF Chain
      <4>2. MigrationPath(Steps, from, to) = <<>>
        BY <4>1 DEF MigrationPath
      <4>3. QED
        BY <2>5, <3>1, <4>2
    <3>2. CASE Steps # <<>>
      BY <2>3, <2>4, <2>5, <2>6, <3>2, ChainIsPath
    <3>3. QED
      BY <3>1, <3>2
  <2>8. ASSUME m.rollback.kind = "rollback_to_predecessor"
        PROVE  ~\E i \in DOMAIN Steps : Steps[i].boundary
    <3>1. ~CrossesIrreversibleBoundary(Steps, from, to)
      BY <2>1, <2>8 DEF Validate, RollbackValid
    <3>2. QED
      BY <2>5, <2>7, <3>1 DEF CrossesIrreversibleBoundary
  <2>9. QED
    BY <2>7, <2>8 DEF IndInv, Noted, m
<1>2. QED
  BY <1>1, Invariance, PTL

\* migrate_backward undoes migrate_forward, for every document and all steps: where the steps
\* are reversible and found their fields the downgrade is possible and gives the document back.
THEOREM DowngradeRoundTrips == Spec => []RoundTrip
<1>1. IndInv => RoundTrip
  <2> SUFFICES ASSUME IndInv PROVE RoundTrip
    OBVIOUS
  <2>1. ASSUME phase = "migrated", CleanRun, \A i \in DOMAIN Steps : Reversible(Steps[i])
        PROVE  MigrateBackward(doc, Steps) = {original}
    <3>1. TheManifest \in Manifests /\ Steps = TheManifest.migrations
      BY <2>1 DEF IndInv, Admitted, Steps
    <3>2. IsDocument(original) /\ doc \in MigrateForward(original, Steps)
      BY <2>1 DEF IndInv, Bounded, Carried
    <3>3. CleanRunOf(original, Steps)
      BY <2>1, CleanRunIs
    <3>4. QED
      BY <2>1, <3>1, <3>2, <3>3, DowngradeOfManifest
  <2>2. QED
    BY <2>1 DEF IndInv, TakenBack, RoundTrip
<1>2. QED
  BY <1>1, Invariance, PTL
=============================================================================
