------------------------- MODULE EpochJournalProofs -------------------------
(***************************************************************************)
(* Proofs about the controller's epoch journal, for any capacity and any    *)
(* number of decisions, crashes and failed file operations.                 *)
(*                                                                          *)
(* Typed is the type invariant.  Relative to it, three inductive invariants *)
(* carry the three properties: Led for JournalFirst (what a request has     *)
(* journaled at each of its steps), Kept for LossReported (how far the      *)
(* journal file, the events in memory and the history agree, counted from   *)
(* the end), and Grown for GrowthPerBoot.                                   *)
(***************************************************************************)
EXTENDS EpochJournal, RecordFileProofs

----------------------------------------------------------------------------
(* The inductive invariants *)

Typed ==
    /\ state \in SUBSET Nat /\ disk \in SUBSET Nat
    /\ cells \in Cells(Nat) /\ events \in Seq(Nat) /\ damaged \in BOOLEAN
    /\ pc \in Step \cup {"idle", "down"} /\ req \in Request /\ held \in BOOLEAN
    /\ last \in Nat /\ pending \in SUBSET Nat /\ acked \in SUBSET Nat
    /\ journaled \in Seq(Nat)
    /\ crashes \in Nat /\ failed \subseteq Step \cup {"ignored", "flush"}
    /\ pc = "deliver" => last # 0 /\ req \in {"ensure", "transfer"}

Journaled == Elements(journaled)

\* What of the request under way is in the journal.
Ahead ==
    /\ Journaled \subseteq 1..last
    /\ pc \in {"deliver", "append"} => last \in pending /\ last # 0 /\ last \notin Journaled
    /\ pc = "idle" => pending = {}
    /\ "ignored" \notin failed =>
        /\ acked \subseteq Journaled
        /\ pc \in {"save", "compact", "phase", "resume"} => pending \subseteq Journaled
        /\ pc \in {"deliver", "append"} => pending \ {last} \subseteq Journaled

\* How many decisions the state file may lack at a step, the newest one included.
Most ==
    IF AtRest THEN 1
    ELSE IF pc \in {"deliver", "phase"} THEN 2
    ELSE IF pc \in {"append", "compact"} /\ req = "revoke" THEN 1
    ELSE IF pc \in {"append", "compact"} /\ req # "decide" THEN 2
    ELSE 3

\* Without failures, memory is the state file and a few decisions more, all journaled but the
\* newest, and what is journaled and not in memory is the fault of crashes.  A revocation that
\* is not saved has freed the slot, and only a holder can be revoked.
InStep ==
    failed = {} =>
        /\ disk \subseteq Journaled
        /\ pc = "down" => Cardinality(Journaled \ disk) <= 3 * crashes
        /\ pc # "down" =>
            /\ disk \subseteq state
            /\ pc \in {"deliver", "append"} =>
                last \in state /\ state \subseteq Journaled \cup {last}
            /\ pc \notin {"deliver", "append"} => state \subseteq Journaled
            /\ Cardinality(Journaled \ state) <= 3 * crashes
            /\ Cardinality(state \ disk) <= Most
            /\ AtRest /\ held => state = disk
            /\ pc \in {"append", "compact"} /\ req = "revoke" => ~held

Led == Ahead /\ InStep

\* The last m elements of s are those of t.
SameEnd(s, t, m) ==
    /\ m <= Len(s) /\ m <= Len(t)
    /\ \A i \in 0..(m - 1) : s[Len(s) - i] = t[Len(t) - i]

\* The last m elements of t are in s, each at most e further from the end.
NearEnd(s, t, m, e) ==
    /\ m <= Len(t)
    /\ \A i \in 0..(m - 1) :
        \E j \in i..(i + e) : j < Len(s) /\ s[Len(s) - j] = t[Len(t) - i]

\* How many events are recent.
Recent == IF Len(journaled) <= Keep(Capacity) THEN Len(journaled) ELSE Keep(Capacity)

\* A record whose flush failed may be in the file among those that were appended.
Slack == IF "flush" \in failed THEN 1 ELSE 0

\* The records of a log, whether they can be read or not.
Written(file) == [i \in DOMAIN file |-> file[i].rec]

\* The events this process appended are the newest, whatever it found: all but the Capacity it
\* may have started with.  The recent ones are there unless the file it replayed was damaged,
\* and they are in the file unless that is damaged now.
Kept ==
    /\ pc # "down" =>
        /\ Capacity < Len(events) => SameEnd(events, journaled, Len(events) - Capacity)
        /\ damaged \/ NearEnd(events, journaled, Recent, Slack)
        /\ pc = "compact" => 2 * Capacity < Len(events)
    /\ TailDamaged(cells) \/ NearEnd(Written(cells), journaled, Recent, Slack)

\* Without failures, a boot adds what it has in memory, at most 2 * Capacity + 1 events, and
\* of an undamaged file it has read Capacity of them back, or all there are.
Grown ==
    failed = {} =>
        /\ pc = "down" =>
            /\ Len(cells) <= (2 * Capacity + 1) * crashes
            /\ TailDamaged(cells) \/ Len(cells) <= (Capacity + 1) * crashes + Capacity
        /\ pc # "down" =>
            /\ Len(cells) <= (2 * Capacity + 1) * crashes + Len(events)
            /\ TailDamaged(cells) \/ Len(cells) <= (Capacity + 1) * crashes + Len(events)
            /\ Len(events) <= 2 * Capacity + (IF pc = "compact" THEN 1 ELSE 0)

----------------------------------------------------------------------------
(* Operators *)

\* An append adds one element.
LEMMA ElementsOfAppend ==
    ASSUME NEW s \in Seq(Nat), NEW x \in Nat
    PROVE  Append(s, x) \in Seq(Nat) /\ Elements(Append(s, x)) = Elements(s) \cup {x}
<1> DEFINE t == Append(s, x)
<1>1. /\ t \in Seq(Nat) /\ DOMAIN t = 1..(Len(s) + 1) /\ DOMAIN s = 1..Len(s) /\ Len(s) \in Nat
      /\ \A i \in 1..Len(s) : t[i] = s[i]
      /\ t[Len(s) + 1] = x
  BY AppendProperties, LenProperties
<1> HIDE DEF t
<1>2. ASSUME NEW i \in DOMAIN t PROVE t[i] \in Elements(s) \cup {x}
  <2>1. CASE i \in 1..Len(s)
    BY <1>1, <2>1 DEF Elements
  <2>2. CASE i = Len(s) + 1
    BY <1>1, <2>2
  <2>3. QED
    BY <1>1, <2>1, <2>2
<1>3. ASSUME NEW i \in DOMAIN s PROVE s[i] \in Elements(t)
  BY <1>1 DEF Elements
<1>4. x \in Elements(t)
  BY <1>1 DEF Elements
<1>5. QED
  BY <1>1, <1>2, <1>3, <1>4 DEF Elements, t

----------------------------------------------------------------------------
(* Types *)

\* A journal operation that does not complete leaves the file, or part of a record behind it.
LEMMA InterruptedCells ==
    ASSUME Typed
    PROVE  /\ Append(cells, Intact(last)) \in Cells(Nat)
           /\ \A c \in Interrupted :
                /\ c \in Cells(Nat)
                /\ c = cells \/ (pc = "append" /\ c = Append(cells, Torn(last)))
<1>1. cells \in Cells(Nat) /\ last \in Nat
  BY DEF Typed
<1>2. Torn(last) \in [intact: BOOLEAN, rec: Nat] /\ Intact(last) \in [intact: BOOLEAN, rec: Nat]
  BY <1>1 DEF Torn, Intact
<1>3. Append(cells, Torn(last)) \in Cells(Nat) /\ Append(cells, Intact(last)) \in Cells(Nat)
  BY <1>1, <1>2, AppendProperties DEF Cells
<1>4. QED
  BY <1>1, <1>3 DEF Interrupted, Event

\* Every step keeps the types.
LEMMA TypedKept ==
    ASSUME Typed, [Next]_vars
    PROVE  Typed'
<1> USE JournalAssumption
<1>1. /\ {"deliver", "append", "compact", "phase", "resume", "save", "idle", "down"} =
            Step \cup {"idle", "down"}
      /\ {"open", "decide", "step", "transfer", "ensure", "revoke", "other"} = Request
  BY DEF Step, Request
<1>2. cells \in Cells(Nat) /\ events \in Seq(Nat) /\ <<>> \in Seq(Nat) /\ last \in Nat
  BY DEF Typed
<1>3. CASE Open
  <2>1. ReadRecords(cells) \in Seq(Nat)
    BY <1>2, ReadRecordsType
  <2>2. Replayed(cells) \in Seq(Nat)
    BY <2>1, NewestIsSuffix DEF Replayed
  <2>3. TailDamaged(cells) \in BOOLEAN
    BY DEF TailDamaged
  <2>4. QED
    BY <1>1, <1>3, <2>2, <2>3 DEF Typed, Open, faults
<1>4. ASSUME NEW request \in Request, Decide(request)
      PROVE  /\ state' \in SUBSET Nat /\ last' \in Nat /\ last' # 0 /\ req' \in Request
             /\ pending' \in SUBSET Nat
             /\ UNCHANGED <<disk, cells, events, damaged, acked, journaled, crashes, failed>>
  BY <1>1, <1>4 DEF Typed, Decide, log, faults
<1>5. CASE Begin \/ Revoke \/ Grant \/ RecordPhase
  <2>1. PICK request \in Request : Decide(request)
    BY <1>1, <1>5 DEF Begin, Revoke, Grant, RecordPhase
  <2>2. /\ state' \in SUBSET Nat /\ last' \in Nat /\ last' # 0 /\ req' \in Request
        /\ pending' \in SUBSET Nat
        /\ UNCHANGED <<disk, cells, events, damaged, acked, journaled, crashes, failed>>
    BY <1>4, <2>1
  <2>3. /\ pc' \in Step \cup {"idle", "down"} /\ held' \in BOOLEAN
        /\ pc' = "deliver" => req' \in {"ensure", "transfer"}
    BY <1>1, <1>5 DEF Begin, Revoke, Grant, RecordPhase, Decide, Typed
  <2>4. QED
    BY <2>2, <2>3 DEF Typed
<1>6. CASE Deliver \/ DeliveryFails \/ SaveOther \/ GiveUp \/ Save
  <2>1. CASE DeliveryFails
    <3>1. /\ pc = "deliver" /\ last # 0 /\ last' = last - 1 /\ pc' \in {"save", "resume"}
          /\ state' \in SUBSET Nat /\ pending' \in SUBSET Nat /\ req' = "other" /\ held' = FALSE
          /\ UNCHANGED <<disk, cells, events, damaged, acked, journaled, crashes, failed>>
      BY <2>1 DEF Typed, DeliveryFails, log, faults
    <3>2. last' \in Nat
      BY <1>2, <3>1
    <3>3. QED
      BY <1>1, <3>1, <3>2 DEF Typed
  <2>2. CASE Deliver \/ SaveOther \/ GiveUp \/ Save
    BY <1>1, <2>2 DEF Typed, Deliver, SaveOther, GiveUp, Save, log, faults
  <2>3. QED
    BY <1>6, <2>1, <2>2
<1>7. CASE AppendEvent
  <2>1. Intact(last) \in [intact: BOOLEAN, rec: Nat]
    BY <1>2 DEF Intact
  <2>2. Append(cells, Intact(last)) \in Cells(Nat)
    BY <1>2, <2>1, AppendProperties DEF Cells
  <2>3. Append(events, last) \in Seq(Nat) /\ Append(journaled, last) \in Seq(Nat)
    BY <1>2, AppendProperties DEF Typed
  <2>4. pc' \in Step \cup {"idle", "down"}
    BY <1>1, <1>7 DEF AppendEvent, AfterAppend
  <2>5. pc' # "deliver"
    BY <1>7 DEF AppendEvent, AfterAppend
  <2>6. QED
    BY <1>7, <2>2, <2>3, <2>4, <2>5 DEF Typed, AppendEvent, Event, faults
<1>8. CASE Compact
  <2> DEFINE kept == Newest(events, Keep(Capacity))
  <2>1. Keep(Capacity) \in Nat
    BY KeepBounds
  <2>2. kept \in Seq(Nat)
    BY <1>2, <2>1, NewestIsSuffix
  <2> HIDE DEF kept
  <2>3. LogOf(kept) \in Cells(Nat)
    BY <2>2, LogOfIsReadable
  <2>4. cells' = LogOf(kept) /\ events' = kept
    BY <1>8 DEF Compact, kept
  <2>5. pc' \in Step \cup {"idle", "down"}
    BY <1>1, <1>8 DEF Compact, AfterAppend
  <2>6. pc' # "deliver"
    BY <1>8 DEF Compact, AfterAppend
  <2>7. QED
    BY <1>8, <2>2, <2>3, <2>4, <2>5, <2>6 DEF Typed, Compact, faults
<1>9. CASE IoError \/ FlushError
  <2>1. cells' \in Cells(Nat)
    <3>1. CASE IoError
      BY <3>1, InterruptedCells DEF IoError
    <3>2. CASE FlushError
      BY <3>2, InterruptedCells DEF FlushError, Event
    <3>3. QED
      BY <1>9, <3>1, <3>2
  <2>2. PICK kind \in {"append", "compact", "save", "flush"} : Fails(kind)
    BY <1>9 DEF IoError, FlushError
  <2>3. failed' \subseteq Step \cup {"ignored", "flush"}
    BY <2>2 DEF Fails, Typed, Step
  <2>4. QED
    BY <1>1, <1>2, <2>1, <2>2, <2>3 DEF Typed, Fails, Down, log
<1>10. CASE Crash
  <2>1. cells' \in Cells(Nat)
    BY <1>10, InterruptedCells DEF Crash
  <2>2. Down /\ crashes' \in Nat /\ UNCHANGED <<disk, last, acked, journaled, failed>>
    BY <1>10 DEF Crash, Typed
  <2>3. /\ pc' \in Step \cup {"idle", "down"} /\ pc' # "deliver" /\ req' \in Request
        /\ held' \in BOOLEAN /\ state' \in SUBSET Nat /\ pending' \in SUBSET Nat
        /\ events' \in Seq(Nat) /\ damaged' \in BOOLEAN
    BY <1>1, <1>2, <2>2 DEF Down
  <2>4. QED
    BY <2>1, <2>2, <2>3 DEF Typed
<1>11. CASE UNCHANGED vars
  BY <1>11 DEF Typed, vars, log, faults
<1>12. QED
  BY <1>3, <1>5, <1>6, <1>7, <1>8, <1>9, <1>10, <1>11 DEF Next

----------------------------------------------------------------------------
(* The journal leads *)

\* A set of decisions taken so far is finite.
LEMMA FewDecisions ==
    ASSUME NEW n \in Nat, NEW S, S \subseteq 1..n
    PROVE  IsFiniteSet(S) /\ Cardinality(S) \in Nat
<1>1. IsFiniteSet(1..n)
  BY FS_Interval
<1>2. QED
  BY <1>1, FS_Subset, FS_CardinalityType

\* One decision more is one more at most.
LEMMA OneMore ==
    ASSUME NEW n \in Nat, NEW S, S \subseteq 1..n, NEW x
    PROVE  /\ IsFiniteSet(S \cup {x}) /\ Cardinality(S \cup {x}) \in Nat
           /\ Cardinality(S \cup {x}) <= Cardinality(S) + 1
<1>1. IsFiniteSet(S) /\ Cardinality(S) \in Nat
  BY FewDecisions
<1>2. /\ IsFiniteSet(S \cup {x})
      /\ Cardinality(S \cup {x}) = IF x \in S THEN Cardinality(S) ELSE Cardinality(S) + 1
  BY <1>1, FS_AddElement
<1>3. QED
  BY <1>1, <1>2

\* What the file lacks of the journal is the fault of crashes and of the request under way.
LEMMA AheadByFew ==
    ASSUME Typed, Led, failed = {}
    PROVE  /\ Cardinality(Journaled \ disk) \in Nat
           /\ pc = "down" => Cardinality(Journaled \ disk) <= 3 * crashes
           /\ AtRest => Cardinality(Journaled \ disk) <= 3 * crashes + 1
           /\ Cardinality(Journaled \ disk) <= 3 * crashes + 3
<1>1. last \in Nat /\ Journaled \subseteq 1..last /\ crashes \in Nat
  BY DEF Typed, Led, Ahead
<1>2. IsFiniteSet(Journaled \ disk) /\ Cardinality(Journaled \ disk) \in Nat
  BY <1>1, FewDecisions
<1>3. CASE pc = "down"
  BY <1>1, <1>2, <1>3 DEF Led, InStep, AtRest
<1>4. CASE pc # "down"
  <2> DEFINE A == Journaled \ state
             B == Journaled \cap (state \ disk)
             D == state \ disk
  <2>1. /\ Journaled \ disk = A \cup B
        /\ Cardinality(A) <= 3 * crashes /\ Cardinality(D) <= Most
    BY <1>4 DEF Led, InStep
  <2>2. D \subseteq 1..last
    <3>1. pc \in {"deliver", "append"} => last \in 1..last
      BY <1>1 DEF Led, Ahead
    <3>2. state \subseteq Journaled \cup (IF pc \in {"deliver", "append"} THEN {last} ELSE {})
      BY <1>4 DEF Led, InStep
    <3>3. QED
      BY <1>1, <3>1, <3>2
  <2>3. /\ IsFiniteSet(A) /\ Cardinality(A) \in Nat
        /\ IsFiniteSet(D) /\ Cardinality(D) \in Nat
        /\ IsFiniteSet(B) /\ Cardinality(B) \in Nat
    <3>1. A \subseteq 1..last /\ B \subseteq 1..last
      BY <1>1
    <3> HIDE DEF A, B, D
    <3>2. QED
      BY <1>1, <2>2, <3>1, FewDecisions
  <2>4. B \subseteq D /\ A \cap B = {}
    OBVIOUS
  <2> HIDE DEF A, B, D
  <2>5. Cardinality(B) <= Cardinality(D)
    BY <2>3, <2>4, FS_Subset
  <2>6. Cardinality(A \cup B) = Cardinality(A) + Cardinality(B)
    <3>1. Cardinality(A \cup B) = Cardinality(A) + Cardinality(B) - Cardinality(A \cap B)
      BY <2>3, FS_Union
    <3>2. Cardinality(A \cap B) = 0
      BY <2>4, FS_EmptySet
    <3> DEFINE a == Cardinality(A)
               b == Cardinality(B)
    <3>3. a \in Nat /\ b \in Nat /\ Cardinality(A \cup B) = a + b - 0
      BY <2>3, <3>1, <3>2
    <3> HIDE DEF a, b
    <3>4. Cardinality(A \cup B) = a + b
      BY <3>3
    <3>5. QED
      BY <3>4 DEF a, b
  <2>7. Most \in 1..3 /\ (AtRest => Most = 1)
    BY DEF Most
  <2> DEFINE a == Cardinality(A)
             b == Cardinality(B)
             d == Cardinality(D)
  <2>8. /\ Cardinality(Journaled \ disk) = a + b /\ a \in Nat /\ b \in Nat /\ d \in Nat
        /\ a <= 3 * crashes /\ b <= d /\ d <= Most
    BY <2>1, <2>3, <2>5, <2>6
  <2> HIDE DEF a, b, d
  <2>9. a + b <= 3 * crashes + 3 /\ (AtRest => a + b <= 3 * crashes + 1)
    BY <1>1, <2>7, <2>8
  <2>10. QED
    BY <1>2, <1>4, <2>8, <2>9
<1>5. QED
  BY <1>3, <1>4

\* A decision is new, and nothing of it is journaled.
LEMMA Decides ==
    ASSUME Typed, Led, NEW request, Decide(request), pc # "down", pc \notin {"deliver", "append"}
    PROVE  /\ last' = last + 1 /\ last' \in Nat /\ last' # 0 /\ state' = state \cup {last'}
           /\ pending' = pending \cup {last'} /\ req' = request
           /\ UNCHANGED <<disk, acked, journaled, crashes, failed>>
           /\ Journaled' = Journaled
           /\ Journaled \subseteq 1..last' /\ last' \notin Journaled
           /\ failed = {} =>
                /\ disk \subseteq Journaled /\ disk \subseteq state'
                /\ state' \subseteq Journaled \cup {last'}
                /\ Cardinality(Journaled \ state') <= 3 * crashes
                /\ Cardinality(state \ disk) \in Nat
                /\ Cardinality(state' \ disk) \in Nat
                /\ Cardinality(state' \ disk) <= Cardinality(state \ disk) + 1
                /\ Cardinality(state \ disk) <= Most
<1>1. /\ last' = last + 1 /\ state' = state \cup {last'} /\ last \in Nat
      /\ pending' = pending \cup {last'} /\ req' = request
      /\ UNCHANGED <<disk, acked, journaled, crashes, failed>>
  BY DEF Decide, faults, Typed
<1>2. Journaled \subseteq 1..last /\ Journaled' = Journaled
  BY <1>1 DEF Led, Ahead, Journaled
<1>3. last' \in Nat /\ last' # 0 /\ Journaled \subseteq 1..last' /\ last' \notin Journaled
  BY <1>1, <1>2
<1>4. ASSUME failed = {}
      PROVE  /\ disk \subseteq Journaled /\ disk \subseteq state'
             /\ state' \subseteq Journaled \cup {last'}
             /\ Cardinality(Journaled \ state') <= 3 * crashes
             /\ Cardinality(state \ disk) \in Nat
             /\ Cardinality(state' \ disk) \in Nat
             /\ Cardinality(state' \ disk) <= Cardinality(state \ disk) + 1
             /\ Cardinality(state \ disk) <= Most
  <2>1. /\ disk \subseteq Journaled /\ disk \subseteq state /\ state \subseteq Journaled
        /\ Cardinality(Journaled \ state) <= 3 * crashes
        /\ Cardinality(state \ disk) <= Most
    BY <1>4 DEF Led, InStep
  <2>2. Journaled \ state' = Journaled \ state /\ state' \ disk = (state \ disk) \cup {last'}
    BY <1>1, <1>3, <2>1
  <2>3. state \ disk \subseteq 1..last
    BY <1>2, <2>1
  <2>4. Cardinality(state \ disk) \in Nat
    BY <1>1, <2>3, FewDecisions
  <2>5. /\ Cardinality((state \ disk) \cup {last'}) \in Nat
        /\ Cardinality((state \ disk) \cup {last'}) <= Cardinality(state \ disk) + 1
    BY <1>1, <2>3, OneMore
  <2>6. QED
    BY <1>1, <2>1, <2>2, <2>4, <2>5
<1>5. QED
  BY <1>1, <1>2, <1>3, <1>4

\* A step that takes a decision keeps the journal ahead.
LEMMA DecidesLed ==
    ASSUME Typed, Led, NEW request, Decide(request), request \in Request, pc' \in {"deliver", "append"},
           \/ AtRest /\ request # "revoke"
           \/ pc = "idle" /\ held /\ request = "revoke" /\ ~held'
           \/ pc = "phase" /\ request = "decide" /\ pc' = "append"
    PROVE  Led'
<1>1. pc # "down" /\ pc \notin {"deliver", "append"}
  BY DEF AtRest
<1>2. /\ last' = last + 1 /\ last' \in Nat /\ last' # 0 /\ state' = state \cup {last'}
      /\ pending' = pending \cup {last'} /\ req' = request
      /\ UNCHANGED <<disk, acked, journaled, crashes, failed>>
      /\ Journaled' = Journaled
      /\ Journaled \subseteq 1..last' /\ last' \notin Journaled
      /\ failed = {} =>
           /\ disk \subseteq Journaled /\ disk \subseteq state'
           /\ state' \subseteq Journaled \cup {last'}
           /\ Cardinality(Journaled \ state') <= 3 * crashes
           /\ Cardinality(state \ disk) \in Nat
           /\ Cardinality(state' \ disk) \in Nat
           /\ Cardinality(state' \ disk) <= Cardinality(state \ disk) + 1
           /\ Cardinality(state \ disk) <= Most
  BY <1>1, Decides
<1>3. Ahead'
  <2>1. "ignored" \notin failed => acked \subseteq Journaled /\ pending \subseteq Journaled
    BY <1>1 DEF Led, Ahead, AtRest
  <2>2. QED
    BY <1>2, <2>1 DEF Ahead
<1>4. ASSUME failed = {} PROVE Cardinality(state' \ disk) <= Most'
  <2>1. CASE AtRest /\ request # "revoke"
    <3>1. Most = 1 /\ Most' >= 2 /\ Most' \in Nat
      BY <1>2, <2>1 DEF Most, AtRest
    <3>2. QED
      BY <1>2, <1>4, <3>1
  <2>2. CASE pc = "idle" /\ held /\ request = "revoke"
    <3>1. state = disk
      BY <1>4, <2>2 DEF Led, InStep, AtRest
    <3>2. Cardinality(state \ disk) = 0
      BY <3>1, FS_EmptySet
    <3>3. Most' \in Nat /\ Most' >= 1
      BY DEF Most
    <3>4. QED
      BY <1>2, <1>4, <3>2, <3>3
  <2>3. CASE pc = "phase" /\ request = "decide" /\ pc' = "append"
    <3>1. Most = 2 /\ Most' = 3
      BY <1>2, <2>3 DEF Most, AtRest
    <3>2. QED
      BY <1>2, <1>4, <3>1
  <2>4. QED
    BY <2>1, <2>2, <2>3
<1>5. InStep'
  BY <1>2, <1>4 DEF InStep, AtRest
<1>6. QED
  BY <1>3, <1>5 DEF Led

\* Every step keeps the journal ahead of the state file.
LEMMA LedKept ==
    ASSUME Typed, Led, [Next]_vars
    PROVE  Led'
<1>1. CASE Open
  <2>1. Journaled' = Journaled
    BY <1>1 DEF Open, Journaled
  <2>2. Ahead'
    BY <1>1, <2>1 DEF Led, Ahead, Open, faults
  <2>3. /\ pc = "down" /\ pc' = "save" /\ state' = disk /\ UNCHANGED <<disk, crashes, failed>>
        /\ state' \ disk' = {} /\ Most' = 3
    BY <1>1 DEF Open, faults, Most, AtRest
  <2>4. Cardinality({}) = 0
    BY FS_EmptySet
  <2>5. InStep'
    BY <2>1, <2>3, <2>4 DEF Led, InStep, AtRest
  <2>6. QED
    BY <2>2, <2>5 DEF Led
<1>2. CASE Begin \/ Revoke \/ Grant \/ RecordPhase
  BY <1>2, DecidesLed DEF Begin, Revoke, Grant, RecordPhase, Request, AtRest
<1>3. CASE Deliver
  <2>1. /\ pc = "deliver" /\ pc' = "append" /\ Journaled' = Journaled
        /\ UNCHANGED <<state, disk, req, last, pending, acked, crashes, failed>>
    BY <1>3 DEF Deliver, Journaled, faults
  <2>2. QED
    BY <2>1 DEF Led, Ahead, InStep, Most, AtRest, Typed
<1>4. CASE DeliveryFails
  <2>1. /\ pc = "deliver" /\ state' = state \ {last} /\ last' = last - 1 /\ ~held'
        /\ pending' \subseteq pending \ {last} /\ pc' \in {"save", "resume"}
        /\ UNCHANGED <<disk, acked, journaled, crashes, failed>>
        /\ last \in Nat
    BY <1>4 DEF DeliveryFails, faults, Typed
  <2>2. /\ last # 0 /\ last \notin Journaled /\ Journaled' = Journaled
        /\ Journaled \subseteq 1..last
    BY <2>1 DEF Led, Ahead, Journaled
  <2>3. Journaled \subseteq 1..last'
    BY <2>1, <2>2
  <2>4. Ahead'
    BY <2>1, <2>2, <2>3 DEF Led, Ahead
  <2>5. InStep'
    <3> SUFFICES ASSUME failed = {}
                 PROVE  /\ disk \subseteq Journaled /\ disk \subseteq state'
                        /\ state' \subseteq Journaled
                        /\ Cardinality(Journaled \ state') <= 3 * crashes
                        /\ Cardinality(state' \ disk) <= Most'
      BY <2>1, <2>2 DEF InStep
    <3>1. /\ disk \subseteq Journaled /\ disk \subseteq state /\ last \in state
          /\ state \subseteq Journaled \cup {last}
          /\ Cardinality(Journaled \ state) <= 3 * crashes
          /\ Cardinality(state \ disk) <= Most
      BY <2>1 DEF Led, InStep
    <3>2. Journaled \ state' = Journaled \ state /\ state \ disk \subseteq 1..last
      BY <2>1, <2>2, <3>1
    <3>3. IsFiniteSet(state \ disk) /\ last \in state \ disk
      BY <2>1, <2>2, <3>1, <3>2, FewDecisions
    <3>4. state' \ disk = (state \ disk) \ {last}
      BY <2>1
    <3>5. Cardinality((state \ disk) \ {last}) = Cardinality(state \ disk) - 1
      BY <3>3, FS_RemoveElement
    <3>6. Most = 2 /\ Most' \in {1, 3}
      BY <2>1 DEF Most, AtRest
    <3>7. Cardinality(state \ disk) \in Nat
      BY <3>3, FS_CardinalityType
    <3>8. Cardinality(state' \ disk) <= Most'
      <4> DEFINE n == Cardinality(state \ disk)
      <4>1. n \in Nat /\ n <= 2 /\ Cardinality(state' \ disk) = n - 1
        BY <3>1, <3>4, <3>5, <3>6, <3>7
      <4> HIDE DEF n
      <4>2. n - 1 <= 1
        BY <4>1
      <4>3. QED
        BY <3>6, <4>1, <4>2
    <3>9. QED
      BY <2>1, <2>2, <3>1, <3>2, <3>8
  <2>6. QED
    BY <2>4, <2>5 DEF Led
<1>5. CASE SaveOther \/ GiveUp
  <2>1. /\ AtRest /\ pc' \in {"save", "idle"} /\ Journaled' = Journaled
        /\ \/ pc' = "save" /\ pending' = pending
           \/ pc' = "idle" /\ pc = "resume" /\ pending' = {}
        /\ UNCHANGED <<state, disk, held, last, acked, crashes, failed>>
    BY <1>5 DEF SaveOther, GiveUp, AtRest, faults, Journaled
  <2>2. Ahead'
    BY <2>1 DEF Led, Ahead, AtRest
  <2>3. Most = 1 /\ Most' \in {1, 3}
    BY <2>1 DEF Most, AtRest
  <2>4. ASSUME failed = {} PROVE Cardinality(state \ disk) <= Most'
    <3>1. state \subseteq Journaled /\ Cardinality(state \ disk) <= Most
      BY <2>1, <2>4 DEF Led, InStep, AtRest
    <3>2. state \ disk \subseteq 1..last /\ last \in Nat
      BY <3>1 DEF Led, Ahead, Typed
    <3>3. Cardinality(state \ disk) \in Nat
      BY <3>2, FewDecisions
    <3>4. QED
      BY <2>3, <3>1, <3>3
  <2>5. InStep'
    BY <2>1, <2>4 DEF Led, InStep, AtRest
  <2>6. QED
    BY <2>2, <2>5 DEF Led
<1>6. CASE AppendEvent \/ Compact
  <2>1. /\ pc \in {"append", "compact"} /\ pc' \in {"compact", "phase", "resume", "save"}
        /\ pc' = "phase" => req \in {"step", "transfer"}
        /\ pc' = "resume" => req = "revoke"
        /\ pc = "compact" => pc' # "compact"
        /\ journaled' = IF pc = "append" THEN Append(journaled, last) ELSE journaled
        /\ UNCHANGED <<state, disk, last, req, held, pending, acked, crashes, failed>>
    BY <1>6 DEF AppendEvent, Compact, AfterAppend, Event, faults
  <2>2. Journaled' = Journaled \cup (IF pc = "append" THEN {last} ELSE {})
    BY <2>1, ElementsOfAppend DEF Typed, Journaled
  <2>3. pc = "append" => last \in pending /\ last \in 1..last
    BY <2>1 DEF Led, Ahead, Typed
  <2>4. Ahead'
    BY <2>1, <2>2, <2>3 DEF Led, Ahead
  <2>5. InStep'
    <3> SUFFICES ASSUME failed = {}
                 PROVE  /\ disk \subseteq Journaled' /\ disk \subseteq state
                        /\ state \subseteq Journaled'
                        /\ Cardinality(Journaled' \ state) <= 3 * crashes
                        /\ Cardinality(state \ disk) <= Most'
                        /\ pc' = "resume" /\ held => state = disk
                        /\ req = "revoke" => ~held
      BY <2>1 DEF InStep, AtRest
    <3>1. /\ disk \subseteq Journaled /\ disk \subseteq state
          /\ pc = "append" => last \in state /\ state \subseteq Journaled \cup {last}
          /\ pc = "compact" => state \subseteq Journaled
          /\ Cardinality(Journaled \ state) <= 3 * crashes
          /\ Cardinality(state \ disk) <= Most
      BY <2>1 DEF Led, InStep
    <3>2. Journaled' \ state = Journaled \ state
      BY <2>1, <2>2, <3>1
    <3>3. state \ disk \subseteq 1..last /\ last \in Nat
      BY <2>1, <2>3, <3>1 DEF Led, Ahead, Typed
    <3>4. Cardinality(state \ disk) \in Nat
      BY <3>3, FewDecisions
    <3>5. Most \in Nat /\ Most' \in Nat /\ Most <= Most'
      BY <2>1 DEF Most, AtRest
    <3>6. Cardinality(state \ disk) <= Most'
      BY <3>1, <3>4, <3>5
    <3>7. req = "revoke" => ~held
      BY <2>1 DEF Led, InStep
    <3>8. QED
      BY <2>1, <2>2, <3>1, <3>2, <3>6, <3>7
  <2>6. QED
    BY <2>4, <2>5 DEF Led
<1>7. CASE Save
  <2>1. /\ pc = "save" /\ pc' = "idle" /\ pending' = {}
        /\ disk' = state /\ acked' = acked \cup pending
        /\ UNCHANGED <<state, last, journaled, crashes, failed>>
        /\ Journaled' = Journaled
    BY <1>7 DEF Save, faults, Journaled
  <2>2. Cardinality(state' \ disk') = 0 /\ Most' = 1
    BY <2>1, FS_EmptySet DEF Most, AtRest
  <2>3. QED
    BY <2>1, <2>2 DEF Led, Ahead, InStep
<1>8. CASE IoError \/ FlushError
  <2>1. PICK kind : Fails(kind)
    BY <1>8 DEF IoError, FlushError
  <2>2. /\ UNCHANGED <<disk, last, acked, journaled, crashes>>
        /\ Journaled' = Journaled /\ failed' # {}
        /\ failed \subseteq failed'
    BY <2>1 DEF Fails, Journaled
  <2>3. \/ pc' = "idle" /\ pending' = {}
        \/ pc' = "save" /\ pending' = pending /\ "ignored" \in failed'
        \/ pc' = "down" /\ pending' = {}
    BY <2>1 DEF Fails, Down
  <2>4. Ahead' /\ InStep'
    BY <2>2, <2>3 DEF Led, Ahead, InStep
  <2>5. QED
    BY <2>4 DEF Led
<1>9. CASE Crash
  <2>1. /\ UNCHANGED <<disk, last, acked, journaled, failed>>
        /\ Journaled' = Journaled /\ crashes' = crashes + 1 /\ crashes \in Nat
        /\ pc # "down" /\ pc' = "down" /\ pending' = {}
    BY <1>9 DEF Crash, Down, Journaled, Typed
  <2>2. Ahead'
    BY <2>1 DEF Led, Ahead
  <2>3. InStep'
    <3> SUFFICES ASSUME failed = {}
                 PROVE  Cardinality(Journaled \ disk) <= 3 * (crashes + 1)
      BY <2>1 DEF Led, InStep
    <3>1. /\ Cardinality(Journaled \ disk) \in Nat
          /\ Cardinality(Journaled \ disk) <= 3 * crashes + 3
      BY AheadByFew
    <3>2. QED
      BY <2>1, <3>1
  <2>4. QED
    BY <2>2, <2>3 DEF Led
<1>10. CASE UNCHANGED vars
  BY <1>10 DEF vars, faults, Led, Ahead, InStep, Journaled, Most, AtRest
<1>11. QED
  BY <1>1, <1>2, <1>3, <1>4, <1>5, <1>6, <1>7, <1>8, <1>9, <1>10 DEF Next

\* Typed holds from the start and is kept.
LEMMA TypedHolds == Spec => []Typed
<1>1. Init => Typed
  <2> SUFFICES ASSUME Init PROVE Typed
    OBVIOUS
  <2>1. <<>> \in Cells(Nat)
    BY DEF Cells
  <2>2. "down" \in Step \cup {"idle", "down"} /\ "open" \in Request
    BY DEF Request
  <2>3. <<>> \in Seq(Nat) /\ {} \in SUBSET Nat /\ FALSE \in BOOLEAN
    OBVIOUS
  <2>4. {} \subseteq Step \cup {"ignored", "flush"} /\ 0 \in Nat
    OBVIOUS
  <2>5. QED
    BY <2>1, <2>2, <2>3, <2>4, Zenon DEF Init, Typed
<1>2. Typed /\ [Next]_vars => Typed'
  BY TypedKept
<1>3. QED
  BY <1>1, <1>2, PTL DEF Spec

\* The journal leads the state file, whatever fails, but for the one failure nobody looks at.
\* Without failures it leads by one decision between requests, the revocation of
\* reconcile_incarnations that nothing has saved, by three within one, and by three more for
\* each crash.
THEOREM JournalLeads == Spec => []JournalFirst
<1>1. Init => Led
  <2> SUFFICES ASSUME Init PROVE Led
    OBVIOUS
  <2>1. Journaled = {}
    BY DEF Init, Journaled, Elements
  <2>2. Cardinality({}) = 0
    BY FS_EmptySet
  <2>3. QED
    BY <2>1, <2>2 DEF Init, Led, Ahead, InStep
<1>2. Typed /\ Led /\ [Next]_vars => Led'
  BY LedKept
<1>3. Typed /\ Led => JournalFirst
  <2> SUFFICES ASSUME Typed, Led PROVE JournalFirst
    OBVIOUS
  <2>1. "ignored" \notin failed => acked \subseteq Journaled
    BY DEF Led, Ahead
  <2>2. failed = {} => disk \subseteq Journaled
    BY DEF Led, InStep
  <2>3. ASSUME failed = {}
        PROVE  Cardinality(Journaled \ disk)
                 <= 3 * crashes + (CASE pc = "down" -> 0 [] AtRest -> 1 [] OTHER -> 3)
    <3>1. crashes \in Nat
      BY DEF Typed
    <3>2. CASE pc = "down"
      BY <2>3, <3>1, <3>2, AheadByFew DEF AtRest
    <3>3. CASE AtRest
      BY <2>3, <3>3, AheadByFew DEF AtRest
    <3>4. CASE pc # "down" /\ ~AtRest
      BY <2>3, <3>4, AheadByFew
    <3>5. QED
      BY <3>2, <3>3, <3>4
  <2>4. QED
    BY <2>1, <2>2, <2>3 DEF JournalFirst, Journaled
<1>4. QED
  BY <1>1, <1>2, <1>3, TypedHolds, PTL DEF Spec

----------------------------------------------------------------------------
(* The newest events are kept, or their loss is reported *)

\* Less of a common end is a common end.
LEMMA SameEndShorter ==
    ASSUME NEW s \in Seq(Nat), NEW t \in Seq(Nat), NEW m \in Nat, NEW k \in Nat, k <= m,
           SameEnd(s, t, m)
    PROVE  SameEnd(s, t, k)
<1>1. Len(s) \in Nat /\ Len(t) \in Nat
  BY LenProperties
<1>2. QED
  BY <1>1 DEF SameEnd

\* An element appended to both sequences makes their common end longer.
LEMMA SameEndAppend ==
    ASSUME NEW s \in Seq(Nat), NEW t \in Seq(Nat), NEW m \in Nat, NEW x \in Nat,
           SameEnd(s, t, m)
    PROVE  SameEnd(Append(s, x), Append(t, x), m + 1)
<1> DEFINE u == Append(s, x)
           v == Append(t, x)
<1>1. /\ Len(u) = Len(s) + 1 /\ Len(s) \in Nat /\ u[Len(s) + 1] = x
      /\ \A i \in 1..Len(s) : u[i] = s[i]
  BY AppendProperties, LenProperties
<1>2. /\ Len(v) = Len(t) + 1 /\ Len(t) \in Nat /\ v[Len(t) + 1] = x
      /\ \A i \in 1..Len(t) : v[i] = t[i]
  BY AppendProperties, LenProperties
<1> HIDE DEF u, v
<1>3. m <= Len(s) /\ m <= Len(t) /\ \A i \in 0..(m - 1) : s[Len(s) - i] = t[Len(t) - i]
  BY DEF SameEnd
<1>4. ASSUME NEW i \in 0..m PROVE u[Len(u) - i] = v[Len(v) - i]
  <2>1. CASE i = 0
    BY <1>1, <1>2, <2>1
  <2>2. CASE i # 0
    <3>1. i - 1 \in 0..(m - 1) /\ Len(s) - (i - 1) \in 1..Len(s) /\ Len(t) - (i - 1) \in 1..Len(t)
      BY <1>1, <1>2, <1>3, <2>2
    <3>2. Len(u) - i = Len(s) - (i - 1) /\ Len(v) - i = Len(t) - (i - 1)
      BY <1>1, <1>2
    <3>3. u[Len(s) - (i - 1)] = s[Len(s) - (i - 1)] /\ v[Len(t) - (i - 1)] = t[Len(t) - (i - 1)]
      BY <1>1, <1>2, <3>1
    <3>4. QED
      BY <1>3, <3>1, <3>2, <3>3
  <2>3. QED
    BY <2>1, <2>2
<1>5. m + 1 <= Len(u) /\ m + 1 <= Len(v)
  BY <1>1, <1>2, <1>3
<1>6. SameEnd(u, v, m + 1)
  BY <1>4, <1>5 DEF SameEnd
<1>7. QED
  BY <1>6 DEF u, v

\* Trimming a sequence from the front leaves a common end that is short enough.
LEMMA SameEndNewest ==
    ASSUME NEW s \in Seq(Nat), NEW t \in Seq(Nat), NEW m \in Nat, NEW n \in Nat, m <= n,
           SameEnd(s, t, m)
    PROVE  SameEnd(Newest(s, n), t, m)
<1> DEFINE u == Newest(s, n)
<1>1. /\ u \in Seq(Nat) /\ Len(u) = IF Len(s) <= n THEN Len(s) ELSE n
      /\ \A i \in 1..Len(u) : u[i] = s[Len(s) - Len(u) + i]
  BY NewestIsSuffix
<1> HIDE DEF u
<1>2. Len(s) \in Nat /\ Len(t) \in Nat /\ Len(u) \in Nat
  BY <1>1, LenProperties
<1>3. m <= Len(s) /\ m <= Len(t) /\ \A i \in 0..(m - 1) : s[Len(s) - i] = t[Len(t) - i]
  BY DEF SameEnd
<1>4. m <= Len(u)
  BY <1>1, <1>2, <1>3
<1>5. ASSUME NEW i \in 0..(m - 1) PROVE u[Len(u) - i] = t[Len(t) - i]
  <2>1. Len(u) - i \in 1..Len(u) /\ Len(s) - Len(u) + (Len(u) - i) = Len(s) - i
    BY <1>2, <1>4
  <2>2. u[Len(u) - i] = s[Len(s) - Len(u) + (Len(u) - i)]
    BY <1>1, <2>1
  <2>3. QED
    BY <1>3, <2>1, <2>2
<1>6. SameEnd(u, t, m)
  BY <1>3, <1>4, <1>5 DEF SameEnd
<1>7. QED
  BY <1>6 DEF u

\* A common end is a near one.
LEMMA SameEndIsNear ==
    ASSUME NEW s \in Seq(Nat), NEW t \in Seq(Nat), NEW m \in Nat, NEW e \in Nat, SameEnd(s, t, m)
    PROVE  NearEnd(s, t, m, e)
<1>1. Len(s) \in Nat /\ Len(t) \in Nat
  BY LenProperties
<1>2. m <= Len(s) /\ m <= Len(t) /\ \A i \in 0..(m - 1) : s[Len(s) - i] = t[Len(t) - i]
  BY DEF SameEnd
<1>3. ASSUME NEW i \in 0..(m - 1)
      PROVE  \E j \in i..(i + e) : j < Len(s) /\ s[Len(s) - j] = t[Len(t) - i]
  <2>1. i \in i..(i + e) /\ i < Len(s) /\ s[Len(s) - i] = t[Len(t) - i]
    BY <1>1, <1>2
  <2>2. QED
    BY <2>1
<1>4. QED
  BY <1>2, <1>3 DEF NearEnd

\* Less of a near end is a near end.
LEMMA NearEndShorter ==
    ASSUME NEW s \in Seq(Nat), NEW t \in Seq(Nat), NEW m \in Nat, NEW k \in Nat, k <= m,
           NEW e \in Nat, NearEnd(s, t, m, e)
    PROVE  NearEnd(s, t, k, e)
<1>1. Len(t) \in Nat
  BY LenProperties
<1>2. k <= Len(t) /\ \A i \in 0..(k - 1) : i \in 0..(m - 1)
  BY <1>1 DEF NearEnd
<1>3. QED
  BY <1>2 DEF NearEnd

\* So is one that may be further away.
LEMMA NearEndWider ==
    ASSUME NEW s \in Seq(Nat), NEW t \in Seq(Nat), NEW m \in Nat, NEW e \in Nat, NEW f \in Nat,
           e <= f, NearEnd(s, t, m, e)
    PROVE  NearEnd(s, t, m, f)
<1>1. ASSUME NEW i \in 0..(m - 1)
      PROVE  \E j \in i..(i + f) : j < Len(s) /\ s[Len(s) - j] = t[Len(t) - i]
  <2>1. PICK j \in i..(i + e) : j < Len(s) /\ s[Len(s) - j] = t[Len(t) - i]
    BY DEF NearEnd
  <2>2. j \in i..(i + f)
    OBVIOUS
  <2>3. QED
    BY <2>1, <2>2
<1>2. QED
  BY <1>1 DEF NearEnd

\* An element appended to both sequences makes the near end longer; one appended to the first
\* alone moves it away by one.
LEMMA NearEndAppend ==
    ASSUME NEW s \in Seq(Nat), NEW t \in Seq(Nat), NEW m \in Nat, NEW e \in Nat, NEW x \in Nat,
           NearEnd(s, t, m, e)
    PROVE  /\ NearEnd(Append(s, x), Append(t, x), m + 1, e)
           /\ NearEnd(Append(s, x), t, m, e + 1)
<1> DEFINE u == Append(s, x)
           v == Append(t, x)
<1>1. /\ Len(u) = Len(s) + 1 /\ Len(s) \in Nat /\ u[Len(s) + 1] = x
      /\ \A i \in 1..Len(s) : u[i] = s[i]
  BY AppendProperties, LenProperties
<1>2. /\ Len(v) = Len(t) + 1 /\ Len(t) \in Nat /\ v[Len(t) + 1] = x
      /\ \A i \in 1..Len(t) : v[i] = t[i]
  BY AppendProperties, LenProperties
<1> HIDE DEF u, v
<1>3. m <= Len(t)
  BY DEF NearEnd
<1>4. ASSUME NEW i \in 0..(m - 1)
      PROVE  \E j \in i..(i + e) : j + 1 < Len(u) /\ u[Len(u) - (j + 1)] = t[Len(t) - i]
  <2>1. PICK j \in i..(i + e) : j < Len(s) /\ s[Len(s) - j] = t[Len(t) - i]
    BY DEF NearEnd
  <2>2. Len(s) - j \in 1..Len(s) /\ Len(u) - (j + 1) = Len(s) - j /\ j + 1 < Len(u)
    BY <1>1, <2>1
  <2>3. QED
    BY <1>1, <2>1, <2>2
<1>5. ASSUME NEW i \in 0..m
      PROVE  \E j \in i..(i + e) : j < Len(u) /\ u[Len(u) - j] = v[Len(v) - i]
  <2>1. CASE i = 0
    <3>1. 0 \in i..(i + e) /\ 0 < Len(u) /\ u[Len(u) - 0] = v[Len(v) - i]
      BY <1>1, <1>2, <2>1
    <3>2. QED
      BY <3>1
  <2>2. CASE i # 0
    <3>1. i - 1 \in 0..(m - 1) /\ Len(t) - (i - 1) \in 1..Len(t) /\ Len(v) - i = Len(t) - (i - 1)
      BY <1>2, <1>3, <2>2
    <3>2. PICK j \in (i - 1)..(i - 1 + e) :
            j + 1 < Len(u) /\ u[Len(u) - (j + 1)] = t[Len(t) - (i - 1)]
      BY <1>4, <3>1
    <3>3. j + 1 \in i..(i + e)
      OBVIOUS
    <3>4. QED
      BY <1>2, <3>1, <3>2, <3>3
  <2>3. QED
    BY <2>1, <2>2
<1>6. NearEnd(u, v, m + 1, e)
  <2>1. m + 1 <= Len(v) /\ (m + 1) - 1 = m
    BY <1>2, <1>3
  <2>2. QED
    BY <1>5, <2>1 DEF NearEnd
<1>7. NearEnd(u, t, m, e + 1)
  <2>1. ASSUME NEW i \in 0..(m - 1)
        PROVE  \E j \in i..(i + (e + 1)) : j < Len(u) /\ u[Len(u) - j] = t[Len(t) - i]
    <3>1. PICK j \in i..(i + e) : j + 1 < Len(u) /\ u[Len(u) - (j + 1)] = t[Len(t) - i]
      BY <1>4
    <3>2. j + 1 \in i..(i + (e + 1))
      OBVIOUS
    <3>3. QED
      BY <3>1, <3>2
  <2>2. QED
    BY <1>3, <2>1 DEF NearEnd
<1>8. QED
  BY <1>6, <1>7 DEF u, v

\* Trimming a sequence from the front leaves a near end that is short enough.
LEMMA NearEndNewest ==
    ASSUME NEW s \in Seq(Nat), NEW t \in Seq(Nat), NEW m \in Nat, NEW n \in Nat, NEW e \in Nat,
           m + e <= n, NearEnd(s, t, m, e)
    PROVE  NearEnd(Newest(s, n), t, m, e)
<1> DEFINE u == Newest(s, n)
<1>1. /\ u \in Seq(Nat) /\ Len(u) = IF Len(s) <= n THEN Len(s) ELSE n
      /\ \A i \in 1..Len(u) : u[i] = s[Len(s) - Len(u) + i]
  BY NewestIsSuffix
<1> HIDE DEF u
<1>2. Len(s) \in Nat /\ Len(t) \in Nat /\ Len(u) \in Nat
  BY <1>1, LenProperties
<1>3. ASSUME NEW i \in 0..(m - 1)
      PROVE  \E j \in i..(i + e) : j < Len(u) /\ u[Len(u) - j] = t[Len(t) - i]
  <2>1. PICK j \in i..(i + e) : j < Len(s) /\ s[Len(s) - j] = t[Len(t) - i]
    BY DEF NearEnd
  <2>2. j < Len(u)
    BY <1>1, <1>2, <2>1
  <2>3. Len(u) - j \in 1..Len(u) /\ Len(s) - Len(u) + (Len(u) - j) = Len(s) - j
    BY <1>2, <2>2
  <2>4. QED
    BY <1>1, <2>1, <2>2, <2>3
<1>4. NearEnd(u, t, m, e)
  BY <1>3 DEF NearEnd
<1>5. QED
  BY <1>4 DEF u

\* What is newest in one sequence is in every sequence that ends in nearly the same way.
LEMMA NewestIsThere ==
    ASSUME NEW s \in Seq(Nat), NEW t \in Seq(Nat), NEW n \in Nat, NEW e \in Nat,
           NearEnd(s, t, IF Len(t) <= n THEN Len(t) ELSE n, e)
    PROVE  Elements(Newest(t, n)) \subseteq Elements(s)
<1> DEFINE u == Newest(t, n)
<1>1. /\ u \in Seq(Nat) /\ Len(u) = IF Len(t) <= n THEN Len(t) ELSE n
      /\ \A i \in 1..Len(u) : u[i] = t[Len(t) - Len(u) + i]
  BY NewestIsSuffix
<1> HIDE DEF u
<1>2. /\ Len(s) \in Nat /\ Len(t) \in Nat /\ Len(u) \in Nat
      /\ DOMAIN u = 1..Len(u) /\ DOMAIN s = 1..Len(s)
  BY <1>1, LenProperties
<1>3. NearEnd(s, t, Len(u), e)
  BY <1>1
<1>4. ASSUME NEW i \in 1..Len(u) PROVE u[i] \in Elements(s)
  <2> DEFINE k == Len(u) - i
  <2>1. k \in 0..(Len(u) - 1) /\ Len(t) - k = Len(t) - Len(u) + i
    BY <1>2
  <2> HIDE DEF k
  <2>2. PICK j \in k..(k + e) : j < Len(s) /\ s[Len(s) - j] = t[Len(t) - k]
    BY <1>3, <2>1 DEF NearEnd
  <2>3. Len(s) - j \in 1..Len(s)
    <3>1. k \in Nat /\ j \in Nat
      BY <1>2, <2>1
    <3>2. QED
      BY <1>2, <2>2, <3>1
  <2>4. u[i] = s[Len(s) - j]
    BY <1>1, <2>1, <2>2
  <2>5. QED
    BY <1>2, <2>3, <2>4 DEF Elements
<1>5. Elements(u) \subseteq Elements(s)
  BY <1>2, <1>4 DEF Elements
<1>6. QED
  BY <1>5 DEF u

\* The records of the file, and of the file one cell longer; a damaged tail stays one.
LEMMA WrittenCells ==
    ASSUME NEW file \in Cells(Nat), NEW c \in [intact: BOOLEAN, rec: Nat]
    PROVE  /\ Written(file) \in Seq(Nat)
           /\ Written(Append(file, c)) = Append(Written(file), c.rec)
           /\ TailDamaged(file) => TailDamaged(Append(file, c))
           /\ ~c.intact => TailDamaged(Append(file, c))
           /\ ~TailDamaged(file) => ReadRecords(file) = Written(file)
<1> DEFINE w == [i \in DOMAIN file |-> file[i].rec]
           longer == Append(file, c)
<1>1. /\ DOMAIN file = 1..Len(file) /\ Len(file) \in Nat
      /\ \A i \in 1..Len(file) : file[i] \in [intact: BOOLEAN, rec: Nat]
  BY LenProperties, ElementOfSeq DEF Cells
<1>2. \A i \in 1..Len(file) : file[i].rec \in Nat
  BY <1>1
<1>3. w \in Seq(Nat) /\ Len(w) = Len(file)
  BY <1>1, <1>2, IsASeq
<1>4. /\ DOMAIN longer = 1..(Len(file) + 1) /\ Len(longer) = Len(file) + 1
      /\ \A i \in 1..Len(file) : longer[i] = file[i]
      /\ longer[Len(file) + 1] = c
  BY AppendProperties DEF Cells
<1>5. Readable(longer) = IF Readable(file) = Len(file) /\ c.intact
                         THEN Len(file) + 1 ELSE Readable(file)
  BY ReadableOfAppend
<1>6. Readable(file) \in 0..Len(file)
  BY ReadableStops
<1>7. [i \in DOMAIN longer |-> longer[i].rec] = Append(w, c.rec)
  <2> DEFINE v == Append(w, c.rec)
  <2>1. c.rec \in Nat
    OBVIOUS
  <2>2. /\ v \in Seq(Nat) /\ Len(v) = Len(file) + 1 /\ v[Len(file) + 1] = c.rec
        /\ \A i \in 1..Len(file) : v[i] = w[i]
    <3> HIDE DEF w
    <3> QED
      BY <1>3, <2>1, AppendProperties
  <2>3. DOMAIN v = 1..(Len(file) + 1) /\ v = [i \in DOMAIN v |-> v[i]]
    BY <2>2, LenProperties
  <2> HIDE DEF v, longer
  <2>4. ASSUME NEW i \in 1..(Len(file) + 1) PROVE v[i] = longer[i].rec
    BY <1>1, <1>4, <2>2
  <2>5. v = [i \in DOMAIN longer |-> longer[i].rec]
    BY <1>4, <2>3, <2>4
  <2>6. QED
    BY <2>5 DEF v
<1> HIDE DEF longer
<1>8. (TailDamaged(file) \/ ~c.intact) => TailDamaged(longer)
  BY <1>1, <1>4, <1>5, <1>6 DEF TailDamaged
<1>9. ~TailDamaged(file) => ReadRecords(file) = w
  BY <1>1, <1>6 DEF TailDamaged, ReadRecords
<1>10. QED
  BY <1>3, <1>7, <1>8, <1>9 DEF longer, Written

\* What is recent, and how it grows with the history.
LEMMA RecentBounds ==
    ASSUME Typed
    PROVE  /\ Keep(Capacity) \in Nat /\ Keep(Capacity) + 1 <= Capacity /\ Capacity \in Nat
           /\ Recent \in Nat /\ Recent <= Keep(Capacity) /\ Recent <= Len(journaled)
           /\ Len(journaled) \in Nat /\ Slack \in {0, 1}
<1>1. Keep(Capacity) \in 1..Capacity /\ Keep(Capacity) + 1 <= Capacity /\ Capacity \in Nat
  BY JournalAssumption DEF Keep
<1>2. Len(journaled) \in Nat
  BY LenProperties DEF Typed
<1>3. QED
  BY <1>1, <1>2 DEF Recent, Slack

\* Every step keeps the common ends of file, memory and history.
LEMMA KeptKept ==
    ASSUME Typed, Kept, [Next]_vars
    PROVE  Kept'
<1>1. /\ cells \in Cells(Nat) /\ events \in Seq(Nat) /\ journaled \in Seq(Nat) /\ last \in Nat
      /\ Len(events) \in Nat /\ Len(journaled) \in Nat
  BY LenProperties DEF Typed
<1>2. /\ Keep(Capacity) \in Nat /\ Keep(Capacity) + 1 <= Capacity /\ Capacity \in Nat
      /\ Recent \in Nat /\ Recent <= Keep(Capacity) /\ Recent <= Len(journaled)
      /\ Slack \in Nat /\ Slack \in {0, 1}
  BY RecentBounds
<1>3. Intact(last) \in [intact: BOOLEAN, rec: Nat] /\ Intact(last).rec = last
  BY <1>1 DEF Intact
<1>4. Torn(last) \in [intact: BOOLEAN, rec: Nat] /\ Torn(last).rec = last /\ ~Torn(last).intact
  BY <1>1 DEF Torn
<1>5. Written(cells) \in Seq(Nat) /\ (~TailDamaged(cells) => ReadRecords(cells) = Written(cells))
  BY <1>1, <1>3, WrittenCells
<1>6. ASSUME UNCHANGED <<cells, journaled, failed>>
      PROVE  /\ Recent' = Recent /\ Slack' = Slack
             /\ (TailDamaged(cells) \/ NearEnd(Written(cells), journaled, Recent, Slack))'
  BY <1>6 DEF Kept, Recent, Slack
<1>7. CASE Open
  <2> DEFINE new == Newest(ReadRecords(cells), Capacity)
  <2>1. /\ pc' = "save" /\ events' = new /\ damaged' = TailDamaged(cells)
        /\ UNCHANGED <<cells, journaled, failed>>
    BY <1>7 DEF Open, Replayed, faults
  <2>2. new \in Seq(Nat) /\ Len(new) <= Capacity
    <3>1. ReadRecords(cells) \in Seq(Nat)
      BY <1>1, ReadRecordsType
    <3>2. Len(ReadRecords(cells)) \in Nat
      BY <3>1, LenProperties
    <3>3. QED
      BY <1>2, <3>1, <3>2, NewestIsSuffix
  <2>3. ASSUME ~TailDamaged(cells) PROVE NearEnd(new, journaled, Recent, Slack)
    <3>1. NearEnd(Written(cells), journaled, Recent, Slack) /\ ReadRecords(cells) = Written(cells)
      BY <1>5, <2>3 DEF Kept
    <3>2. Recent + Slack <= Capacity
      BY <1>2
    <3>3. QED
      BY <1>1, <1>2, <1>5, <3>1, <3>2, NearEndNewest
  <2> HIDE DEF new
  <2>4. ~(Capacity < Len(new))
    <3>1. Len(new) \in Nat
      BY <2>2, LenProperties
    <3>2. QED
      BY <1>2, <2>2, <3>1
  <2>5. Recent' = Recent /\ Slack' = Slack
    BY <1>6, <2>1
  <2>6. damaged' \/ NearEnd(new, journaled, Recent, Slack)
    BY <2>1, <2>3
  <2>7. QED
    BY <1>6, <2>1, <2>4, <2>5, <2>6 DEF Kept
<1>8. CASE AppendEvent
  <2> DEFINE new == Append(events, last)
             grown == Append(journaled, last)
  <2>1. /\ pc = "append" /\ events' = new /\ journaled' = grown
        /\ cells' = Append(cells, Intact(last)) /\ damaged' = damaged /\ Slack' = Slack
        /\ pc' = "compact" => 2 * Capacity < Len(events) + 1
    BY <1>1, <1>2, <1>8 DEF AppendEvent, Event, AfterAppend, Slack, faults
  <2>2. /\ new \in Seq(Nat) /\ Len(new) = Len(events) + 1
        /\ grown \in Seq(Nat) /\ Len(grown) = Len(journaled) + 1
    BY <1>1, AppendProperties
  <2>3. Recent' \in Nat /\ Recent' <= Recent + 1
    <3> HIDE DEF grown
    <3>1. Len(journaled') = Len(journaled) + 1
      BY <2>1, <2>2
    <3>2. QED
      BY <1>1, <1>2, <3>1 DEF Recent
  <2>4. ASSUME NEW s \in Seq(Nat), NearEnd(s, journaled, Recent, Slack)
        PROVE  NearEnd(Append(s, last), grown, Recent', Slack)
    <3>1. NearEnd(Append(s, last), grown, Recent + 1, Slack)
      BY <1>1, <1>2, <2>4, NearEndAppend
    <3>2. Append(s, last) \in Seq(Nat)
      BY <1>1, AppendProperties
    <3>3. Recent + 1 \in Nat
      BY <1>2
    <3> HIDE DEF new, grown
    <3>4. QED
      BY <1>2, <2>2, <2>3, <3>1, <3>2, <3>3, NearEndShorter
  <2>5. ASSUME Capacity < Len(new) PROVE SameEnd(new, grown, Len(new) - Capacity)
    <3>1. SameEnd(events, journaled, Len(events) - Capacity) /\ Len(events) - Capacity \in Nat
      <4>1. CASE Capacity < Len(events)
        BY <1>1, <1>2, <2>1, <4>1 DEF Kept
      <4>2. CASE Len(events) = Capacity
        BY <1>1, <1>2, <4>2 DEF SameEnd
      <4>3. QED
        BY <1>1, <1>2, <2>2, <2>5, <4>1, <4>2
    <3>2. SameEnd(new, grown, (Len(events) - Capacity) + 1)
      BY <1>1, <3>1, SameEndAppend
    <3>3. (Len(events) - Capacity) + 1 = Len(new) - Capacity
      BY <1>1, <1>2, <2>2
    <3>4. QED
      BY <3>2, <3>3
  <2>6. damaged \/ NearEnd(new, grown, Recent', Slack)
    BY <1>1, <2>1, <2>4 DEF Kept
  <2>7. TailDamaged(cells') \/ NearEnd(Written(cells'), grown, Recent', Slack)
    <3>1. /\ Written(cells') = Append(Written(cells), last)
          /\ TailDamaged(cells) => TailDamaged(cells')
      BY <1>1, <1>3, <2>1, WrittenCells
    <3>2. QED
      BY <1>5, <2>4, <3>1 DEF Kept
  <2>8. pc' = "compact" => 2 * Capacity < Len(new)
    BY <2>1, <2>2
  <2> HIDE DEF new, grown
  <2>9. QED
    BY <2>1, <2>5, <2>6, <2>7, <2>8 DEF Kept
<1>9. CASE Compact
  <2> DEFINE kept == Newest(events, Keep(Capacity))
  <2>1. /\ pc = "compact" /\ pc' \notin {"compact", "down"}
        /\ events' = kept /\ cells' = LogOf(kept) /\ UNCHANGED <<journaled, failed>>
    BY <1>9 DEF Compact, AfterAppend, faults
  <2>2. 2 * Capacity < Len(events) /\ SameEnd(events, journaled, Len(events) - Capacity)
    BY <1>1, <1>2, <2>1 DEF Kept
  <2>3. SameEnd(events, journaled, Recent)
    <3>1. Len(events) - Capacity \in Nat /\ Recent <= Len(events) - Capacity
      BY <1>1, <1>2, <2>2
    <3>2. QED
      BY <1>1, <1>2, <2>2, <3>1, SameEndShorter
  <2>4. NearEnd(kept, journaled, Recent, Slack)
    <3>1. SameEnd(kept, journaled, Recent)
      BY <1>1, <1>2, <2>3, SameEndNewest
    <3>2. kept \in Seq(Nat)
      BY <1>1, <1>2, NewestIsSuffix
    <3>3. QED
      BY <1>1, <1>2, <3>1, <3>2, SameEndIsNear
  <2>5. kept \in Seq(Nat) /\ Len(kept) \in Nat /\ Len(kept) <= Capacity
    BY <1>1, <1>2, NewestIsSuffix
  <2> HIDE DEF kept
  <2>6. Written(LogOf(kept)) = kept
    <3>1. /\ LogOf(kept) \in Cells(Nat) /\ Len(LogOf(kept)) = Len(kept)
          /\ \A i \in 1..Len(kept) : LogOf(kept)[i].rec = kept[i]
      BY <2>5, LogOfIsReadable
    <3>2. DOMAIN LogOf(kept) = 1..Len(kept)
      BY <3>1, LenProperties DEF Cells
    <3>3. kept = [i \in 1..Len(kept) |-> kept[i]]
      BY <2>5, LenProperties
    <3>4. QED
      BY <3>1, <3>2, <3>3 DEF Written
  <2>7. Recent' = Recent /\ Slack' = Slack
    BY <2>1 DEF Recent, Slack
  <2>8. ~(Capacity < Len(kept))
    BY <1>2, <2>5
  <2>9. QED
    BY <2>1, <2>4, <2>6, <2>7, <2>8 DEF Kept
<1>10. CASE IoError \/ Crash
  <2>1. /\ UNCHANGED journaled
        /\ \/ UNCHANGED <<events, damaged>> /\ pc' \in {"save", "idle"} /\ pc # "down"
           \/ pc' = "down"
        /\ cells' = cells \/ cells' = Append(cells, Torn(last))
    BY <1>10, InterruptedCells DEF IoError, Fails, Crash, Down, log
  <2>2. Recent' = Recent /\ Slack' = Slack
    BY <1>10, <2>1 DEF Recent, Slack, IoError, Fails, Crash
  <2>3. (TailDamaged(cells) \/ NearEnd(Written(cells), journaled, Recent, Slack))'
    <3>1. CASE cells' = cells
      BY <2>1, <2>2, <3>1 DEF Kept
    <3>2. CASE cells' = Append(cells, Torn(last))
      <4>1. TailDamaged(cells')
        BY <1>1, <1>4, <3>2, WrittenCells
      <4>2. QED
        BY <4>1
    <3>3. QED
      BY <2>1, <3>1, <3>2
  <2>4. QED
    BY <2>1, <2>2, <2>3 DEF Kept
<1>11. CASE FlushError
  <2>1. /\ pc = "append" /\ UNCHANGED journaled
        /\ (UNCHANGED <<events, damaged>> /\ pc' \in {"save", "idle"}) \/ pc' = "down"
        /\ cells' = Append(cells, Intact(last))
        /\ "flush" \notin failed /\ "flush" \in failed'
    BY <1>11 DEF FlushError, Fails, Down, Event, log
  <2>2. Recent' = Recent /\ Slack = 0 /\ Slack' = 1
    BY <2>1 DEF Recent, Slack
  <2>3. ASSUME NEW s \in Seq(Nat), NearEnd(s, journaled, Recent, 0)
        PROVE  NearEnd(s, journaled, Recent, 1) /\ NearEnd(Append(s, last), journaled, Recent, 1)
    <3>1. NearEnd(s, journaled, Recent, 1)
      BY <1>1, <1>2, <2>3, NearEndWider
    <3>2. NearEnd(Append(s, last), journaled, Recent, 0 + 1)
      BY <1>1, <1>2, <2>3, NearEndAppend
    <3>3. QED
      BY <3>1, <3>2
  <2>4. TailDamaged(cells') \/ NearEnd(Written(cells'), journaled, Recent, 1)
    <3>1. /\ Written(cells') = Append(Written(cells), last)
          /\ TailDamaged(cells) => TailDamaged(cells')
      BY <1>1, <1>3, <2>1, WrittenCells
    <3>2. QED
      BY <1>5, <2>2, <2>3, <3>1 DEF Kept
  <2>5. damaged \/ NearEnd(events, journaled, Recent, 1)
    BY <1>1, <2>1, <2>2, <2>3 DEF Kept
  <2>6. QED
    BY <2>1, <2>2, <2>4, <2>5 DEF Kept
<1>12. CASE \/ Begin \/ Revoke \/ Grant \/ Deliver \/ DeliveryFails \/ RecordPhase
            \/ SaveOther \/ GiveUp \/ Save \/ UNCHANGED vars
  <2>1. /\ UNCHANGED <<events, damaged, cells, journaled, failed>>
        /\ \/ pc' \in {"append", "deliver", "resume", "save", "idle"} /\ pc # "down"
           \/ pc' = pc
    BY <1>12 DEF Begin, Revoke, Grant, Deliver, DeliveryFails, RecordPhase, SaveOther, GiveUp,
        Save, Decide, AtRest, vars, log, faults
  <2>2. QED
    BY <1>6, <2>1 DEF Kept
<1>13. QED
  BY <1>7, <1>8, <1>9, <1>10, <1>11, <1>12 DEF Next

\* The recent events are in memory and on disk, or a damaged tail has been reported.
THEOREM NoSilentLoss == Spec => []LossReported
<1>1. Init => Kept
  <2> SUFFICES ASSUME Init PROVE Kept
    OBVIOUS
  <2>1. pc = "down" /\ journaled = <<>> /\ cells = <<>> /\ Len(<<>>) = 0
    BY DEF Init
  <2>2. Keep(Capacity) \in 1..Capacity /\ Capacity \in Nat
    BY JournalAssumption, KeepBounds
  <2>3. Recent = 0
    BY <2>1, <2>2 DEF Recent
  <2>4. <<>> \in Cells(Nat)
    BY DEF Cells
  <2>5. Written(cells) = <<>>
    BY <2>1 DEF Written
  <2>6. NearEnd(Written(cells), journaled, Recent, Slack)
    BY <2>1, <2>3, <2>5 DEF NearEnd
  <2>7. QED
    BY <2>1, <2>6 DEF Kept
<1>2. Typed /\ Kept /\ [Next]_vars => Kept'
  BY KeptKept
<1>3. Typed /\ Kept => LossReported
  <2> SUFFICES ASSUME Typed, Kept PROVE LossReported
    OBVIOUS
  <2> DEFINE recent == Elements(Newest(journaled, Keep(Capacity)))
  <2>1. /\ cells \in Cells(Nat) /\ events \in Seq(Nat) /\ journaled \in Seq(Nat)
        /\ Recent \in Nat /\ Recent + Slack <= Capacity /\ Slack \in Nat
        /\ Keep(Capacity) \in Nat /\ Capacity \in Nat
    BY RecentBounds DEF Typed
  <2>2. ASSUME NEW s \in Seq(Nat), NearEnd(s, journaled, Recent, Slack)
        PROVE  recent \subseteq Elements(s)
    BY <2>1, <2>2, NewestIsThere DEF Recent
  <2>3. pc # "down" => (recent \subseteq Elements(events) \/ damaged)
    BY <2>1, <2>2 DEF Kept
  <2>4. recent \subseteq Elements(Replayed(cells)) \/ TailDamaged(cells)
    <3> SUFFICES ASSUME ~TailDamaged(cells) PROVE recent \subseteq Elements(Replayed(cells))
      OBVIOUS
    <3>1. [intact |-> TRUE, rec |-> 0] \in [intact: BOOLEAN, rec: Nat]
      OBVIOUS
    <3>2. Written(cells) \in Seq(Nat) /\ ReadRecords(cells) = Written(cells)
      BY <2>1, <3>1, WrittenCells
    <3>3. NearEnd(Replayed(cells), journaled, Recent, Slack)
      BY <2>1, <3>2, NearEndNewest DEF Kept, Replayed
    <3>4. Replayed(cells) \in Seq(Nat)
      BY <2>1, <3>2, NewestIsSuffix DEF Replayed
    <3>5. QED
      BY <2>2, <3>3, <3>4
  <2>5. QED
    BY <2>3, <2>4 DEF LossReported
<1>4. QED
  BY <1>1, <1>2, <1>3, TypedHolds, PTL DEF Spec

----------------------------------------------------------------------------
(* Growth *)

\* A cell more makes the file longer by one.
LEMMA LongerByOne ==
    ASSUME NEW file \in Cells(Nat), NEW c \in [intact: BOOLEAN, rec: Nat]
    PROVE  Len(file) \in Nat /\ Len(Append(file, c)) = Len(file) + 1
BY AppendProperties, LenProperties DEF Cells

\* Every step keeps the file within what its boots may have added.
LEMMA GrownKept ==
    ASSUME Typed, Grown, [Next]_vars
    PROVE  Grown'
<1> DEFINE C == 2 * Capacity + 1
           D == Capacity + 1
<1>1. /\ cells \in Cells(Nat) /\ events \in Seq(Nat) /\ last \in Nat /\ crashes \in Nat
      /\ Len(events) \in Nat /\ Len(cells) \in Nat /\ Capacity \in Nat /\ Capacity # 0
  BY LenProperties, JournalAssumption DEF Typed, Cells
<1>2. /\ C * crashes \in Nat /\ C * (crashes + 1) = C * crashes + 2 * Capacity + 1
      /\ D * crashes \in Nat /\ D * (crashes + 1) = D * crashes + Capacity + 1
  BY <1>1
<1>3. Intact(last) \in [intact: BOOLEAN, rec: Nat] /\ Torn(last) \in [intact: BOOLEAN, rec: Nat]
  BY <1>1 DEF Intact, Torn
<1>4. failed = {} =>
        /\ pc = "down" =>
            /\ Len(cells) <= C * crashes
            /\ TailDamaged(cells) \/ Len(cells) <= D * crashes + Capacity
        /\ pc # "down" =>
            /\ Len(cells) <= C * crashes + Len(events)
            /\ TailDamaged(cells) \/ Len(cells) <= D * crashes + Len(events)
            /\ Len(events) <= 2 * Capacity + (IF pc = "compact" THEN 1 ELSE 0)
  BY DEF Grown
<1>5. SUFFICES ASSUME failed' = {}
               PROVE  /\ pc' = "down" =>
                          /\ Len(cells') <= C * crashes'
                          /\ TailDamaged(cells') \/ Len(cells') <= D * crashes' + Capacity
                      /\ pc' # "down" =>
                          /\ Len(cells') <= C * crashes' + Len(events')
                          /\ TailDamaged(cells') \/ Len(cells') <= D * crashes' + Len(events')
                          /\ Len(events') <= 2 * Capacity + (IF pc' = "compact" THEN 1 ELSE 0)
  BY DEF Grown
<1> HIDE DEF C, D
<1>6. CASE Open
  <2> DEFINE new == Newest(ReadRecords(cells), Capacity)
  <2>1. pc = "down" /\ pc' = "save" /\ events' = new /\ UNCHANGED <<cells, crashes, failed>>
    BY <1>6 DEF Open, Replayed, faults
  <2>2. /\ Len(new) \in Nat /\ Len(new) <= Capacity
        /\ TailDamaged(cells) \/ Len(new) = Len(cells) \/ Len(new) = Capacity
    <3>1. /\ ReadRecords(cells) \in Seq(Nat) /\ Len(ReadRecords(cells)) \in Nat
          /\ Len(ReadRecords(cells)) = Readable(cells)
      BY <1>1, ReadRecordsType, LenProperties
    <3>2. Readable(cells) \in 0..Len(cells)
      BY <1>1, ReadableStops
    <3>3. TailDamaged(cells) \/ Len(ReadRecords(cells)) = Len(cells)
      BY <1>1, <3>1, <3>2 DEF TailDamaged
    <3>4. Len(new) = IF Len(ReadRecords(cells)) <= Capacity THEN Len(ReadRecords(cells)) ELSE Capacity
      BY <1>1, <3>1, NewestIsSuffix
    <3> HIDE DEF new
    <3>5. QED
      BY <1>1, <3>1, <3>3, <3>4
  <2> HIDE DEF new
  <2>3. /\ Len(cells) <= C * crashes
        /\ TailDamaged(cells) \/ Len(cells) <= D * crashes + Capacity
    BY <1>4, <1>5, <2>1
  <2>4. TailDamaged(cells) \/ Len(cells) <= D * crashes + Len(new)
    BY <1>1, <1>2, <2>2, <2>3
  <2>5. Len(cells) <= C * crashes + Len(new) /\ Len(new) <= 2 * Capacity
    BY <1>1, <1>2, <2>2, <2>3
  <2>6. QED
    BY <1>1, <2>1, <2>2, <2>4, <2>5
<1>7. CASE AppendEvent
  <2>1. /\ pc = "append" /\ pc' # "down" /\ UNCHANGED <<crashes, failed>>
        /\ events' = Append(events, last) /\ cells' = Append(cells, Intact(last))
        /\ pc' # "compact" => Len(events) + 1 <= 2 * Capacity
    BY <1>1, <1>7 DEF AppendEvent, AfterAppend, Event, faults
  <2>2. Len(events') = Len(events) + 1 /\ Len(cells') = Len(cells) + 1
    BY <1>1, <1>3, <2>1, AppendProperties, LongerByOne
  <2>3. /\ Len(cells) <= C * crashes + Len(events) /\ Len(events) <= 2 * Capacity
        /\ TailDamaged(cells) \/ Len(cells) <= D * crashes + Len(events)
    BY <1>1, <1>4, <1>5, <2>1
  <2>4. TailDamaged(cells) => TailDamaged(cells')
    BY <1>1, <1>3, <2>1, WrittenCells
  <2>5. /\ Len(cells') <= C * crashes + Len(events')
        /\ TailDamaged(cells) \/ Len(cells') <= D * crashes + Len(events')
    BY <1>1, <1>2, <2>2, <2>3
  <2>6. Len(events') <= 2 * Capacity + (IF pc' = "compact" THEN 1 ELSE 0)
    BY <1>1, <2>1, <2>2, <2>3
  <2>7. QED
    BY <2>1, <2>4, <2>5, <2>6
<1>8. CASE Compact
  <2> DEFINE kept == Newest(events, Keep(Capacity))
  <2>1. /\ pc' \notin {"compact", "down"} /\ UNCHANGED <<crashes, failed>>
        /\ events' = kept /\ cells' = LogOf(kept)
    BY <1>8 DEF Compact, AfterAppend, faults
  <2>2. Keep(Capacity) \in Nat /\ Keep(Capacity) <= Capacity
    BY <1>1, KeepBounds
  <2>3. kept \in Seq(Nat) /\ Len(kept) \in Nat /\ Len(kept) <= Capacity
    BY <1>1, <2>2, NewestIsSuffix
  <2> HIDE DEF kept
  <2>4. Len(LogOf(kept)) = Len(kept)
    BY <2>3, LogOfIsReadable
  <2>5. QED
    BY <1>1, <1>2, <2>1, <2>3, <2>4
<1>9. CASE IoError \/ FlushError
  BY <1>5, <1>9 DEF IoError, FlushError, Fails
<1>10. CASE Crash
  <2>1. /\ pc # "down" /\ pc' = "down" /\ crashes' = crashes + 1 /\ UNCHANGED failed
        /\ cells' = cells \/ (pc = "append" /\ cells' = Append(cells, Torn(last)))
    BY <1>10, InterruptedCells DEF Crash, Down
  <2>2. /\ Len(cells) <= C * crashes + Len(events)
        /\ TailDamaged(cells) \/ Len(cells) <= D * crashes + Len(events)
        /\ Len(events) <= 2 * Capacity + (IF pc = "compact" THEN 1 ELSE 0)
    BY <1>4, <1>5, <2>1
  <2>3. Len(cells') <= Len(cells) + (IF pc = "append" THEN 1 ELSE 0) /\ Len(cells') \in Nat
    BY <1>1, <1>3, <2>1, LongerByOne
  <2>4. Len(cells') <= C * (crashes + 1)
    BY <1>1, <1>2, <2>2, <2>3
  <2>5. TailDamaged(cells') \/ Len(cells') <= D * (crashes + 1) + Capacity
    <3>1. CASE cells' = cells
      BY <1>1, <1>2, <2>2, <3>1
    <3>2. CASE cells' = Append(cells, Torn(last))
      <4>1. ~Torn(last).intact
        BY DEF Torn
      <4>2. QED
        BY <1>1, <1>3, <3>2, <4>1, WrittenCells
    <3>3. QED
      BY <2>1, <3>1, <3>2
  <2>6. QED
    BY <2>1, <2>4, <2>5
<1>11. CASE \/ Begin \/ Revoke \/ Grant \/ Deliver \/ DeliveryFails \/ RecordPhase
            \/ SaveOther \/ GiveUp \/ Save \/ UNCHANGED vars
  <2>1. /\ UNCHANGED <<events, cells, crashes, failed>>
        /\ \/ pc' \in {"append", "deliver", "resume", "save", "idle"} /\ pc \notin {"compact", "down"}
           \/ pc' = pc
    BY <1>11 DEF Begin, Revoke, Grant, Deliver, DeliveryFails, RecordPhase, SaveOther, GiveUp,
        Save, Decide, AtRest, vars, log, faults
  <2>2. QED
    BY <1>4, <1>5, <2>1
<1>12. QED
  BY <1>6, <1>7, <1>8, <1>9, <1>10, <1>11 DEF Next

\* Without failed file operations the length of the journal file is bounded by the number of
\* restarts.
THEOREM GrowthIsPerBoot == Spec => []GrowthPerBoot
<1>1. Init => Grown
  <2> SUFFICES ASSUME Init PROVE Grown
    OBVIOUS
  <2>1. /\ (2 * Capacity + 1) * 0 = 0 /\ 0 <= (Capacity + 1) * 0 + Capacity /\ Len(<<>>) = 0
    BY JournalAssumption
  <2>2. pc = "down" /\ crashes = 0 /\ Len(cells) = 0
    BY <2>1 DEF Init
  <2>3. /\ Len(cells) <= (2 * Capacity + 1) * crashes
        /\ Len(cells) <= (Capacity + 1) * crashes + Capacity
    BY <2>1, <2>2
  <2>4. QED
    BY <2>2, <2>3 DEF Grown
<1>2. Typed /\ Grown /\ [Next]_vars => Grown'
  BY GrownKept
<1>3. Typed /\ Grown => GrowthPerBoot
  <2> SUFFICES ASSUME Typed, Grown, failed = {}
               PROVE  Len(cells) <= 2 * Capacity + 1
                        + (IF TailDamaged(cells) THEN 2 * Capacity + 1 ELSE Capacity + 1) * crashes
    BY DEF GrowthPerBoot
  <2> DEFINE p == (2 * Capacity + 1) * crashes
             q == (Capacity + 1) * crashes
  <2>1. /\ crashes \in Nat /\ Capacity \in Nat /\ Len(events) \in Nat /\ Len(cells) \in Nat
    BY LenProperties, JournalAssumption DEF Typed, Cells
  <2>2. p \in Nat /\ q \in Nat
    BY <2>1
  <2>3. /\ pc = "down" => Len(cells) <= p /\ (TailDamaged(cells) \/ Len(cells) <= q + Capacity)
        /\ pc # "down" =>
            /\ Len(cells) <= p + Len(events)
            /\ TailDamaged(cells) \/ Len(cells) <= q + Len(events)
            /\ Len(events) <= 2 * Capacity + (IF pc = "compact" THEN 1 ELSE 0)
    BY DEF Grown
  <2> HIDE DEF p, q
  <2>4. Len(cells) <= 2 * Capacity + 1 + (IF TailDamaged(cells) THEN p ELSE q)
    BY <2>1, <2>2, <2>3
  <2>5. QED
    BY <2>4 DEF p, q
<1>4. QED
  BY <1>1, <1>2, <1>3, TypedHolds, PTL DEF Spec
=============================================================================
