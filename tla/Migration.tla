----------------------------- MODULE Migration ------------------------------
(***************************************************************************)
(* State documents and the migration functions of src/src/migration.cpp.    *)
(*                                                                          *)
(* A document is a schema version and a function from keys to values; a     *)
(* value is a sequence of tokens, so that wrapping, unwrapping and changing *)
(* case do what the code does.  An operation that may be refused yields a   *)
(* set: its one result, or nothing.                                         *)
(***************************************************************************)
EXTENDS Integers, Sequences, FiniteSets

CONSTANTS
    MaxFields,        \* kMaxStateFields
    MaxValue,         \* kMaxStateValueBytes
    JournalCapacity,  \* capacity of the MigrationJournal
    Prefix, Suffix,   \* the tokens wrap_value puts around a value
    Lower             \* the lower case of every token

ASSUME MigrationAssumption ==
    /\ {MaxFields, MaxValue, JournalCapacity} \subseteq Nat \ {0}
    /\ {Prefix, Suffix} \subseteq DOMAIN Lower
    /\ Lower \in [DOMAIN Lower -> DOMAIN Lower]

Token == DOMAIN Lower

Function == {"identity", "add_field", "rename_field", "remove_field", "wrap_value",
             "unwrap_value", "lowercase_field"}

----------------------------------------------------------------------------
(* StateDocument *)

\* The fields of a document within the limits that put enforces.
IsFields(fields) ==
    /\ fields \in [DOMAIN fields -> Seq(Token)]
    /\ IsFiniteSet(DOMAIN fields) /\ Cardinality(DOMAIN fields) <= MaxFields
    /\ \A k \in DOMAIN fields : Len(fields[k]) <= MaxValue

\* Mutant: the limit on the number of fields is checked with the wrong comparison.
Put_OneMore(fields, key, value) ==
    IF Len(value) > MaxValue \/ (key \notin DOMAIN fields /\ Cardinality(DOMAIN fields) > MaxFields)
    THEN {}
    ELSE {[k \in DOMAIN fields \cup {key} |-> IF k = key THEN value ELSE fields[k]]}

Put(fields, key, value) ==
    IF Len(value) > MaxValue \/ (key \notin DOMAIN fields /\ Cardinality(DOMAIN fields) >= MaxFields)
    THEN {}
    ELSE {[k \in DOMAIN fields \cup {key} |-> IF k = key THEN value ELSE fields[k]]}

Remove(fields, key) == [k \in DOMAIN fields \ {key} |-> fields[k]]

----------------------------------------------------------------------------
(* apply_forward *)

Framed(value) ==
    /\ Len(value) >= 2
    /\ value[1] = Prefix /\ value[Len(value)] = Suffix

\* A step without the field it needs fails unless it declares the field optional.
Absent(step, fields) == IF step.optional THEN {fields} ELSE {}

\* Mutant: a rename overwrites the field it renames to.
Rename_Overwrites(step, fields) ==
    IF step.key \notin DOMAIN fields
    THEN Absent(step, fields)
    ELSE {Remove(g, step.key) : g \in Put(fields, step.newKey, fields[step.key])}

Rename(step, fields) ==
    IF step.key \notin DOMAIN fields
    THEN Absent(step, fields)
    ELSE IF step.newKey \in DOMAIN fields
         THEN {}
         ELSE {Remove(g, step.key) : g \in Put(fields, step.newKey, fields[step.key])}

Apply(step, fields) ==
    LET key == step.key
        has == key \in DOMAIN fields
    IN  CASE step.function = "identity" -> {fields}
          [] step.function = "add_field" -> Put(fields, key, step.value)
          [] step.function = "rename_field" -> Rename(step, fields)
          [] step.function = "remove_field" ->
                IF has THEN {Remove(fields, key)} ELSE Absent(step, fields)
          [] step.function = "wrap_value" ->
                IF has THEN Put(fields, key, <<Prefix>> \o fields[key] \o <<Suffix>>)
                ELSE Absent(step, fields)
          [] step.function = "unwrap_value" ->
                IF has /\ Framed(fields[key])
                THEN Put(fields, key, SubSeq(fields[key], 2, Len(fields[key]) - 1)) ELSE {}
          [] step.function = "lowercase_field" ->
                IF has THEN Put(fields, key, [i \in DOMAIN fields[key] |-> Lower[fields[key][i]]])
                ELSE {}

----------------------------------------------------------------------------
(* StateMigrator *)

\* resolve_migration_step
Resolvable(step) == step.function \in Function /\ step.deterministic

\* One step of migrate_forward.  Evidence, if there is any, names the state it was made for.
Forward(step, doc) ==
    IF step.from = doc.schema /\ Resolvable(step) /\ (step.evidence = {} \/ doc \in step.evidence)
    THEN {[schema |-> step.to, fields |-> g] : g \in Apply(step, doc.fields)}
    ELSE {}

MigrateForward(doc, steps) ==
    LET run[i \in 0..Len(steps)] ==
            IF i = 0 THEN {doc} ELSE UNION {Forward(steps[i], d) : d \in run[i - 1]}
    IN  run[Len(steps)]

\* The transformation migrate_backward applies instead of a step's own; it is never optional.
Reverse(step) ==
    LET Transformation(function, key, newKey) ==
            [function |-> function, key |-> key, newKey |-> newKey, value |-> step.value, optional |-> FALSE]
    IN  CASE step.function = "add_field" -> Transformation("remove_field", step.key, step.newKey)
          [] step.function = "rename_field" -> Transformation("rename_field", step.newKey, step.key)
          [] step.function = "wrap_value" -> Transformation("unwrap_value", step.key, step.newKey)
          [] OTHER -> Transformation(step.function, step.key, step.newKey)

Reversible(step) ==
    /\ step.reversible /\ ~step.boundary
    /\ step.function \in {"identity", "add_field", "rename_field", "wrap_value"}

\* One step of migrate_backward
Backward(step, doc) ==
    IF step.to = doc.schema /\ Resolvable(step) /\ Reversible(step)
    THEN {[schema |-> step.from, fields |-> g] : g \in Apply(Reverse(step), doc.fields)}
    ELSE {}

MigrateBackward(doc, steps) ==
    LET run[i \in 0..Len(steps)] ==
            IF i = 0 THEN {doc}
            ELSE UNION {Backward(steps[Len(steps) + 1 - i], d) : d \in run[i - 1]}
    IN  run[Len(steps)]

----------------------------------------------------------------------------
(* MigrationJournal *)

\* record, for every step of a migration
Recorded(journal, steps) ==
    LET all == journal \o steps
    IN  SubSeq(all, IF Len(all) > JournalCapacity THEN Len(all) - JournalCapacity + 1 ELSE 1, Len(all))

HasApplied(journal, step) ==
    \E i \in DOMAIN journal :
        journal[i].id = step.id /\ journal[i].from = step.from /\ journal[i].to = step.to

IrreversibleCrossed(journal) == \E i \in DOMAIN journal : journal[i].boundary
=============================================================================
