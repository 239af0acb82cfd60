------------------------------ MODULE Manifest ------------------------------
(***************************************************************************)
(* The admission of a manifest: EvolutionManifest::validate                 *)
(* (src/src/manifest.cpp), the check of its compatibility evidence against  *)
(* the registry (src/src/compatibility.cpp) and the negotiation of protocol *)
(* and features between the components (src/src/protocol.cpp).              *)
(*                                                                          *)
(* Versions of software are model values, protocol versions have a major    *)
(* and a minor number, schema versions are numbers, feature sets are sets.  *)
(* Identifiers and texts that must merely be present, and limits on sizes,  *)
(* are taken as met.                                                        *)
(***************************************************************************)
EXTENDS Integers, Sequences, FiniteSets

----------------------------------------------------------------------------
(* Protocol versions *)

Version == [major: Nat, minor: Nat]

CompatibleWith(v, w) == v.major = w.major

\* Mutant: the higher minor version wins.
NegotiateVersion_Higher(v, w) ==
    [major |-> v.major, minor |-> IF v.minor >= w.minor THEN v.minor ELSE w.minor]

\* ProtocolVersion::negotiate
NegotiateVersion(v, w) ==
    [major |-> v.major, minor |-> IF v.minor <= w.minor THEN v.minor ELSE w.minor]

----------------------------------------------------------------------------
(* The migration path *)

\* step_from: the first step declared for a schema version
StepFrom(steps, schema) ==
    LET leaving == {i \in DOMAIN steps : steps[i].from = schema}
    IN  IF leaving = {} THEN <<>> ELSE <<steps[CHOOSE i \in leaving : \A j \in leaving : i <= j]>>

\* migration_path: follow step_from until the target is reached.  A path is only extended by a
\* step that advances, and by no more steps than there are plus one.
MigrationPath(steps, from, to) ==
    LET At(path) == IF path = <<>> THEN from ELSE path[Len(path)].to
        Extended(path) ==
            LET next == StepFrom(steps, At(path))
            IN  IF At(path) = to \/ next = <<>> \/ next[1].to <= At(path)
                THEN path
                ELSE Append(path, next[1])
        walk[k \in 0..Len(steps) + 1] == IF k = 0 THEN <<>> ELSE Extended(walk[k - 1])
        reached == walk[Len(steps) + 1]
    IN  IF from < to /\ At(reached) = to THEN reached ELSE <<>>

CrossesIrreversibleBoundary(steps, from, to) ==
    LET path == MigrationPath(steps, from, to) IN \E i \in DOMAIN path : path[i].boundary

----------------------------------------------------------------------------
(* EvolutionManifest::validate *)

EvidenceCovers(m) ==
    /\ m.evidence.sealed
    /\ m.evidence.verdict # "unsupported"
    /\ m.evidence.subject = m.source.id
    /\ m.evidence.source = m.source.software /\ m.evidence.target = m.target.software
    /\ m.evidence.sourceProtocol = m.source.protocol /\ m.evidence.targetProtocol = m.target.protocol
    /\ m.evidence.sourceSchema = m.source.schema /\ m.evidence.targetSchema = m.target.schema

StepsValid(m) ==
    /\ \A i, j \in DOMAIN m.migrations : m.migrations[i].id = m.migrations[j].id => i = j
    /\ \A i \in DOMAIN m.migrations :
        LET step == m.migrations[i]
        IN  /\ step.to > step.from
            /\ ~(step.boundary /\ step.reversible)
            /\ step.deterministic
            /\ step.boundary => step.id \in m.rollback.declared
    /\ IF m.source.schema # m.target.schema
       THEN MigrationPath(m.migrations, m.source.schema, m.target.schema) # <<>>
       ELSE m.migrations = <<>>

\* Mutant: a strategy of rolling back is accepted whatever the path crosses.
RollbackValid_AnyPath(m) ==
    m.rollback.declared \subseteq
        {m.migrations[i].id : i \in {j \in DOMAIN m.migrations : m.migrations[j].boundary}}

RollbackValid(m) ==
    LET crosses == CrossesIrreversibleBoundary(m.migrations, m.source.schema, m.target.schema)
    IN  /\ m.rollback.kind = "forward_recovery_only" => crosses
        /\ m.rollback.kind = "rollback_to_predecessor" =>
            ~crosses /\ (m.evidence.verdict = "supported" => m.evidence.rollbackPermitted)
        /\ m.rollback.declared \subseteq
            {m.migrations[i].id : i \in {j \in DOMAIN m.migrations : m.migrations[j].boundary}}

\* Mutant: required features need not be supported by both components.
ProtocolValid_Unsupported(m) ==
    LET p == m.protocol
    IN  /\ {m.source.protocol, m.target.protocol} \subseteq p.accepted
        /\ \A v \in p.accepted :
            CompatibleWith(v, m.source.protocol) /\ CompatibleWith(v, m.target.protocol)
        /\ p.required \subseteq p.allowed
        /\ p.allowed \subseteq m.evidence.certified

ProtocolValid(m) ==
    LET p == m.protocol
    IN  /\ {m.source.protocol, m.target.protocol} \subseteq p.accepted
        /\ \A v \in p.accepted :
            CompatibleWith(v, m.source.protocol) /\ CompatibleWith(v, m.target.protocol)
        /\ p.required \subseteq p.allowed
        /\ p.required \subseteq m.source.features \cap m.target.features
        /\ p.allowed \subseteq m.evidence.certified

Validate(m) == EvidenceCovers(m) /\ StepsValid(m) /\ RollbackValid(m) /\ ProtocolValid(m)

\* decide: the first decision the registry has for the component and its two versions
Decide(decisions, declared) ==
    LET Covers(d) == /\ d.subject = declared.subject
                     /\ d.source = declared.source /\ d.target = declared.target
        covering == SelectSeq(decisions, Covers)
    IN  IF covering = <<>> THEN {} ELSE {Head(covering)}

\* verify_evidence: what the registry says now against what the manifest carries
VerifyEvidence(declared, decisions, policy) ==
    \E fresh \in Decide(decisions, declared) :
        fresh = declared \/ (policy = "refresh" /\ fresh.verdict = declared.verdict)

----------------------------------------------------------------------------
(* negotiate_group, for the two components preflight asks *)

Refused == [mode |-> "refused", effective |-> [major |-> 0, minor |-> 0], enabled |-> {}]

NegotiateGroup(m, source, target) ==
    LET effective == NegotiateVersion(source.protocol, target.protocol)
        enabled == source.features \cap target.features \cap m.protocol.allowed
    IN  IF /\ {m.source.id, m.target.id} \subseteq {source.id, target.id}
           /\ CompatibleWith(source.protocol, target.protocol)
           /\ {source.schema, target.schema} \subseteq {m.source.schema, m.target.schema}
           /\ effective \in m.protocol.accepted
           /\ m.protocol.required \subseteq enabled
        THEN [mode |-> IF source.protocol = effective /\ target.protocol = effective
                       THEN "compatible" ELSE "restricted",
              effective |-> effective, enabled |-> enabled]
        ELSE Refused
=============================================================================
