----------------------------- MODULE Admission ------------------------------
(***************************************************************************)
(* What a manifest goes through between its admission and the successor's   *)
(* readiness: plan and preflight of src/src/controller.cpp, the snapshot    *)
(* and the migration of the successor (src/src/node.cpp), readiness, and    *)
(* the downgrade that migrate_backward offers.  The registry may hold any   *)
(* decisions when a manifest is planned (nothing reads it again later), and *)
(* the components may be other ones than the manifest declares.             *)
(***************************************************************************)
EXTENDS Manifest, Migration

CONSTANTS
    Manifests,     \* the manifests an operator may submit
    Registries,    \* what the compatibility registry may hold
    Sources,       \* what the component at the source's endpoint may report in its hello
    Targets,       \* what the component at the target's endpoint may report
    SourceStates,  \* the fields the predecessor's document may have
    Policies,      \* the evidence policies: "exact", "refresh"
    MaxRestarts    \* bound on restarts of the handoff

ASSUME AdmissionAssumption ==
    /\ Policies \subseteq {"exact", "refresh"}
    /\ MaxRestarts \in Nat

\* What parsing a manifest, a hello and a document leaves no doubt about.
ASSUME InputsAssumption ==
    /\ \A m \in Manifests :
        /\ {m.source.protocol, m.target.protocol} \subseteq Version
        /\ {m.source.schema, m.target.schema} \subseteq Nat
        /\ m.migrations \in Seq({m.migrations[i] : i \in DOMAIN m.migrations})
        /\ \A i \in DOMAIN m.migrations :
            {m.migrations[i].from, m.migrations[i].to} \subseteq Nat /\ m.migrations[i].value \in Seq(Token)
    /\ \A hello \in Sources \cup Targets : hello.protocol \in Version
    /\ \A fields \in SourceStates : IsFields(fields)

VARIABLES
    registry,    \* the decisions the registry holds
    policy,      \* options_.evidence_policy
    phase,       \* how far the campaign has come
    manifest,    \* manifest_, as a sequence of at most one
    hellos,      \* what source and target reported in preflight
    negotiated,  \* the result of the negotiation
    doc,         \* the successor's document
    original,    \* history: the document before its migration
    journal,     \* the successor's migration journal
    crossed,     \* campaign_->irreversible_boundary_crossed
    seen,        \* history: the registry's decision when the manifest was planned
    restarts

campaign == <<manifest, hellos, negotiated, seen>>
successor == <<doc, original, journal, crossed>>
vars == <<registry, policy, phase, campaign, successor, restarts>>

Empty == [schema |-> 0, fields |-> <<>>]
TheManifest == manifest[1]

Init ==
    /\ registry \in Registries
    /\ policy \in Policies
    /\ phase = "none"
    /\ manifest = <<>> /\ hellos = <<>> /\ negotiated = Refused /\ seen = {}
    /\ doc = Empty /\ original = Empty /\ journal = <<>> /\ crossed = FALSE
    /\ restarts = 0

\* plan_locked
Plan(m) ==
    /\ phase = "none"
    /\ Validate(m)
    /\ VerifyEvidence(m.evidence, registry, policy)
    /\ manifest' = <<m>>
    /\ seen' = Decide(registry, m.evidence)
    /\ phase' = "planned"
    /\ UNCHANGED <<registry, policy, hellos, negotiated, successor, restarts>>

\* preflight_locked, up to the grant of authority: the components' hellos are negotiated and
\* every step must resolve.  A failure ends the campaign.
Preflight(source, target) ==
    LET result == NegotiateGroup(TheManifest, source, target)
        steps == TheManifest.migrations
    IN  /\ phase = "planned"
        /\ hellos' = <<source, target>>
        /\ negotiated' = result
        /\ phase' = IF result.mode # "refused" /\ \A i \in DOMAIN steps : Resolvable(steps[i])
                    THEN "preflighted" ELSE "failed"
        /\ UNCHANGED <<registry, policy, manifest, seen, successor, restarts>>

\* install_snapshot on the successor: the source's document, at the source's schema
InstallSnapshot(fields) ==
    /\ phase = "preflighted"
    /\ doc' = [schema |-> TheManifest.source.schema, fields |-> fields]
    /\ original' = doc'
    /\ phase' = "installed"
    /\ UNCHANGED <<registry, policy, campaign, journal, crossed, restarts>>

Steps == TheManifest.migrations
Path == MigrationPath(Steps, TheManifest.source.schema, TheManifest.target.schema)

\* advance_catch_up and node.migrate: every step the manifest declares, in declared order, on a
\* copy of the document.  When one fails nothing has changed.
Migrate ==
    /\ phase = "installed"
    /\ doc.schema # TheManifest.target.schema
    /\ doc' \in MigrateForward(doc, Steps)
    /\ journal' = Recorded(journal, Steps)
    /\ crossed' = (crossed \/ \E i \in DOMAIN Steps : Steps[i].boundary)
    /\ phase' = "migrated"
    /\ UNCHANGED <<registry, policy, campaign, original, restarts>>

\* Source and target have one schema.
NothingToMigrate ==
    /\ phase = "installed"
    /\ doc.schema = TheManifest.target.schema
    /\ phase' = "migrated"
    /\ UNCHANGED <<registry, policy, campaign, successor, restarts>>

\* advance_readiness and node.readiness
Readiness ==
    /\ phase = "migrated"
    /\ doc.schema = TheManifest.target.schema
    /\ phase' = "ready"
    /\ UNCHANGED <<registry, policy, campaign, successor, restarts>>

\* A handoff restarted from its preparation installs a snapshot again.
RestartHandoff ==
    /\ phase \in {"installed", "migrated", "ready"}
    /\ restarts < MaxRestarts
    /\ restarts' = restarts + 1
    /\ phase' = "preflighted"
    /\ UNCHANGED <<registry, policy, campaign, successor>>

\* migrate_backward over the steps that were run.  The library offers it; the controller has no
\* request that uses it.
Downgrade ==
    /\ phase \in {"migrated", "ready"}
    /\ doc' \in MigrateBackward(doc, Steps)
    /\ phase' = "downgraded"
    /\ UNCHANGED <<registry, policy, campaign, original, journal, crossed, restarts>>

Next ==
    \/ \E m \in Manifests : Plan(m)
    \/ \E source \in Sources, target \in Targets : Preflight(source, target)
    \/ \E fields \in SourceStates : InstallSnapshot(fields)
    \/ Migrate \/ NothingToMigrate \/ Readiness \/ RestartHandoff \/ Downgrade

Spec == Init /\ [][Next]_vars

----------------------------------------------------------------------------
(* Properties *)

Phase == {"none", "planned", "preflighted", "installed", "migrated", "ready", "downgraded", "failed"}

\* The campaign's state is well formed, and document and journal keep within their limits.
TypeOK ==
    /\ policy \in Policies
    /\ phase \in Phase
    /\ Len(manifest) <= 1
    /\ (manifest = <<>>) <=> (phase = "none")
    /\ hellos = <<>> \/ (hellos[1] \in Sources /\ hellos[2] \in Targets)
    /\ negotiated.mode \in {"refused", "restricted", "compatible"}
    /\ doc.schema \in Nat /\ IsFields(doc.fields)
    /\ Len(journal) <= JournalCapacity
    /\ crossed \in BOOLEAN
    /\ Cardinality(seen) <= 1
    /\ restarts \in 0..MaxRestarts

Hello(spec) ==
    [id |-> spec.id, protocol |-> spec.protocol, features |-> spec.features, schema |-> spec.schema]

\* Admission is enough for the negotiation of preflight: components that are what an admitted
\* manifest declares never fail to negotiate, and they agree on a version that is one of their
\* own.
DeclaredNegotiates ==
    manifest # <<>> =>
        LET m == TheManifest
            result == NegotiateGroup(m, Hello(m.source), Hello(m.target))
        IN  /\ result.mode # "refused"
            /\ result.effective \in {m.source.protocol, m.target.protocol}

\* Whatever the components report, the campaign goes on only with a version neither is too old
\* for and with features both have, the required ones among them, and all certified: by the
\* evidence in the manifest, and under the exact policy by the registry itself at the time.
NegotiatedSafe ==
    phase \notin {"none", "planned", "failed"} =>
        /\ \A i \in {1, 2} :
            /\ hellos[i].protocol.major = negotiated.effective.major
            /\ hellos[i].protocol.minor >= negotiated.effective.minor
            /\ negotiated.enabled \subseteq hellos[i].features
        /\ TheManifest.protocol.required \subseteq negotiated.enabled
        /\ negotiated.enabled \subseteq TheManifest.evidence.certified
        /\ policy = "exact" => \E d \in seen : negotiated.enabled \subseteq d.certified

\* A successor that reports ready has run exactly the path that was admitted, although every
\* step the manifest declares is sent to it; so a campaign that promised to be able to go back
\* has crossed no boundary by then, in this attempt.  The journal names the steps, the newest
\* ones if it cannot hold all, whatever earlier attempts have left in it, and it knows of
\* every boundary the campaign does until entries have been dropped.
ReadyRanThePath ==
    phase = "ready" =>
        /\ Steps = Path
        /\ \A i \in DOMAIN Steps : i > Len(Steps) - JournalCapacity => HasApplied(journal, Steps[i])
        /\ crossed /\ Len(journal) < JournalCapacity => IrreversibleCrossed(journal)
        /\ TheManifest.rollback.kind = "rollback_to_predecessor" =>
            ~\E i \in DOMAIN Steps : Steps[i].boundary

\* The steps that found the fields they are about: those are the ones with an exact inverse.
Clean(step, fields) ==
    CASE step.function = "add_field" -> step.key \notin DOMAIN fields
      [] step.function \in {"rename_field", "wrap_value"} -> step.key \in DOMAIN fields
      [] OTHER -> TRUE

CleanRun ==
    \A i \in DOMAIN Steps :
        \A d \in MigrateForward(original, SubSeq(Steps, 1, i - 1)) : Clean(Steps[i], d.fields)

\* migrate_backward undoes migrate_forward, at the limits of a document's size too: where every
\* step is reversible and found its fields, the downgrade is possible and gives back the
\* document; no downgrade ever crosses a boundary.
RoundTrip ==
    /\ phase = "downgraded" =>
        /\ CleanRun => doc = original
        /\ doc.schema = original.schema
        /\ \A i \in DOMAIN Steps : ~Steps[i].boundary
    /\ phase = "migrated" /\ CleanRun /\ (\A i \in DOMAIN Steps : Reversible(Steps[i])) =>
        MigrateBackward(doc, Steps) = {original}
=============================================================================
