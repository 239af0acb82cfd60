---------------------------- MODULE MCAdmission -----------------------------
(* An instance of Admission: manifests of two families, one that varies     *)
(* protocols, features and evidence and one that varies migration steps and *)
(* rollback strategies, valid ones and others.                              *)
EXTENDS Admission

V(major, minor) == [major |-> major, minor |-> minor]

Component(id, protocol, schema, features) ==
    [id |-> id, software |-> id, protocol |-> protocol, schema |-> schema, features |-> features]

Evidence(source, target, verdict, certified, permitted) ==
    [sealed |-> TRUE, subject |-> source.id, source |-> source.software, target |-> target.software,
     sourceProtocol |-> source.protocol, targetProtocol |-> target.protocol,
     sourceSchema |-> source.schema, targetSchema |-> target.schema,
     verdict |-> verdict, certified |-> certified, rollbackPermitted |-> permitted]

Source == Component("old", V(1, 0), 1, {"f", "g"})
Target(protocol, schema, features) == Component("new", protocol, schema, features)

Step(id, from, to, function) ==
    [id |-> id, from |-> from, to |-> to, function |-> function, key |-> "k", newKey |-> "n",
     value |-> <<"v">>, optional |-> FALSE, reversible |-> TRUE, boundary |-> FALSE,
     deterministic |-> TRUE, evidence |-> {}]

ProtocolFamily ==
    {[source |-> Source, target |-> t, migrations |-> <<>>,
      rollback |-> [kind |-> kind, declared |-> {}],
      protocol |-> [accepted |-> accepted, required |-> required, allowed |-> allowed],
      evidence |-> Evidence(Source, t, verdict, certified, kind = "rollback_if_no_boundary_crossed")] :
        t \in {Target(p, 1, fs) : p \in {V(1, 1), V(2, 0)}, fs \in {{"f"}, {"g"}}},
        accepted \in {{V(1, 0), V(1, 1)}, {V(1, 0), V(1, 1), V(2, 0)}, {V(1, 1)}},
        required \in {{}, {"f"}}, allowed \in {{"f"}, {"f", "g"}},
        certified \in {{"f"}, {"f", "g"}}, verdict \in {"supported", "unsupported"},
        kind \in {"rollback_to_predecessor", "rollback_if_no_boundary_crossed"}}

Reversibility == {[reversible |-> TRUE, boundary |-> FALSE], [reversible |-> FALSE, boundary |-> TRUE],
                  [reversible |-> FALSE, boundary |-> FALSE]}

OneStep ==
    {<<[Step("a", 1, 2, fn) EXCEPT !.optional = optional, !.reversible = r.reversible, !.boundary = r.boundary]>> :
        fn \in Function \cup {"unheard of"}, optional \in BOOLEAN, r \in Reversibility}

TwoSteps ==
    {<<[Step("a", 1, 2, first) EXCEPT !.optional = TRUE],
       [Step("b", 2, 3, second) EXCEPT !.key = key, !.newKey = "k"]>> :
        first \in {"add_field", "rename_field", "remove_field", "wrap_value"},
        second \in {"add_field", "rename_field", "unwrap_value", "lowercase_field"}, key \in {"k", "n"}}

Boundary(step) == [step EXCEPT !.reversible = FALSE, !.boundary = TRUE]

\* Steps in the wrong order, beyond the target, beside the path, against the order of versions,
\* not deterministic, with one name twice, and bound to a state.
OddSteps ==
    LET a == Step("a", 1, 2, "identity")
        b == Step("b", 2, 3, "wrap_value")
    IN  {<<b, a>>, <<a, b, Boundary(Step("c", 3, 4, "remove_field"))>>, <<a, Step("c", 1, 3, "identity"), b>>,
         <<a, b, Step("c", 3, 2, "identity")>>, <<[a EXCEPT !.deterministic = FALSE], b>>,
         <<a, [b EXCEPT !.id = "a"]>>, <<a, b, Step("c", 1, 2, "identity")>>,
         <<[a EXCEPT !.evidence = {[schema |-> 1, fields |-> [k |-> <<"A">>]]}], b>>}

Boundaries(steps) == {steps[i].id : i \in {j \in DOMAIN steps : steps[j].boundary}}

SchemaFamily ==
    {[source |-> Source, target |-> Target(V(1, 1), plan.schema, {"f", "g"}), migrations |-> plan.steps,
      rollback |-> [kind |-> kind, declared |-> Boundaries(plan.steps) \ omitted],
      protocol |-> [accepted |-> {V(1, 0), V(1, 1)}, required |-> {"f"}, allowed |-> {"f", "g"}],
      evidence |-> Evidence(Source, Target(V(1, 1), plan.schema, {}), "supported", {"f", "g"}, TRUE)] :
        plan \in {[schema |-> 2, steps |-> steps] : steps \in OneStep}
                    \cup {[schema |-> 3, steps |-> steps] : steps \in TwoSteps \cup OddSteps},
        kind \in {"rollback_to_predecessor", "rollback_if_no_boundary_crossed", "forward_recovery_only"},
        omitted \in {{}, {"a"}}}

MCManifests == ProtocolFamily \cup SchemaFamily

MCRegistries == {<<>>} \cup {<<m.evidence>> : m \in MCManifests}

MCSources ==
    {Hello(Source), Hello([Source EXCEPT !.features = {"f"}]), Hello([Source EXCEPT !.protocol = V(2, 0)])}

\* The last one is the source itself, behind the wrong endpoint.
MCTargets ==
    {Hello(Target(V(1, 1), 3, {"f"})), Hello(Target(V(1, 2), 1, {"f", "g"})), Hello(Target(V(1, 1), 1, {"g"})),
     Hello(Source)}

MCSourceStates ==
    LET Fields(keys, value) == [k \in keys |-> value]
    IN  {<<>>, Fields({"k"}, <<"A">>), Fields({"k"}, <<"(", ")">>), Fields({"n"}, <<"A">>),
         Fields({"k", "n"}, <<"A">>), Fields({"k", "y", "z"}, <<"A">>), Fields({"n", "y", "z"}, <<"A">>)}

MCLower == [t \in {"(", ")", "A", "a", "v"} |-> IF t = "A" THEN "a" ELSE t]
=============================================================================
