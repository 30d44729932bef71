----------------------------- MODULE MCCuration -----------------------------
(***************************************************************************)
(* Four policies that differ in one bound, one rule and one conflict, and  *)
(* suites of up to three cases: with mismatches, with contradictions, with *)
(* assertions about unknown rules, and with repeated cases.                *)
(***************************************************************************)
EXTENDS Curation, MCPolicies

Loose == <<Named("r1", Required(A)), Named("r2", InRange(A, {0}, {4}))>>
Tight == <<Named("r1", Required(A)), Named("r2", InRange(A, {2}, {4}))>>
Other == <<Named("r2", InRange(A, {0}, {4})), Named("r3", Equals(A, Integer(0)))>>
Hopeless == <<Named("r1", Equals(A, Integer(0))), Named("r2", InRange(A, {2}, {4}))>>

MCPoliciesUsed == {Loose, Tight, Other, Hopeless}

Missing == EmptyObject
Zero0 == Object(Pair(1, Integer(0)))
One1 == Object(Pair(1, Integer(1)))
Text == Object(Pair(1, String(0)))

Case(n, response, expected, asserted) ==
    [case_id |-> <<"name", n>>, response |-> response, expected_passed |-> expected,
     expected_rules |-> asserted]

Suite(version, cases) == [suite_version |-> version, cases |-> cases]

Outcome(id, code) == [r \in {id} |-> code]

Plain10 == Suite("1.0", <<Case(1, Zero0, TRUE, {}), Case(2, One1, TRUE, {}),
                          Case(3, Missing, FALSE, {}), Case(4, One1, TRUE, {})>>)
Wrong10 == Suite("1.0", <<Case(5, Text, FALSE, {}), Case(6, Zero0, FALSE, {}),
                          Case(2, Zero0, TRUE, {})>>)
Partial11 == Suite("1.1", <<Case(1, Zero0, TRUE, {Outcome("r2", "RULE_SATISFIED")}),
                            Case(2, Text, FALSE, {Outcome("r2", "VALUE_OUT_OF_RANGE")}),
                            Case(3, Text, FALSE, {Outcome("r1", "RULE_SATISFIED")}),
                            Case(4, Missing, FALSE, {})>>)
Stale11 == Suite("1.1", <<Case(5, One1, TRUE, {Outcome("r9", "RULE_SATISFIED")}),
                          Case(6, Text, FALSE, {Outcome("r2", "FIELD_MISSING")}),
                          Case(7, Text, FALSE, {Outcome("r2", "FIELD_MISSING")})>>)

CurationImports == {<< <<One1>>, <<TRUE>> >>, << <<Text, Zero0>>, <<FALSE, FALSE>> >>}

\* Two suites of one version, so that they can be merged.
CurationFiles ==
    {[n \in Files |-> IF n = "a" THEN pair[1] ELSE IF n = "b" THEN pair[2] ELSE NoSuite] :
        pair \in {<<Plain10, Wrong10>>, <<Partial11, Stale11>>}}
=============================================================================
