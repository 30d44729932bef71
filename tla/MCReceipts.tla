----------------------------- MODULE MCReceipts -----------------------------
(***************************************************************************)
(* A policy, and what it may become: another policy_id alone, another      *)
(* order of the rules, a value less that a response has, or one more that  *)
(* none has, with another schema_version, which nothing but the digest may *)
(* show; two suites, one with an assertion and a case that fails.          *)
(***************************************************************************)
EXTENDS Receipts, MCPolicies

First == Named("r1", Required(A))

\* The first of 1, 0 and -1.
AmongFirst(n) == Named("r2", OneOf(A, [i \in 1..n |-> Integer(2 - i)]))

Document(id, version, rules) ==
    [policy_id |-> id, schema_version |-> version, rules |-> rules]

EditedPolicies ==
    {Document("p1", "1.0", <<First, AmongFirst(2)>>),
     Document("p2", "1.0", <<First, AmongFirst(2)>>),
     Document("p1", "1.0", <<AmongFirst(2), First>>),
     Document("p1", "1.1", <<First, AmongFirst(3)>>),
     Document("p1", "1.0", <<First, AmongFirst(1)>>)}

WithA(n) == Object(Pair(1, Integer(n)))

Case(n, r, expected, asserted) ==
    [case_id |-> n, response |-> r, expected_passed |-> expected, expected_rules |-> asserted]

EditedSuites ==
    {[suite_version |-> "1.0", cases |-> <<Case(1, WithA(0), TRUE, {})>>],
     [suite_version |-> "1.1",
      cases |-> <<Case(1, WithA(1), TRUE, {[id \in {"r2"} |-> "RULE_SATISFIED"]}),
                  Case(2, EmptyObject, FALSE, {})>>]}

EditedResponses == {WithA(0), EmptyObject}
=============================================================================
