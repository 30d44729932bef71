------------------------------- MODULE Suites -------------------------------
(***************************************************************************)
(* Fixture suites: suite.py, coverage.py, compare.py, inspection.py,       *)
(* triage.py and the commands of curation.py, as functions of policies and *)
(* suites.                                                                 *)
(*                                                                         *)
(* A rule here carries its rule_id.  A case asserts at most one function   *)
(* from rule_ids to reason codes: `passed` of an assertion follows from    *)
(* its code, and a case without expected_rules has the empty set.          *)
(* A policy here is its rules; Receipts adds the policy_id, which results  *)
(* only repeat, where they are compared.  Abstracted: the byte limits of   *)
(* bounded_artifact, which only refuse.                                    *)
(***************************************************************************)
EXTENDS Lint, Positions

CONSTANT MAX_SUITE_CASES

ASSUME MaxAssumption == MAX_SUITE_CASES \in Nat

REASON_CODES == UNION {ReachableReasonCodes(kind) : kind \in Kinds}

\* validate_suite
IsCase(case) ==
    /\ case = [case_id |-> case.case_id, response |-> case.response,
               expected_passed |-> case.expected_passed,
               expected_rules |-> case.expected_rules]
    /\ case.response.type = "object"
    /\ case.expected_passed \in BOOLEAN
    /\ \A a, b \in case.expected_rules : a = b
    /\ \A a \in case.expected_rules :
          IsFiniteSet(DOMAIN a) /\ \A id \in DOMAIN a : a[id] \in REASON_CODES

IsSuite(suite) ==
    /\ suite = [suite_version |-> suite.suite_version, cases |-> suite.cases]
    /\ suite.suite_version \in {"1.0", "1.1"}
    /\ suite.cases = [i \in 1..Len(suite.cases) |-> suite.cases[i]]
    /\ Len(suite.cases) \in 1..MAX_SUITE_CASES
    /\ \A i \in DOMAIN suite.cases :
          /\ IsCase(suite.cases[i])
          /\ suite.suite_version = "1.0" => suite.cases[i].expected_rules = {}
          /\ \A j \in DOMAIN suite.cases :
                suite.cases[i].case_id = suite.cases[j].case_id => i = j

Cases(suite) == {suite.cases[i] : i \in DOMAIN suite.cases}
CaseIds(suite) == {case.case_id : case \in Cases(suite)}

\* case.get("expected_rules", {})
AssertedRules(case) == UNION {DOMAIN a : a \in case.expected_rules}
Assertion(case, id) == (CHOOSE a \in case.expected_rules : TRUE)[id]

RuleIds(policy) == {policy[i].rule_id : i \in DOMAIN policy}
RuleOf(policy, id) == policy[CHOOSE i \in DOMAIN policy : policy[i].rule_id = id]

IsPolicy(policy) ==
    /\ policy = [i \in 1..Len(policy) |-> policy[i]] /\ Len(policy) \in Nat \ {0}
    /\ \A i, j \in DOMAIN policy :
          IsRule(policy[i]) /\ (policy[i].rule_id = policy[j].rule_id => i = j)

\* The reason codes of rule_results, by rule_id.
Observed(policy, response) ==
    [id \in RuleIds(policy) |-> ReasonCode(RuleOf(policy, id), response)]

-----------------------------------------------------------------------------
(* evaluate_suite and suite_coverage.                                      *)

\* Mutant: assertions about rules that the policy does not have are skipped.
BugUnknownRulesSkipped(policy, case) ==
    {id \in AssertedRules(case) \cap RuleIds(policy) :
        Assertion(case, id) # Observed(policy, case.response)[id]}

AssertionMismatches(policy, case) ==
    {id \in AssertedRules(case) :
        \/ id \notin RuleIds(policy)
        \/ Assertion(case, id) # Observed(policy, case.response)[id]}

\* Mutant: rules are not compared once the verdict is as expected.
BugVerdictOnly(policy, case) == AllPass(policy, case.response) = case.expected_passed

MatchesExpectation(policy, case) ==
    /\ AllPass(policy, case.response) = case.expected_passed
    /\ AssertionMismatches(policy, case) = {}

MatchesExpectations(policy, suite) ==
    \A case \in Cases(suite) : MatchesExpectation(policy, case)

Mismatched(policy, suite) ==
    {case \in Cases(suite) : ~MatchesExpectation(policy, case)}

\* The keys of reason_counts.
CodesSeen(policy, suite, id) ==
    {Observed(policy, case.response)[id] : case \in Cases(suite)}

UnexercisedReasonCodes(policy, suite, id) ==
    ReachableReasonCodes(RuleOf(policy, id).kind) \ CodesSeen(policy, suite, id)

UnexercisedFailures(policy, suite) ==
    {id \in RuleIds(policy) : CodesSeen(policy, suite, id) = {"RULE_SATISFIED"}}

UnexercisedPasses(policy, suite) ==
    {id \in RuleIds(policy) : "RULE_SATISFIED" \notin CodesSeen(policy, suite, id)}

-----------------------------------------------------------------------------
(* compare_policies and migration_expectations.                            *)

\* Mutant: the bounds and types are not part of a rule's identity.
BugSignatureOfKind(rule) ==
    <<rule.rule_id, rule.path, rule.kind, IF HasDomain(rule) THEN Domain(rule) ELSE {}>>

\* _rule_signature: the values of one_of and the types of type are sets.
RuleSignature(rule) == <<rule.rule_id, rule.path, ConstraintMarker(rule)>>

AddedRules(old, new) == RuleIds(new) \ RuleIds(old)
RemovedRules(old, new) == RuleIds(old) \ RuleIds(new)
ModifiedRules(old, new) ==
    {id \in RuleIds(old) \cap RuleIds(new) :
        RuleSignature(RuleOf(old, id)) # RuleSignature(RuleOf(new, id))}

\* A row of rule_results, or nothing where the policy has no such rule.
Row(policy, id, response) ==
    IF id \in RuleIds(policy)
    THEN <<RuleOf(policy, id).path, RuleOf(policy, id).kind,
           Observed(policy, response)[id]>>
    ELSE << >>

ChangedRuleResults(old, new, case) ==
    {id \in RuleIds(old) \cup RuleIds(new) :
        Row(old, id, case.response) # Row(new, id, case.response)}

VerdictChanged(old, new, case) ==
    AllPass(old, case.response) # AllPass(new, case.response)

Regressions(policy, candidate, suite) ==
    {case \in Cases(suite) :
        MatchesExpectation(policy, case) /\ ~MatchesExpectation(candidate, case)}

Recoveries(policy, candidate, suite) == Regressions(candidate, policy, suite)

-----------------------------------------------------------------------------
(* inspect_suite, diff_suites, audit_assertions, triage_suite, check_suite. *)

\* No two cases of a response expect different verdicts or assert different
\* codes of a rule.
ConsistentExpectations(suite) ==
    \A one, other \in Cases(suite) :
        one.response = other.response =>
            /\ one.expected_passed = other.expected_passed
            /\ \A id \in AssertedRules(one) \cap AssertedRules(other) :
                  Assertion(one, id) = Assertion(other, id)

CaseOf(suite, id) == CHOOSE case \in Cases(suite) : case.case_id = id

SharedIds(left, right) == CaseIds(left) \cap CaseIds(right)

\* Mutant: assertions are not compared.
BugDiffWithoutAssertions(left, right) ==
    {id \in SharedIds(left, right) :
        LET old == CaseOf(left, id)
            new == CaseOf(right, id)
        IN old.response # new.response \/ old.expected_passed # new.expected_passed}

ModifiedCases(left, right) ==
    {id \in SharedIds(left, right) : CaseOf(left, id) # CaseOf(right, id)}

\* Wrong about the policy: unknown rules, codes that a rule's kind cannot give,
\* and a verdict that contradicts the assertions about declared rules.
CompatibleCase(policy, case) ==
    /\ AssertedRules(case) \subseteq RuleIds(policy)
    /\ \A id \in AssertedRules(case) \cap RuleIds(policy) :
          Assertion(case, id) \in ReachableReasonCodes(RuleOf(policy, id).kind)
    /\ LET failed == {id \in AssertedRules(case) \cap RuleIds(policy) :
                         Assertion(case, id) # "RULE_SATISFIED"}
       IN IF case.expected_passed THEN failed = {}
          ELSE RuleIds(policy) \subseteq AssertedRules(case) => failed # {}

AssertionsCompatible(policy, suite) ==
    \A case \in Cases(suite) : CompatibleCase(policy, case)

FullyAsserted(policy, suite) ==
    \A case \in Cases(suite) : RuleIds(policy) \subseteq AssertedRules(case)

\* The rows that failure_groups groups, of mismatching cases only.
FailedRows(policy, suite) ==
    {row \in {<<case.case_id, id, Observed(policy, case.response)[id]>> :
                 case \in Mismatched(policy, suite), id \in RuleIds(policy)} :
        row[3] # "RULE_SATISFIED"}

\* `ready` of check_suite.
Ready(policy, suite) ==
    /\ ~HasConflicts(policy)
    /\ ConsistentExpectations(suite)
    /\ AssertionsCompatible(policy, suite)
    /\ MatchesExpectations(policy, suite)

-----------------------------------------------------------------------------
(* curation.py.                                                            *)

\* The cases at some positions, in source order.
Kept(suite, S) ==
    LET positions == {i \in DOMAIN suite.cases : i \in S}
    IN [suite EXCEPT !.cases = ElementsAt(suite.cases, positions)]

Merged(suite, incoming) == [suite EXCEPT !.cases = suite.cases \o incoming.cases]

Selected(suite, ids) ==
    Kept(suite, {i \in DOMAIN suite.cases : suite.cases[i].case_id \in ids})

IdsInOrder(suite, ids) ==
    LET kept == Selected(suite, ids).cases IN [k \in DOMAIN kept |-> kept[k].case_id]

\* The relative order of the cases that both suites have, in diff_suites.
OrderChanged(left, right) ==
    IdsInOrder(left, SharedIds(left, right)) # IdsInOrder(right, SharedIds(left, right))

\* Mutant: shards are consecutive cases, as many as divide evenly.
BugEvenShards(suite, index, count) ==
    Kept(suite, {i \in DOMAIN suite.cases : (i - 1) \div (Len(suite.cases) \div count) = index})

\* A zero-based round-robin shard.
Shard(suite, index, count) ==
    Kept(suite, {i \in DOMAIN suite.cases : (i - 1) % count = index})

Outcomes == {"mismatched", "matched", "passed", "failed"}

HasOutcome(policy, case, outcome) ==
    CASE outcome = "mismatched" -> ~MatchesExpectation(policy, case)
      [] outcome = "matched"    -> MatchesExpectation(policy, case)
      [] outcome = "passed"     -> AllPass(policy, case.response)
      [] outcome = "failed"     -> ~AllPass(policy, case.response)

OutcomesSelected(policy, suite, outcome) ==
    Kept(suite, {i \in DOMAIN suite.cases : HasOutcome(policy, suite.cases[i], outcome)})

\* Mutant: cases with the same response are identical.
BugIdentityOfResponse(case) == case.response

Identity(case) == <<case.response, case.expected_passed, case.expected_rules>>

Deduplicated(suite) ==
    Kept(suite, {i \in DOMAIN suite.cases :
                    \A j \in 1..(i - 1) : Identity(suite.cases[j]) # Identity(suite.cases[i])})

\* What a case gives evidence of, in reduce_suite.
Signature(policy, case) ==
    {<<"rule", id, Observed(policy, case.response)[id]>> : id \in RuleIds(policy)}
      \cup {<<"verdict", AllPass(policy, case.response), case.expected_passed>>}
      \cup {<<"assertion", id, Assertion(case, id)>> : id \in AssertedRules(case)}

\* Mutant: mismatching cases are only kept for their evidence.
BugMismatchesNotKept(policy, suite) == {}

\* Positions that are retained before the greedy search.
RetainedFirst(policy, suite) ==
    {i \in DOMAIN suite.cases : ~MatchesExpectation(policy, suite.cases[i])}

Covered(signatures, S) == UNION {signatures[i] : i \in S}

\* How much of what is uncovered a case would cover.
Gain(signatures, S, i) == Cardinality(signatures[i] \ Covered(signatures, S))

\* `max`: the case that would cover most, the first of several.
Chosen(signatures, S) ==
    CHOOSE i \in DOMAIN signatures :
        \A j \in DOMAIN signatures :
            \/ Gain(signatures, S, i) > Gain(signatures, S, j)
            \/ Gain(signatures, S, i) = Gain(signatures, S, j) /\ i <= j

\* A round of the loop that runs while something is uncovered.
Round(signatures, S) ==
    IF Covered(signatures, S) = Covered(signatures, DOMAIN signatures) THEN S
    ELSE S \cup {Chosen(signatures, S)}

\* After as many rounds as there are cases nothing is uncovered.
RetainedPositions(policy, suite) ==
    LET signatures == [i \in DOMAIN suite.cases |-> Signature(policy, suite.cases[i])]
        Retained[round \in 0..Len(suite.cases)] ==
            IF round = 0 THEN RetainedFirst(policy, suite)
            ELSE Round(signatures, Retained[round - 1])
    IN Retained[Len(suite.cases)]

Reduced(policy, suite) == Kept(suite, RetainedPositions(policy, suite))

\* What capture_assertions makes of a case.
CapturedCase(policy, case) ==
    [case EXCEPT !.expected_rules = {Observed(policy, case.response)}]

Captured(policy, suite) ==
    [suite_version |-> "1.1",
     cases |-> [i \in DOMAIN suite.cases |-> CapturedCase(policy, suite.cases[i])]]

\* import_responses; the position stands for the generated identifier.
ImportedId(index) == <<"case", index>>

Imported(responses, expectations) ==
    [suite_version |-> "1.0",
     cases |-> [i \in DOMAIN responses |->
                   [case_id |-> ImportedId(i), response |-> responses[i],
                    expected_passed |-> expectations[i], expected_rules |-> {}]]]
=============================================================================
