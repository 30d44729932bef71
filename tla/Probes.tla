------------------------------- MODULE Probes -------------------------------
(***************************************************************************)
(* generate_rule_probes of probes.py, on top of the generation of cases:   *)
(* from the passing response, one mutation that removes the field of each  *)
(* rule and one that gives it a wrong value, each verified to fail its     *)
(* rule; together they make a suite.                                       *)
(*                                                                         *)
(* Abstracted: whether an output exceeds the JSON and byte limits is a     *)
(* choice, and a float so large that adding 1 leaves it as it is.          *)
(***************************************************************************)
EXTENDS Synthetic, Suites

CONSTANTS
    MAX_PROBE_RULES,
    MAX_LENGTH_PROBE,
    MAX_ONE_OF_VALUES

ASSUME PolicyAssumption ==
    \A p \in Policies : IsPolicy(p) /\ \A i \in DOMAIN p : Len(p[i].values) <= MAX_ONE_OF_VALUES

\* 64 rules at most, 256 values, and 256 cases of a suite.
ASSUME LimitsAssumption ==
    /\ MAX_PROBE_RULES \in Nat /\ MAX_ONE_OF_VALUES \in Nat \ {0}
    /\ MAX_SUITE_CASES >= 2 * MAX_PROBE_RULES + 1

VARIABLES
    to_probe,       \* the mutations still to make, as <<index, mode>>
    cases,
    probes,
    status          \* generate, probe, complete, or why there are no probes

\* The variables of the generation, which comes first.
generated == vars

probe_vars == <<generated, to_probe, cases, probes, status>>

Case(id, response, expected) ==
    [case_id |-> id, response |-> response, expected_passed |-> expected,
     expected_rules |-> {}]

\* Mutant: the fields are removed, but get no wrong value.
BugMissingOnly(p) == [index \in DOMAIN p |-> <<index, "missing">>]

\* The mutations in the order of the rules; a required field has no wrong value.
Mutations(p) ==
    LET all == [k \in 1..(2 * Len(p)) |->
                   <<(k + 1) \div 2, IF k % 2 = 1 THEN "missing" ELSE "wrong_value">>]
    IN ElementsAt(all, {k \in DOMAIN all :
           all[k][2] = "wrong_value" => p[all[k][1]].kind # "required_field"})

-----------------------------------------------------------------------------
(* Wrong values; << >> where there is none.                                *)

\* f"synthetic-probe-{n}": n is all that tells these strings apart.
ProbeString(n) ==
    [type |-> "string", literal |-> n,
     length |-> IF n < 10 THEN 17 ELSE IF n < 100 THEN 18 ELSE 19]

PROBE_MENU ==
    <<Null, Boolean("false"), Integer(0), Number(1, "fraction"), String(15),
      Array(<< >>), EmptyObject>>

\* The values just beyond the bounds of a rule.
Boundaries(rule) ==
    LET low  == Given(rule.minimum)
        high == Given(rule.maximum)
        long == ElementsAt(high, {i \in DOMAIN high : high[i] + 1 <= MAX_LENGTH_PROBE})
    IN CASE rule.kind = "range" ->
              [i \in DOMAIN high |-> AsWritten(high[i] + 2)]
                \o [i \in DOMAIN low |-> AsWritten(low[i] - 2)]
         [] rule.kind = "length" ->
              [i \in DOMAIN long |-> String(long[i] + 1)]
                \o [i \in DOMAIN long |-> Array([k \in 1..(long[i] + 1) |-> Null])]
                \o (IF rule.minimum \subseteq {0} THEN << >> ELSE <<String(0)>>)
         [] OTHER -> << >>

\* Mutant: the boundary is not verified, though an integer above a string's
\* greatest length is no failure of every length rule.
BugUnverifiedBoundary(rule) == Boundaries(rule) \o PROBE_MENU

\* _filter_probe_value takes the first of these.
FilterProbeValues(rule) ==
    LET values == Boundaries(rule) \o PROBE_MENU
    IN ElementsAt(values, {k \in DOMAIN values :
                              ~Passes(rule, CandidateView(rule.path, values[k]))})

\* Mutant: one name for every probe.
BugOneName(rule) == <<ProbeString(0)>>

\* The first of the names that the rule does not allow.
UnforbiddenNames(rule) ==
    LET names == [n \in 1..(MAX_ONE_OF_VALUES + 1) |-> ProbeString(n - 1)]
    IN ElementsAt(names, {n \in DOMAIN names : names[n] \notin Domain(rule)})

WrongValues(rule) ==
    CASE rule.kind = "false" -> <<Boolean("true")>>
      [] rule.kind = "empty_list" -> <<Array(<<Null>>)>>
      [] IsFilter(rule) -> FilterProbeValues(rule)
      [] rule.kind \in {"equals", "one_of"} -> UnforbiddenNames(rule)

\* Mutant: mutations are made in place, without the deepcopy.
BugAccumulated(rule, mode) ==
    LET response == cases[Len(cases)].response
    IN IF mode = "missing" THEN DeletePath(response, rule.path)
       ELSE AssignPath(response, rule.path, Head(WrongValues(rule)))

Mutated(rule, mode) ==
    IF mode = "missing" THEN DeletePath(passing_response, rule.path)
    ELSE AssignPath(passing_response, rule.path, Head(WrongValues(rule)))

Failed(response) == {id \in RuleIds(policy) : ~Passes(RuleOf(policy, id), response)}

-----------------------------------------------------------------------------
(* The steps.                                                              *)

ProbesInit ==
    /\ Init
    /\ to_probe = Mutations(policy)
    /\ cases = << >>
    /\ probes = << >>
    /\ status = IF Len(policy) > MAX_PROBE_RULES THEN "too_many_rules" ELSE "generate"

Generate ==
    /\ status = "generate"
    /\ Next
    /\ UNCHANGED <<to_probe, cases, probes, status>>

Baseline ==
    /\ status = "generate"
    /\ pc = "done"
    /\ cases' = <<Case(<<"baseline">>, passing_response, TRUE)>>
    /\ status' = "probe"
    /\ UNCHANGED <<generated, to_probe, probes>>

\* What stops a mutation, before its output is measured.
Obstacle(rule, mode) ==
    IF mode = "missing" THEN "none"
    ELSE IF WrongValues(rule) = << >> THEN "no_wrong_value"
    ELSE IF AssignRaises(passing_response, rule.path) THEN "nested_path"
    ELSE "none"

Refuse(code) ==
    /\ status' = code
    /\ UNCHANGED <<generated, to_probe, cases, probes>>

Probe ==
    /\ status = "probe"
    /\ to_probe # << >>
    /\ LET index == Head(to_probe)[1]
           mode  == Head(to_probe)[2]
           rule  == policy[index]
           response == Mutated(rule, mode)
       IN IF Obstacle(rule, mode) # "none" THEN Refuse(Obstacle(rule, mode))
          ELSE IF rule.rule_id \notin Failed(response) THEN Refuse("untargeted")
          ELSE /\ cases' = Append(cases, Case(<<"probe", index, mode>>, response, FALSE))
               /\ probes' = Append(probes,
                     [case_id |-> <<"probe", index, mode>>, target_rule_id |-> rule.rule_id,
                      mutation |-> mode, failed_rule_ids |-> Failed(response)])
               /\ to_probe' = Tail(to_probe)
               /\ UNCHANGED <<generated, status>>

\* The mutated response, the cases so far or the result are too large.
ExceedLimits == status = "probe" /\ Refuse("limits")

ProbeSuite == [suite_version |-> "1.0", cases |-> cases]

Complete ==
    /\ status = "probe"
    /\ to_probe = << >>
    /\ status' = IF IsSuite(ProbeSuite) THEN "complete" ELSE "invalid_suite"
    /\ UNCHANGED <<generated, to_probe, cases, probes>>

NoMoreProbes == status \notin {"generate", "probe"} /\ UNCHANGED probe_vars

ProbesNext == Generate \/ Baseline \/ Probe \/ ExceedLimits \/ Complete \/ NoMoreProbes

ProbesSpec == ProbesInit /\ [][ProbesNext]_probe_vars

-----------------------------------------------------------------------------
(* Properties.                                                             *)

Related(one, other) == one = other \/ IsBelow(one, other) \/ IsBelow(other, one)

\* "Verified targeted synthetic mutations": a probe fails its target for the
\* reason it was made for, whatever else it fails lies on the way to the target
\* or below it, and all of it is reported.
ProbesAreTargeted ==
    \A k \in DOMAIN probes :
        LET response == cases[k + 1].response
            target   == RuleOf(policy, probes[k].target_rule_id)
        IN /\ ReasonCode(target, response) =
                 IF probes[k].mutation = "missing" THEN "FIELD_MISSING"
                 ELSE FAILURE_REASON_BY_KIND[target.kind]
           /\ \A id \in RuleIds(policy) :
                 ReasonCode(RuleOf(policy, id), response) # "RULE_SATISFIED" =>
                     /\ id \in probes[k].failed_rule_ids
                     /\ Related(RuleOf(policy, id).path, target.path)

\* What cases can be generated for can be probed, but for limits: "One always
\* exists" says _filter_probe_value of its value, and no failure has to be
\* refused as unverified.  The probes are a suite worth having: check-suite finds
\* it ready, and suite-coverage finds every reason code of every rule exercised.
ProbeSuiteCoversEverything ==
    /\ status \in {"generate", "probe", "complete", "too_many_rules", "limits"}
    /\ status = "complete" =>
        /\ Ready(policy, ProbeSuite)
        /\ \A id \in RuleIds(policy) : UnexercisedReasonCodes(policy, ProbeSuite, id) = {}
=============================================================================
