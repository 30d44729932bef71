------------------------------ MODULE Synthetic ------------------------------
(***************************************************************************)
(* generate_synthetic_cases of synthetic.py.  Paths are taken deepest      *)
(* first; at each path whose rules do not pass yet, the candidates are     *)
(* tried in turn against the rules already constructed below the path, and *)
(* the first compatible one is assigned, replacing what is there.  Then    *)
(* both cases are verified.  It is a greedy search without backtracking.   *)
(*                                                                         *)
(* Abstracted: whether a built response exceeds the JSON limits is a       *)
(* choice, made when it is verified; deepcopy and isolation of values; and *)
(* paths are compared name by name, not as text with dots, which orders    *)
(* two equally long ones otherwise where a name goes on with '-'.          *)
(***************************************************************************)
EXTENDS Lint, Positions, SequencesExt

CONSTANTS
    Policies,               \* validated policies, as sequences of rules
    MAX_COMPATIBILITY_WORK, \* MAX_POLICY_RULES * MAX_ONE_OF_VALUES
    MAX_JSON_NODES,         \* no candidate array is longer
    Documents               \* the responses the properties quantify over

\* The values that a rule allows are JSON values, those of one_of in a list.
AllowsJson(rule) ==
    /\ rule.values = [k \in 1..Len(rule.values) |-> rule.values[k]]
    /\ Len(rule.values) \in Nat
    /\ HasDomain(rule) => Absent \notin Domain(rule)

\* A bound is an integer, of halves in a range, or left out.
HasBounds(rule) ==
    /\ rule.minimum \cup rule.maximum \subseteq Int
    /\ \A a, b \in rule.minimum : a = b
    /\ \A a, b \in rule.maximum : a = b

ASSUME PoliciesAssumption ==
    \A policy \in Policies :
        /\ policy = [i \in 1..Len(policy) |-> policy[i]] /\ Len(policy) \in Nat \ {0}
        /\ \A i \in DOMAIN policy :
              IsRule(policy[i]) /\ AllowsJson(policy[i]) /\ HasBounds(policy[i])

ASSUME BoundsAssumption == MAX_COMPATIBILITY_WORK \in Nat /\ MAX_JSON_NODES \in Nat

PathsOf(p) == {p[i].path : i \in DOMAIN p}

\* What a response within the JSON limits can have at a path.  The items of
\* an array are nodes, and so is the response they are in.
IsJson(value) ==
    /\ value.type \in Types
    /\ value.type \in {"integer", "number"} => value.halves \in Int
    /\ value.type = "integer" => value.halves % 2 = 0
    /\ value.type = "string" => value.length \in Nat
    /\ value.type = "array" => Len(value.items) \in Nat /\ Len(value.items) < MAX_JSON_NODES
    /\ value.type = "object" => IsFiniteSet(DOMAIN value.members)

ASSUME DocumentsAssumption ==
    \A path \in UNION {PathsOf(policy) : policy \in Policies}, document \in Documents :
        ValueAt(document, path) # Absent => IsJson(ValueAt(document, path))

VARIABLES
    policy,             \* the rules, in declared order
    ordered_paths,      \* the paths still to do, of which Path is the first
    passing_response,
    constructed_rules,  \* the rules of the paths done, in that order
    candidates,         \* of the path in progress: the values still to try
    to_check,           \* and the rules the first of them is still to pass
    compatibility_work,
    failing_response,
    pc,                 \* construct, compare, done or failed
    error               \* why it failed

vars == <<policy, ordered_paths, passing_response, constructed_rules, candidates,
          to_check, compatibility_work, failing_response, pc, error>>

\* The errors of checks that the construction should make superfluous: a path
\* through a value that is no object, and a case that fails its verification.
Defensive == {"nested_path", "unverified_pass", "no_failing_case"}

RulesAt(p, path) == ElementsAt(p, At(p, path))

\* Of paths of one length, names that are equal do not decide.
NameBefore(left, right) ==
    \E n \in DOMAIN left :
        /\ \A m \in 1..(n - 1) : left[m] = right[m]
        /\ left[n] < right[n]

\* Mutant: the paths are sorted from the top down.
BugShallowFirst(left, right) ==
    \/ Len(left) < Len(right)
    \/ Len(left) = Len(right) /\ NameBefore(left, right)

\* `key=lambda path: (-path.count("."), path)`
Before(left, right) ==
    \/ Len(left) > Len(right)
    \/ Len(left) = Len(right) /\ NameBefore(left, right)

-----------------------------------------------------------------------------
(* Candidates for the rules of one path; << >> where the code raises.      *)

IsFixed(rule) == rule.kind \in {"equals", "false", "empty_list"}

FixedValue(rule) == CHOOSE value \in Domain(rule) : TRUE

Allows(rule, value) == HasDomain(rule) => value \in Domain(rule)

\* _finite_candidates: the fixed value if all agree on it, else the values
\* of the first one_of that the others allow too, else null.
FiniteCandidates(rules) ==
    LET fixed  == {i \in DOMAIN rules : IsFixed(rules[i])}
        groups == {i \in DOMAIN rules : rules[i].kind = "one_of"}
        first  == IF fixed # {} THEN <<FixedValue(rules[Nth(fixed, 1)])>>
                  ELSE IF groups # {} THEN rules[Nth(groups, 1)].values
                  ELSE <<Null>>
    IN ElementsAt(first,
           {k \in DOMAIN first : \A i \in DOMAIN rules : Allows(rules[i], first[k])})

Ceiling(halves) == Integer((halves + 1) \div 2)
Floor(halves) == Integer(halves \div 2)

\* The bound as it is written; only a fraction shows that it is no integer.
AsWritten(halves) ==
    IF halves % 2 = 0 THEN Integer(halves \div 2) ELSE Number(halves, "fraction")

\* A bound that is not None.
Given(bounds) == IF bounds = {} THEN << >> ELSE <<CHOOSE n \in bounds : TRUE>>

RangeMenu(rule) ==
    LET low  == Given(rule.minimum)
        high == Given(rule.maximum)
    IN [i \in DOMAIN low |-> Ceiling(low[i])] \o [i \in DOMAIN high |-> Floor(high[i])]
         \o [i \in DOMAIN low |-> AsWritten(low[i])]
         \o [i \in DOMAIN high |-> AsWritten(high[i])]

\* Mutant: the menu has no bounds, only fixed values.
BugFixedMenu(filters) ==
    <<Null, Boolean("false"), Integer(0), String(0), Array(<< >>), EmptyObject>>

\* _filter_menu
FilterMenu(filters) ==
    LET ranges  == ElementsAt(filters, {i \in DOMAIN filters : filters[i].kind = "range"})
        minimal == ElementsAt(filters, {i \in DOMAIN filters :
                        filters[i].kind = "length" /\ \E n \in filters[i].minimum : n > 0})
        lengths == [i \in DOMAIN minimal |-> CHOOSE n \in minimal[i].minimum : TRUE]
        arrays  == ElementsAt(lengths, {i \in DOMAIN lengths : lengths[i] < MAX_JSON_NODES})
    IN <<Null, Boolean("false"), Integer(0)>>
         \o FlattenSeq([i \in DOMAIN ranges |-> RangeMenu(ranges[i])])
         \o <<String(0)>> \o [i \in DOMAIN lengths |-> String(lengths[i])]
         \o <<Array(<< >>)>>
         \o [i \in DOMAIN arrays |-> Array([k \in 1..arrays[i] |-> Null])]
         \o <<EmptyObject>>

\* _candidate_values: filters narrow the finite candidates, or the menu when
\* the path has no finite rule.
CandidateValues(rules) ==
    LET filters == ElementsAt(rules, {i \in DOMAIN rules : IsFilter(rules[i])})
        finite  == ElementsAt(rules, {i \in DOMAIN rules : ~IsFilter(rules[i])})
        source  == IF filters # << >> /\ \A i \in DOMAIN finite :
                                            finite[i].kind = "required_field"
                   THEN FilterMenu(filters) ELSE FiniteCandidates(finite)
    IN ElementsAt(source, {k \in DOMAIN source :
            \A i \in DOMAIN filters :
                Passes(filters[i], CandidateView(filters[i].path, source[k]))})

-----------------------------------------------------------------------------
(* The steps.                                                              *)

Init ==
    /\ policy \in Policies
    /\ ordered_paths = PathsOf(policy)
    /\ passing_response = EmptyObject
    /\ constructed_rules = << >>
    /\ candidates = << >>
    /\ to_check = << >>
    /\ compatibility_work = 0
    /\ failing_response = EmptyObject
    /\ pc = "construct"
    /\ error = "none"

Path == CHOOSE path \in ordered_paths : \A other \in ordered_paths : ~Before(other, path)
PathRules == RulesAt(policy, Path)

Raise(code) ==
    /\ pc' = "failed"
    /\ error' = code

AlreadySatisfied == AllPass(PathRules, passing_response)

SkipPath ==
    /\ pc = "construct"
    /\ ordered_paths # {}
    /\ AlreadySatisfied
    /\ constructed_rules' = constructed_rules \o PathRules
    /\ ordered_paths' = ordered_paths \ {Path}
    /\ UNCHANGED <<policy, passing_response, candidates, to_check,
                   compatibility_work, failing_response, pc, error>>

\* Mutant: candidates are not checked against the rules below.
BugNoDescendantRules == << >>

DescendantRules ==
    ElementsAt(constructed_rules,
        {i \in DOMAIN constructed_rules : IsBelow(constructed_rules[i].path, Path)})

BeginPath ==
    /\ pc = "construct"
    /\ ordered_paths # {}
    /\ ~AlreadySatisfied
    /\ candidates' = CandidateValues(PathRules)
    /\ to_check' = DescendantRules
    /\ IF candidates' = << >> THEN Raise("conflict")
                              ELSE pc' = "compare" /\ UNCHANGED error
    /\ UNCHANGED <<policy, ordered_paths, passing_response, constructed_rules,
                   compatibility_work, failing_response>>

\* _compatibility_cost of the comparison at hand.
Cost == IF to_check # << >> /\ Head(to_check).kind = "one_of"
        THEN Len(Head(to_check).values) ELSE 1

Candidate == Head(candidates)

Compatible ==
    to_check # << >> => Passes(Head(to_check), CandidateView(Path, Candidate))

\* The compatible candidate is assigned, over what is there.
Assigned(value) == AssignPath(passing_response, Path, value)

Charge == compatibility_work' = compatibility_work + Cost

WorkExceeded == compatibility_work + Cost > MAX_COMPATIBILITY_WORK

TooMuchWork ==
    /\ pc = "compare"
    /\ WorkExceeded
    /\ Charge
    /\ Raise("too_much_work")
    /\ UNCHANGED <<policy, ordered_paths, passing_response, constructed_rules,
                   candidates, to_check, failing_response>>

\* The candidate passes this rule, and there are more to check.
NextRule ==
    /\ pc = "compare"
    /\ ~WorkExceeded
    /\ Compatible
    /\ Len(to_check) > 1
    /\ Charge
    /\ to_check' = Tail(to_check)
    /\ UNCHANGED <<policy, ordered_paths, passing_response, constructed_rules,
                   candidates, failing_response, pc, error>>

\* The next candidate is checked against all rules below from the start.
RejectCandidate ==
    /\ pc = "compare"
    /\ ~WorkExceeded
    /\ ~Compatible
    /\ Charge
    /\ candidates' = Tail(candidates)
    /\ to_check' = DescendantRules
    /\ IF candidates' = << >> THEN Raise("no_candidate") ELSE UNCHANGED <<pc, error>>
    /\ UNCHANGED <<policy, ordered_paths, passing_response, constructed_rules,
                   failing_response>>

AcceptCandidate ==
    /\ pc = "compare"
    /\ ~WorkExceeded
    /\ Compatible
    /\ Len(to_check) <= 1
    /\ Charge
    /\ IF AssignRaises(passing_response, Path)
       THEN /\ Raise("nested_path")
            /\ UNCHANGED <<passing_response, constructed_rules, ordered_paths>>
       ELSE /\ passing_response' = Assigned(Candidate)
            /\ constructed_rules' = constructed_rules \o PathRules
            /\ ordered_paths' = ordered_paths \ {Path}
            /\ pc' = "construct"
            /\ UNCHANGED error
    /\ candidates' = << >>
    /\ to_check' = << >>
    /\ UNCHANGED <<policy, failing_response>>

\* Mutant: the whole member of the response goes.
BugDeletesTopMember == DeletePath(passing_response, Prefix(policy[1].path, 1))

\* _delete_path of the first declared rule.
FirstFieldDeleted == DeletePath(passing_response, policy[1].path)

\* Both cases are verified; a case that exceeds the JSON limits fails first.
Verify ==
    /\ pc = "construct"
    /\ ordered_paths = {}
    /\ \/ Raise("structural") /\ UNCHANGED failing_response
       \/ IF AllPass(policy, passing_response)
          THEN /\ failing_response' = FirstFieldDeleted
               /\ IF \/ failing_response' = passing_response
                     \/ AllPass(policy, failing_response')
                  THEN Raise("no_failing_case")
                  ELSE pc' = "done" /\ UNCHANGED error
          ELSE Raise("unverified_pass") /\ UNCHANGED failing_response
    /\ UNCHANGED <<policy, ordered_paths, passing_response, constructed_rules,
                   candidates, to_check, compatibility_work>>

Ended == pc \in {"done", "failed"} /\ UNCHANGED vars

Next ==
    \/ SkipPath \/ BeginPath
    \/ TooMuchWork \/ NextRule \/ RejectCandidate \/ AcceptCandidate
    \/ Verify
    \/ Ended

Spec == Init /\ [][Next]_vars

-----------------------------------------------------------------------------
(* Properties.                                                             *)

\* An assignment never undoes an earlier one: the rules of every path that is
\* done keep passing while shallower paths replace whole subtrees.
ConstructedRulesHold == AllPass(constructed_rules, passing_response)

\* The search is sound by construction: the verification at its end, and the
\* check for a nested path that cannot be used, never have to reject it.
GreedySearchIsSound == ConstructedRulesHold /\ error \notin Defensive

Satisfiable == \E document \in Documents : AllPass(policy, document)

\* README: a satisfiable policy fails closed for "an object length minimum
\* that its descendants do not already meet".
NeedsPaddedObject ==
    \E i \in DOMAIN policy :
        /\ policy[i].kind = "length" /\ policy[i].minimum # {}
        /\ \A document \in Documents :
              AllPass(policy, document) => ValueAt(document, policy[i].path).type = "object"

\* Greedy as it is, the search gives up on no policy that some response
\* passes, but for the objects that README says it does not pad.
FailureIsDeserved ==
    error \in {"conflict", "no_candidate"} => ~Satisfiable \/ NeedsPaddedObject

\* The failing case misses the first rule's field, and no rule fails in it
\* but those on the way to that field or below it.
FailingCaseIsTargeted ==
    pc = "done" =>
        /\ ReasonCode(policy[1], failing_response) = "FIELD_MISSING"
        /\ \A i \in DOMAIN policy :
              ~Passes(policy[i], failing_response) =>
                  \/ policy[i].path = policy[1].path
                  \/ IsBelow(policy[i].path, policy[1].path)
                  \/ IsBelow(policy[1].path, policy[i].path)
=============================================================================
