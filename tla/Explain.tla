------------------------------- MODULE Explain -------------------------------
(***************************************************************************)
(* explain_response of explain.py, on the policy that validate_policy      *)
(* returns to it: rule by rule, it walks the rule's path through the       *)
(* response a second time, segment by segment, to say where the walk       *)
(* stopped and what it found.  The verdict it explains comes from          *)
(* evaluator.py, which looks the field up by itself.                       *)
(***************************************************************************)
EXTENDS PolicyAuthoring

CONSTANT
    Values          \* the values that responses are made of

\* What json_type_name and len() can rely on.
IsJsonValue(value) ==
    /\ value.type \in Types
    /\ value.type \in {"integer", "number"} => value.halves \in Int
    /\ value.type = "string" => value.length \in Nat
    /\ value.type = "array" => Len(value.items) \in Nat
    /\ value.type = "object" =>
          /\ IsFiniteSet(DOMAIN value.members)
          /\ \A name \in DOMAIN value.members : value.members[name] \in Values

ASSUME ResponsesAssumption ==
    /\ \A value \in Values : IsJsonValue(value)
    /\ \A document \in Responses : document \in Values /\ document.type = "object"

VARIABLES
    response,       \* Absent until validate_policy has returned
    current_value,  \* where the walk of the current rule is
    traversed,      \* the segments it has taken
    explanations    \* a record for each rule explained

explain_vars == <<vars, response, current_value, traversed, explanations>>

\* current.rules
policy == AsRules(rules)

\* Mutant: an integer is not counted among the numbers.
BugNumberIsNotInteger(rule) ==
    CASE rule.kind = "equals" -> {rule.value.type}
      [] rule.kind = "one_of" -> {rule.values[i].type : i \in DOMAIN rule.values}
      [] rule.kind = "false" -> {"boolean"}
      [] rule.kind = "empty_list" -> {"array"}
      [] rule.kind = "type" -> rule.types
      [] rule.kind = "range" -> {"integer", "number"}
      [] rule.kind = "length" -> {"array", "object", "string"}
      [] rule.kind = "required_field" -> Types

\* _expected_types; all types for None.
ExpectedTypes(rule) ==
    CASE rule.kind = "equals" -> {rule.value.type}
      [] rule.kind = "one_of" -> {rule.values[i].type : i \in DOMAIN rule.values}
      [] rule.kind = "false" -> {"boolean"}
      [] rule.kind = "empty_list" -> {"array"}
      [] rule.kind = "type" ->
            rule.types \cup (IF "number" \in rule.types THEN {"integer"} ELSE {})
      [] rule.kind = "range" -> {"integer", "number"}
      [] rule.kind = "length" -> {"array", "object", "string"}
      [] rule.kind = "required_field" -> Types

\* Mutant: the bound is named for whatever is found.
BugBoundOfAnything(rule, value) ==
    IF rule.kind \notin {"range", "length"} THEN "none"
    ELSE IF /\ value.type \in ExpectedTypes(rule)
            /\ \E low \in rule.minimum :
                  (IF rule.kind = "range" THEN value.halves ELSE Length(value)) < low
         THEN "minimum" ELSE "maximum"

\* _violated_bound of a failed rule: what is not below the minimum is taken
\* to be above the maximum.
ViolatedBound(rule, value) ==
    IF rule.kind \notin {"range", "length"} \/ value.type \notin ExpectedTypes(rule)
    THEN "none"
    ELSE LET measured == IF rule.kind = "range" THEN value.halves ELSE Length(value)
         IN IF \E low \in rule.minimum : measured < low THEN "minimum" ELSE "maximum"

ExplainInit ==
    /\ Init
    /\ response = Absent
    /\ current_value = Absent
    /\ traversed = << >>
    /\ explanations = << >>

\* validate_policy(policy)
Validate ==
    /\ Next
    /\ UNCHANGED <<response, current_value, traversed, explanations>>

Begin ==
    /\ pc = "valid" /\ accepted = {}
    /\ pc' = "explain"
    /\ response' \in Responses
    /\ current_value' = response'
    /\ UNCHANGED <<given, rules, error, accepted, traversed, explanations>>

Running == pc = "explain" /\ Len(explanations) < Len(policy)

Rule == policy[Len(explanations) + 1]

Segment == Rule.path[Len(traversed) + 1]

\* explanations.append(detail), and the next rule starts at the top again.
Explained(resolution, at, observed_type, violated_bound) ==
    /\ explanations' = Append(explanations,
            [reason_code |-> ReasonCode(Rule, response), resolution |-> resolution,
             at |-> at, observed_type |-> observed_type,
             violated_bound |-> violated_bound])
    /\ current_value' = response
    /\ traversed' = << >>
    /\ UNCHANGED <<vars, response>>

\* Mutant: the walk of the next rule starts where this one stopped.
BugWalkNotReset ==
    /\ Running
    /\ traversed # Rule.path
    /\ current_value.type # "object"
    /\ explanations' = Append(explanations,
            [reason_code |-> ReasonCode(Rule, response),
             resolution |-> "parent_not_object", at |-> traversed,
             observed_type |-> "none", violated_bound |-> "none"])
    /\ traversed' = << >>
    /\ UNCHANGED <<vars, response, current_value>>

ParentNotObject ==
    /\ Running
    /\ traversed # Rule.path
    /\ current_value.type # "object"
    /\ Explained("parent_not_object", traversed, "none", "none")

\* Mutant: the absent member is not appended before it is reported.
BugReportsTheParent ==
    /\ Running
    /\ traversed # Rule.path
    /\ current_value.type = "object"
    /\ Segment \notin DOMAIN current_value.members
    /\ Explained("member_absent", traversed, "none", "none")

MemberAbsent ==
    /\ Running
    /\ traversed # Rule.path
    /\ current_value.type = "object"
    /\ Segment \notin DOMAIN current_value.members
    /\ Explained("member_absent", Append(traversed, Segment), "none", "none")

Descend ==
    /\ Running
    /\ traversed # Rule.path
    /\ Member(current_value, Segment) # Absent
    /\ current_value' = Member(current_value, Segment)
    /\ traversed' = Append(traversed, Segment)
    /\ UNCHANGED <<vars, response, explanations>>

Resolve ==
    /\ Running
    /\ traversed = Rule.path
    /\ Explained("resolved", << >>, current_value.type,
                 IF Passes(Rule, response) THEN "none"
                 ELSE ViolatedBound(Rule, current_value))

AllExplained == pc = "explain" /\ ~Running /\ UNCHANGED explain_vars

ExplainNext ==
    \/ Validate \/ Begin
    \/ ParentNotObject \/ MemberAbsent \/ Descend \/ Resolve \/ AllExplained

ExplainSpec == ExplainInit /\ [][ExplainNext]_explain_vars

-----------------------------------------------------------------------------
(* Properties.                                                             *)

\* The second walk and the evaluator's own lookup agree, at every segment and
\* on whether the field is there, and the type that is reported as found is one
\* of the expected types whenever the rule passed ("a necessary condition for a
\* pass").
ExplanationFitsVerdict ==
    /\ pc = "explain" => current_value = ValueAt(response, traversed)
    /\ \A i \in DOMAIN explanations :
           LET told == explanations[i] IN
           /\ told.resolution = "resolved" <=> told.reason_code # "FIELD_MISSING"
           /\ told.reason_code = "RULE_SATISFIED"
                => told.observed_type \in ExpectedTypes(policy[i])

\* A walk that fails names the place: of an absent member the parent is an
\* object without it, and of a parent that is no object every ancestor is one.
ObstacleIsGenuine ==
    \A i \in DOMAIN explanations :
        LET told == explanations[i] IN
        /\ told.resolution = "member_absent" =>
             /\ told.at \in {Prefix(policy[i].path, n) : n \in 1..Len(policy[i].path)}
             /\ ValueAt(response, told.at) = Absent
             /\ ValueAt(response, Prefix(told.at, Len(told.at) - 1)).type = "object"
        /\ told.resolution = "parent_not_object" =>
             /\ IsBelow(policy[i].path, told.at)
             /\ ValueAt(response, told.at).type \notin {"object", "absent"}

\* A bound is named exactly when a range or length rule fails on a value it
\* can measure, and it is a bound the rule has and the value crosses.
ViolatedBoundIsGenuine ==
    \A i \in DOMAIN explanations :
        LET rule == policy[i]
            told == explanations[i]
            value == ValueAt(response, rule.path)
            measured == IF rule.kind = "range" THEN value.halves ELSE Length(value)
        IN /\ (told.violated_bound # "none") =
                /\ rule.kind \in {"range", "length"}
                /\ told.reason_code \notin {"RULE_SATISFIED", "FIELD_MISSING"}
                /\ told.observed_type \in ExpectedTypes(rule)
           /\ told.violated_bound = "minimum" => \E low \in rule.minimum : measured < low
           /\ told.violated_bound = "maximum" => \E high \in rule.maximum : measured > high

\* An explanation agrees with the verdict, and what it adds is true of the
\* response: the place where the path ends, and the bound that is crossed.
ExplanationIsGenuine ==
    ExplanationFitsVerdict /\ ObstacleIsGenuine /\ ViolatedBoundIsGenuine
=============================================================================
