------------------------------ MODULE Evaluator ------------------------------
(***************************************************************************)
(* evaluator.py: what each kind of rule says of a response.                *)
(*                                                                         *)
(* A rule is the dataclass Rule; a bound is a set of at most one number,   *)
(* empty for None, and the bounds of a range rule are in halves.  Policies *)
(* and responses are validated ones: every value has a canonical marker,   *)
(* so a compiled rule and a lazily matched one compare the same values.    *)
(***************************************************************************)
EXTENDS JsonValues, FiniteSets

Types == {"null", "boolean", "integer", "number", "string", "array", "object"}

Kinds == {"required_field", "equals", "one_of", "false", "empty_list",
          "type", "range", "length"}

\* The fields of the dataclass that the rules differ in.
RuleFields == {"kind", "path", "value", "values", "types", "minimum", "maximum"}

\* What validate_policy leaves of a rule: only the fields of its kind differ
\* from the defaults of the dataclass.
IsRule(rule) ==
    /\ rule = [field \in DOMAIN rule |-> rule[field]] /\ RuleFields \subseteq DOMAIN rule
    /\ rule.kind \in Kinds
    /\ rule.path \in Seq(Nat) /\ rule.path # << >>
    /\ rule.kind # "equals" => rule.value = Null
    /\ IF rule.kind = "one_of"
       THEN /\ rule.values # << >>
            /\ \A i, j \in DOMAIN rule.values : rule.values[i] = rule.values[j] => i = j
       ELSE rule.values = << >>
    /\ IF rule.kind = "type"
       THEN /\ rule.types # {} /\ rule.types \subseteq Types
            /\ ~({"integer", "number"} \subseteq rule.types)
            /\ ~(Types \ {"integer"} \subseteq rule.types)
       ELSE rule.types = {}
    /\ IF rule.kind \in {"range", "length"}
       THEN /\ rule.minimum \cup rule.maximum # {}
            /\ \A low \in rule.minimum, high \in rule.maximum : low <= high
            /\ rule.kind = "length" => \A n \in rule.minimum \cup rule.maximum : n >= 0
       ELSE rule.minimum \cup rule.maximum = {}

Within(observed, rule) ==
    /\ \A low \in rule.minimum : low <= observed
    /\ \A high \in rule.maximum : observed <= high

TypeMatches(value, types) ==
    value.type \in types \/ (value.type = "integer" /\ "number" \in types)

\* len() of a string, an array or an object.
Length(value) ==
    CASE value.type = "string" -> value.length
      [] value.type = "array"  -> Len(value.items)
      [] value.type = "object" -> Cardinality(DOMAIN value.members)

\* `passed`, once the field is found.
Satisfies(rule, value) ==
    CASE rule.kind = "required_field" -> TRUE
      [] rule.kind = "equals" -> value = rule.value
      [] rule.kind = "one_of" -> \E i \in DOMAIN rule.values : rule.values[i] = value
      [] rule.kind = "false" -> value = Boolean("false")
      [] rule.kind = "empty_list" -> value = Array(<< >>)
      [] rule.kind = "type" -> TypeMatches(value, rule.types)
      [] rule.kind = "range" ->
            value.type \in {"integer", "number"} /\ Within(value.halves, rule)
      [] rule.kind = "length" ->
            value.type \in {"string", "array", "object"} /\ Within(Length(value), rule)

FAILURE_REASON_BY_KIND ==
    [equals |-> "VALUE_NOT_EQUAL", one_of |-> "VALUE_NOT_ALLOWED",
     false |-> "VALUE_NOT_FALSE", empty_list |-> "VALUE_NOT_EMPTY_LIST",
     type |-> "VALUE_WRONG_TYPE", range |-> "VALUE_OUT_OF_RANGE",
     length |-> "VALUE_LENGTH_OUT_OF_RANGE"]

\* _evaluate_rule: the reason code; the rule passed iff it is RULE_SATISFIED.
ReasonCode(rule, response) ==
    LET observed == ValueAt(response, rule.path)
    IN IF observed = Absent THEN "FIELD_MISSING"
       ELSE IF Satisfies(rule, observed) THEN "RULE_SATISFIED"
       ELSE FAILURE_REASON_BY_KIND[rule.kind]

Passes(rule, response) == ReasonCode(rule, response) = "RULE_SATISFIED"

\* `passed` of evaluate_response: no rule is optional.
AllPass(policy, response) == \A i \in DOMAIN policy : Passes(policy[i], response)

\* reachable_reason_codes of coverage.py.
ReachableReasonCodes(kind) ==
    {"RULE_SATISFIED", "FIELD_MISSING"}
      \cup (IF kind \in DOMAIN FAILURE_REASON_BY_KIND
            THEN {FAILURE_REASON_BY_KIND[kind]} ELSE {})
=============================================================================
