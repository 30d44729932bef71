--------------------------- MODULE PolicyAuthoring ---------------------------
(***************************************************************************)
(* A policy on its way through the library: validate_policy of policy.py   *)
(* takes a JSON document or a Policy that a caller built, policy_to_dict   *)
(* makes a document of what came out, and the two may be repeated.         *)
(*                                                                         *)
(* A rule of a document is a function from the fields it has to their      *)
(* values; a rule of a Policy has all fields, with the defaults of the     *)
(* dataclass.  A bound is a set of at most one number, empty for None.     *)
(* Abstracted: identifiers and paths are numbers and sequences of numbers, *)
(* with 0 and << >> for what does not match their patterns; a kind or type *)
(* that is no string is one that is unknown, a list that is none is empty. *)
(* The JSON limits, which JsonLimits models, hold for what is given, and   *)
(* then for each value in it.                                              *)
(***************************************************************************)
EXTENDS Lint, SequencesExt

CONSTANTS
    Given,              \* what may be given: documents and Policy objects
    MAX_POLICY_RULES,
    MAX_ONE_OF_VALUES,
    MAX_JSON_NESTING,
    MAX_LENGTH_BOUND,
    Responses           \* the responses the properties quantify over

\* The types of what JSON or the dataclasses can bring, whatever it says.
IsRecord(f) == f = [x \in DOMAIN f |-> f[x]]

IsBound(bound) ==
    bound.type \in {"integer", "number"} =>
        bound.halves \in Int /\ (bound.type = "integer" => bound.halves % 2 = 0)

IsRawRule(raw_rule) ==
    /\ IsRecord(raw_rule)
    /\ "path" \in DOMAIN raw_rule => raw_rule.path \in Seq(Nat)
    /\ "types" \in DOMAIN raw_rule => raw_rule.types \in Seq(STRING)
    /\ "minimum" \in DOMAIN raw_rule => IsBound(raw_rule.minimum)
    /\ "maximum" \in DOMAIN raw_rule => IsBound(raw_rule.maximum)

IsBuiltRule(rule) ==
    /\ IsRecord(rule) /\ DOMAIN rule = RuleFields \cup {"rule_id"}
    /\ rule.path \in Seq(Nat)
    /\ rule.types \in Seq(STRING)
    /\ \A bound \in rule.minimum \cup rule.maximum : IsBound(bound)
    /\ \A a, b \in rule.minimum : a = b
    /\ \A a, b \in rule.maximum : a = b

Members == {"schema_version", "policy_id", "rules"}

IsArgument(argument) ==
    /\ argument = [form |-> argument.form, members |-> argument.members,
                   schema_version |-> argument.schema_version,
                   policy_id |-> argument.policy_id, rules |-> argument.rules]
    /\ argument.form = "policy" => argument.members = Members
    /\ IsRecord(argument.rules)
    /\ Len(argument.rules) \in Nat /\ DOMAIN argument.rules = 1..Len(argument.rules)
    /\ \A i \in DOMAIN argument.rules :
          IF argument.form = "policy" THEN IsBuiltRule(argument.rules[i])
          ELSE IsRawRule(argument.rules[i])

ASSUME GivenAssumption == \A argument \in Given : IsArgument(argument)

ASSUME BoundsAssumption ==
    /\ MAX_POLICY_RULES \in Nat /\ MAX_ONE_OF_VALUES \in Nat
    /\ MAX_JSON_NESTING \in Nat /\ MAX_LENGTH_BOUND \in Nat

SCHEMA_1_0_RULE_KINDS == {"required_field", "equals", "one_of", "false", "empty_list"}

AllowedKinds(schema_version) ==
    IF schema_version = "1.0" THEN SCHEMA_1_0_RULE_KINDS ELSE Kinds

BoundFields == {"minimum", "maximum"}

\* The fields that a kind of rule may have besides rule_id, kind and path.
OwnFields(kind) ==
    CASE kind = "equals" -> {"value"}
      [] kind = "one_of" -> {"values"}
      [] kind = "type" -> {"types"}
      [] kind \in {"range", "length"} -> BoundFields
      [] OTHER -> {}

Default ==
    [value |-> Null, values |-> << >>, types |-> << >>, minimum |-> {}, maximum |-> {}]

-----------------------------------------------------------------------------
(* The checks of one rule, in their order.                                 *)

KnownKind(raw_rule, schema_version) ==
    "kind" \in DOMAIN raw_rule /\ raw_rule.kind \in AllowedKinds(schema_version)

\* Bounds are optional here; that there is one is checked later.
ExactFields(raw_rule) ==
    DOMAIN raw_rule \ (OwnFields(raw_rule.kind) \cap BoundFields)
      = {"rule_id", "kind", "path"} \cup (OwnFields(raw_rule.kind) \ BoundFields)

ValidPath(path) == path # << >> /\ Len(path) <= MAX_JSON_NESTING

ValidValues(values) ==
    values # << >> /\ Len(values) <= MAX_ONE_OF_VALUES /\ IsInjective(values)

\* _ALL_VALUE_TYPES
AllValueTypes == Types \ {"integer"}

\* Mutant: number beside integer is let through.
BugTypesOverlap(types) ==
    /\ types # << >>
    /\ ToSet(types) \subseteq Types
    /\ IsInjective(types)
    /\ ~(AllValueTypes \subseteq ToSet(types))

\* _check_types
ValidTypes(types) ==
    /\ types # << >>
    /\ ToSet(types) \subseteq Types
    /\ IsInjective(types)
    /\ ~({"integer", "number"} \subseteq ToSet(types))
    /\ ~(AllValueTypes \subseteq ToSet(types))

ValidBound(kind, bound) ==
    IF kind = "range" THEN bound.type \in {"integer", "number"}
    ELSE bound.type = "integer" /\ bound.halves \in 0..2 * MAX_LENGTH_BOUND

Bound(raw_rule, field) == IF field \in DOMAIN raw_rule THEN {raw_rule[field]} ELSE {}

\* _check_bounds
ValidBounds(raw_rule) ==
    LET low == Bound(raw_rule, "minimum")
        high == Bound(raw_rule, "maximum")
    IN /\ \A bound \in low \cup high : ValidBound(raw_rule.kind, bound)
       /\ low \cup high # {}
       /\ \A a \in low, b \in high : a.halves <= b.halves

\* Mutant: an identifier that occurs again is not noticed.
BugIdRepeats(raw_rule, schema_version, seen_rule_ids) ==
    /\ KnownKind(raw_rule, schema_version)
    /\ ExactFields(raw_rule)
    /\ raw_rule.rule_id # 0
    /\ ValidPath(raw_rule.path)
    /\ raw_rule.kind = "one_of" => ValidValues(raw_rule.values)
    /\ raw_rule.kind = "type" => ValidTypes(raw_rule.types)
    /\ raw_rule.kind \in {"range", "length"} => ValidBounds(raw_rule)

ValidRule(raw_rule, schema_version, seen_rule_ids) ==
    /\ KnownKind(raw_rule, schema_version)
    /\ ExactFields(raw_rule)
    /\ raw_rule.rule_id \notin {0} \cup seen_rule_ids
    /\ ValidPath(raw_rule.path)
    /\ raw_rule.kind = "one_of" => ValidValues(raw_rule.values)
    /\ raw_rule.kind = "type" => ValidTypes(raw_rule.types)
    /\ raw_rule.kind \in {"range", "length"} => ValidBounds(raw_rule)

-----------------------------------------------------------------------------
(* Rules of a Policy, and back.                                            *)

\* Rule(rule_id=..., kind=..., path=..., <own fields>)
ConstructedRule(raw_rule) ==
    [rule_id |-> raw_rule.rule_id, kind |-> raw_rule.kind, path |-> raw_rule.path,
     value   |-> IF "value" \in DOMAIN raw_rule THEN raw_rule.value ELSE Default.value,
     values  |-> IF "values" \in DOMAIN raw_rule THEN raw_rule.values ELSE Default.values,
     types   |-> IF "types" \in DOMAIN raw_rule THEN raw_rule.types ELSE Default.types,
     minimum |-> Bound(raw_rule, "minimum"),
     maximum |-> Bound(raw_rule, "maximum")]

\* Mutant: a bound of zero is taken for none.
BugZeroIsNone(rule) ==
    {"rule_id", "kind", "path"}
      \cup {field \in OwnFields(rule.kind) :
               field \in BoundFields => \E bound \in rule[field] : bound # Integer(0)}

\* The fields policy_to_dict writes: a bound only when there is one.
DeclaredFields(rule) ==
    {"rule_id", "kind", "path"}
      \cup {field \in OwnFields(rule.kind) : field \in BoundFields => rule[field] # {}}

RawRule(rule) ==
    [field \in DeclaredFields(rule) |->
        IF field \in BoundFields THEN CHOOSE bound \in rule[field] : TRUE ELSE rule[field]]

\* policy_to_dict
PolicyToDict(policy) ==
    [form |-> "document", members |-> Members,
     schema_version |-> policy.schema_version, policy_id |-> policy.policy_id,
     rules |-> [i \in DOMAIN policy.rules |-> RawRule(policy.rules[i])]]

\* Mutant: only the values of equals and one_of are looked at.
BugBoundsOverlooked(rule) ==
    \E field \in {"value", "values", "types"} :
        field \notin OwnFields(rule.kind) /\ rule[field] # Default[field]

\* "contains fields not supported by its rule kind": policy_to_dict would not
\* write them.
HasIrrelevantField(rule) ==
    \E field \in DOMAIN Default :
        field \notin OwnFields(rule.kind) /\ rule[field] # Default[field]

-----------------------------------------------------------------------------
(* validate_policy, one step for each rule.                                *)

VARIABLES
    given,     \* the argument: a document, a Policy, or something else
    rules,     \* the rules constructed so far
    pc,        \* start, rules, valid or invalid (and explain, see Explain)
    error,     \* the rule that the error names, by position and identifier
    accepted   \* the Policy that an earlier call returned: at most one

vars == <<given, rules, pc, error, accepted>>

NoError == [rule_index |-> 0, rule_id |-> 0]

Init ==
    /\ given \in Given
    /\ rules = << >>
    /\ pc = "start"
    /\ error = NoError
    /\ accepted = {}

Raise(index, rule_id) ==
    /\ pc' = "invalid"
    /\ error' = [rule_index |-> index, rule_id |-> rule_id]
    /\ UNCHANGED <<given, rules, accepted>>

raw_policy == IF given.form = "policy" THEN PolicyToDict(given) ELSE given

Irrelevant ==
    IF given.form = "policy"
    THEN SelectInSeq(given.rules, HasIrrelevantField) ELSE 0

RefuseFields ==
    /\ pc = "start"
    /\ Irrelevant # 0
    /\ Raise(Irrelevant, given.rules[Irrelevant].rule_id)

ValidMembers ==
    /\ raw_policy.form = "document"
    /\ raw_policy.members = Members
    /\ raw_policy.schema_version \in {"1.0", "1.1"}
    /\ raw_policy.policy_id # 0
    /\ raw_policy.rules # << >>
    /\ Len(raw_policy.rules) <= MAX_POLICY_RULES

RefusePolicy ==
    /\ pc = "start"
    /\ Irrelevant = 0
    /\ ~ValidMembers
    /\ Raise(0, 0)

BeginRules ==
    /\ pc = "start"
    /\ Irrelevant = 0
    /\ ValidMembers
    /\ pc' = "rules"
    /\ UNCHANGED <<given, rules, error, accepted>>

NextRule == raw_policy.rules[Len(rules) + 1]

seen_rule_ids == {rules[i].rule_id : i \in DOMAIN rules}

NextIsValid == ValidRule(NextRule, raw_policy.schema_version, seen_rule_ids)

RefuseRule ==
    /\ pc = "rules"
    /\ Len(rules) < Len(raw_policy.rules)
    /\ ~NextIsValid
    /\ Raise(Len(rules) + 1,
             IF "rule_id" \in DOMAIN NextRule THEN NextRule.rule_id ELSE 0)

AddRule ==
    /\ pc = "rules"
    /\ Len(rules) < Len(raw_policy.rules)
    /\ NextIsValid
    /\ rules' = Append(rules, ConstructedRule(NextRule))
    /\ UNCHANGED <<given, pc, error, accepted>>

Return ==
    /\ pc = "rules"
    /\ Len(rules) = Len(raw_policy.rules)
    /\ pc' = "valid"
    /\ UNCHANGED <<given, rules, error, accepted>>

\* What validate_policy returned.
ThePolicy ==
    [form |-> "policy", members |-> raw_policy.members,
     schema_version |-> raw_policy.schema_version, policy_id |-> raw_policy.policy_id,
     rules |-> rules]

\* Every command calls validate_policy again on the Policy it was handed, and
\* a caller may store policy_to_dict of it and read it back.
ValidateAgain ==
    /\ pc = "valid"
    /\ accepted = {}
    /\ accepted' = {ThePolicy}
    /\ given' \in {ThePolicy, PolicyToDict(ThePolicy)}
    /\ pc' = "start"
    /\ rules' = << >>
    /\ UNCHANGED error

Ended ==
    /\ pc = "invalid" \/ (pc = "valid" /\ accepted # {})
    /\ UNCHANGED vars

Next ==
    \/ RefuseFields \/ RefusePolicy \/ BeginRules
    \/ RefuseRule \/ AddRule \/ Return
    \/ ValidateAgain
    \/ Ended

Spec == Init /\ [][Next]_vars

-----------------------------------------------------------------------------
(* Properties.                                                             *)

\* A bound as the evaluator measures with it.
Measure(rule, bounds) ==
    {IF rule.kind = "length" THEN bound.halves \div 2 ELSE bound.halves : bound \in bounds}

\* The rule as the evaluator and everything built on it knows it.
AsRule(rule) ==
    [rule EXCEPT !.types = ToSet(@), !.minimum = Measure(rule, @),
                 !.maximum = Measure(rule, @)]

AsRules(rule_list) == [i \in DOMAIN rule_list |-> AsRule(rule_list[i])]

\* Every policy that gets through is what the evaluator, lint and the search
\* for cases take for granted: well-formed rules of the declared version, each
\* with its own identifier.
AcceptedIsWellFormed ==
    pc = "valid" =>
        /\ rules # << >>
        /\ \A i \in DOMAIN rules :
              /\ IsRule(AsRules(rules)[i])
              /\ rules[i].kind \in AllowedKinds(given.schema_version)
              /\ \A j \in DOMAIN rules : rules[i].rule_id = rules[j].rule_id => i = j

\* What a rule would have to be for the document to declare it.
IsDeclarable(raw_rule) ==
    /\ {"rule_id", "kind", "path"} \subseteq DOMAIN raw_rule
    /\ LET rule == ConstructedRule(raw_rule) IN
       /\ raw_rule = RawRule(rule)
       /\ rule.rule_id # 0
       /\ rule.kind \in AllowedKinds(raw_policy.schema_version)
       /\ Len(rule.path) <= MAX_JSON_NESTING
       /\ Len(rule.values) <= MAX_ONE_OF_VALUES
       /\ IsInjective(rule.types)
       /\ \A bound \in rule.minimum \cup rule.maximum :
             /\ bound.type \in {"integer", "number"}
             /\ rule.kind = "length" =>
                    bound.type = "integer" /\ bound.halves <= 2 * MAX_LENGTH_BOUND
       /\ IsRule(AsRule(rule))

\* The rules up to one position could be a policy of their own.
DeclarableUpTo(n) ==
    \A i \in 1..n :
        /\ IsDeclarable(raw_policy.rules[i])
        /\ \A j \in 1..n :
              raw_policy.rules[i].rule_id = raw_policy.rules[j].rule_id => i = j

\* Validation only says yes or no.  What it returns declares exactly what it
\* was given, so no field is lost on the way through a Policy; what it returned
\* once it returns again, whether handed over as it is or stored and read; and
\* the error names the first rule that cannot be part of a policy.
ValidationIsExact ==
    /\ pc = "valid" =>
        /\ PolicyToDict(ThePolicy) = raw_policy
        /\ given.form = "policy" => ThePolicy = given
        /\ DeclarableUpTo(Len(rules))
    /\ accepted # {} =>
        /\ pc # "invalid"
        /\ pc = "valid" => accepted = {ThePolicy}
    /\ pc = "invalid" /\ error.rule_index > 0 =>
        \/ error.rule_index = Irrelevant
        \/ /\ DeclarableUpTo(error.rule_index - 1)
           /\ ~DeclarableUpTo(error.rule_index)

\* What lint_policy reports of any policy that validate_policy lets through is
\* real: no response passes a policy with a conflict, and rules reported as
\* duplicates say the same of every response.
LintFindingsAreReal ==
    pc = "valid" =>
        /\ HasConflicts(AsRules(rules)) =>
              \A response \in Responses : ~AllPass(AsRules(rules), response)
        /\ \A pair \in Duplicates(AsRules(rules)) : \A response \in Responses :
              ReasonCode(AsRules(rules)[pair[1]], response)
                = ReasonCode(AsRules(rules)[pair[2]], response)
=============================================================================
