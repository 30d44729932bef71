----------------------------- MODULE ExplainProofs -----------------------------
(***************************************************************************)
(* What validate_policy lets through and what it says of the rest, for any *)
(* document or Policy object and any limits; what lint_policy may          *)
(* therefore say of a policy, and what explain_response says of a response.*)
(***************************************************************************)
EXTENDS Explain, LintProofs, FiniteSetTheorems

-----------------------------------------------------------------------------
(* Sequences of rules, of which nothing is known but their positions.      *)

LEMMA IsSequence ==
    ASSUME NEW s, IsRecord(s), Len(s) \in Nat, DOMAIN s = 1..Len(s),
           NEW S, \A i \in DOMAIN s : s[i] \in S
    PROVE  s \in Seq(S)
<1>1. s \in [1..Len(s) -> S]
    BY DEF IsRecord
<1> QED
    BY <1>1

LEMMA SequencesAreRecords ==
    ASSUME NEW S, NEW s \in Seq(S)
    PROVE  IsRecord(s)
<1>1. s \in [1..Len(s) -> S]
    OBVIOUS
<1> QED
    BY <1>1 DEF IsRecord

LEMMA AppendFacts ==
    ASSUME NEW s, IsRecord(s), Len(s) \in Nat, DOMAIN s = 1..Len(s), NEW e
    PROVE  /\ IsRecord(Append(s, e))
           /\ Len(Append(s, e)) = Len(s) + 1
           /\ DOMAIN Append(s, e) = 1..(Len(s) + 1)
           /\ Append(s, e)[Len(s) + 1] = e
           /\ \A i \in 1..Len(s) : Append(s, e)[i] = s[i]
<1> DEFINE S == {s[i] : i \in DOMAIN s} \cup {e}
<1>1. s \in Seq(S)
    BY IsSequence
<1>2. e \in S
    OBVIOUS
<1> HIDE DEF S
<1>3. Append(s, e) \in Seq(S)
    BY <1>1, <1>2
<1>4. /\ Len(Append(s, e)) = Len(s) + 1
      /\ Append(s, e)[Len(s) + 1] = e
      /\ \A i \in 1..Len(s) : Append(s, e)[i] = s[i]
    BY <1>1, <1>2
<1>5. DOMAIN Append(s, e) = 1..Len(Append(s, e))
    BY <1>3
<1>6. IsRecord(Append(s, e))
    BY <1>3, SequencesAreRecords
<1>7. DOMAIN Append(s, e) = 1..(Len(s) + 1)
    BY <1>4, <1>5, Zenon
<1> QED
    BY <1>4, <1>6, <1>7, Zenon

-----------------------------------------------------------------------------
(* One rule.                                                               *)

\* The fields of a valid rule are those of its kind.
LEMMA OwnFieldsOnly ==
    ASSUME NEW raw, NEW version, NEW seen, ValidRule(raw, version, seen)
    PROVE  /\ raw.kind \in Kinds
           /\ "value" \in DOMAIN raw <=> raw.kind = "equals"
           /\ "values" \in DOMAIN raw <=> raw.kind = "one_of"
           /\ "types" \in DOMAIN raw <=> raw.kind = "type"
           /\ "minimum" \in DOMAIN raw => raw.kind \in {"range", "length"}
           /\ "maximum" \in DOMAIN raw => raw.kind \in {"range", "length"}
           /\ "path" \in DOMAIN raw
<1>1. raw.kind \in Kinds
    BY DEF ValidRule, KnownKind, AllowedKinds, SCHEMA_1_0_RULE_KINDS, Kinds
<1>2. ExactFields(raw)
    BY DEF ValidRule
<1>3. \A field : field \notin BoundFields =>
          (field \in DOMAIN raw <=>
              field \in {"rule_id", "kind", "path"} \/ field \in OwnFields(raw.kind))
    BY <1>2, Zenon DEF ExactFields
<1>4. \A field \in BoundFields : field \in DOMAIN raw => field \in OwnFields(raw.kind)
    <2>1. \A field \in BoundFields : field \notin {"rule_id", "kind", "path"}
        BY DEF BoundFields
    <2> QED
        BY <1>2, <2>1, Zenon DEF ExactFields
<1>5. /\ "value" \notin BoundFields /\ "values" \notin BoundFields
      /\ "types" \notin BoundFields /\ "path" \notin BoundFields
      /\ "minimum" \in BoundFields /\ "maximum" \in BoundFields
    BY DEF BoundFields
<1>6. /\ "value" \in OwnFields(raw.kind) <=> raw.kind = "equals"
      /\ "values" \in OwnFields(raw.kind) <=> raw.kind = "one_of"
      /\ "types" \in OwnFields(raw.kind) <=> raw.kind = "type"
      /\ "minimum" \in OwnFields(raw.kind) <=> raw.kind \in {"range", "length"}
      /\ "maximum" \in OwnFields(raw.kind) <=> raw.kind \in {"range", "length"}
    BY <1>1 DEF OwnFields, BoundFields, Kinds
<1> QED
    BY <1>1, <1>3, <1>4, <1>5, <1>6

\* A valid rule becomes one the evaluator knows, with bounds to measure with.
LEMMA ValidRuleIsRule ==
    ASSUME NEW raw, IsRawRule(raw), NEW version, NEW seen, ValidRule(raw, version, seen)
    PROVE  /\ IsRule(AsRule(ConstructedRule(raw)))
           /\ IsBuiltRule(ConstructedRule(raw))
           /\ ConstructedRule(raw).kind \in AllowedKinds(version)
           /\ ConstructedRule(raw).rule_id \notin seen
<1> DEFINE rule == ConstructedRule(raw)
<1>1. /\ rule.rule_id = raw.rule_id /\ rule.kind = raw.kind /\ rule.path = raw.path
      /\ rule.minimum = Bound(raw, "minimum") /\ rule.maximum = Bound(raw, "maximum")
      /\ DOMAIN rule = RuleFields \cup {"rule_id"}
    BY DEF ConstructedRule, RuleFields
<1>2. /\ rule.value = IF "value" \in DOMAIN raw THEN raw.value ELSE Null
      /\ rule.values = IF "values" \in DOMAIN raw THEN raw.values ELSE << >>
      /\ rule.types = IF "types" \in DOMAIN raw THEN raw.types ELSE << >>
    BY DEF ConstructedRule, Default
<1>3. /\ AsRule(rule).kind = rule.kind /\ AsRule(rule).path = rule.path
      /\ AsRule(rule).value = rule.value /\ AsRule(rule).values = rule.values
      /\ AsRule(rule).types = ToSet(rule.types)
      /\ AsRule(rule).minimum = Measure(rule, rule.minimum)
      /\ AsRule(rule).maximum = Measure(rule, rule.maximum)
      /\ DOMAIN AsRule(rule) = DOMAIN rule
      /\ AsRule(rule) = [field \in DOMAIN AsRule(rule) |-> AsRule(rule)[field]]
    BY <1>1 DEF AsRule, RuleFields
<1> HIDE DEF rule
<1>4. /\ raw.kind \in AllowedKinds(version) /\ raw.rule_id \notin seen
      /\ raw.path # << >> /\ raw.path \in Seq(Nat)
    BY OwnFieldsOnly DEF ValidRule, KnownKind, ValidPath, IsRawRule
<1>5. rule.types \in Seq(STRING)
    <2>1. CASE "types" \in DOMAIN raw
        BY <1>2, <2>1 DEF IsRawRule
    <2>2. CASE "types" \notin DOMAIN raw
        <3>1. rule.types = << >>
            BY <1>2, <2>2
        <3>2. << >> \in Seq(STRING)
            OBVIOUS
        <3> QED
            BY <3>1, <3>2, Zenon
    <2> QED
        BY <2>1, <2>2
<1>6. \A bound \in rule.minimum \cup rule.maximum : IsBound(bound)
    BY <1>1 DEF Bound, IsRawRule
<1>7. IF rule.kind = "one_of"
      THEN rule.values # << >>
           /\ \A i, j \in DOMAIN rule.values : rule.values[i] = rule.values[j] => i = j
      ELSE rule.values = << >>
    BY <1>1, <1>2, OwnFieldsOnly DEF ValidRule, ValidValues, IsInjective
<1>8. IF rule.kind = "type"
      THEN /\ ToSet(rule.types) # {} /\ ToSet(rule.types) \subseteq Types
           /\ ~({"integer", "number"} \subseteq ToSet(rule.types))
           /\ ~(Types \ {"integer"} \subseteq ToSet(rule.types))
      ELSE ToSet(rule.types) = {}
    <2>1. CASE rule.kind = "type"
        <3>1. rule.types # << >> /\ ValidTypes(rule.types)
            BY <1>1, <1>2, <2>1, OwnFieldsOnly DEF ValidRule, ValidTypes
        <3>2. 1 \in DOMAIN rule.types
            BY <1>5, <3>1
        <3>3. rule.types[1] \in ToSet(rule.types)
            BY <3>2 DEF ToSet
        <3> QED
            BY <2>1, <3>1, <3>3, Zenon DEF ValidTypes, AllValueTypes
    <2>2. CASE rule.kind # "type"
        <3>1. rule.types = << >>
            BY <1>1, <1>2, <2>2, OwnFieldsOnly
        <3> QED
            BY <2>2, <3>1 DEF ToSet
    <2> QED
        BY <2>1, <2>2
<1>9. IF rule.kind \in {"range", "length"}
      THEN /\ AsRule(rule).minimum \cup AsRule(rule).maximum # {}
           /\ \A low \in AsRule(rule).minimum, high \in AsRule(rule).maximum : low <= high
           /\ rule.kind = "length" =>
                 \A n \in AsRule(rule).minimum \cup AsRule(rule).maximum : n >= 0
      ELSE AsRule(rule).minimum \cup AsRule(rule).maximum = {}
    <2>1. CASE rule.kind \in {"range", "length"}
        <3>1. /\ \A bound \in rule.minimum \cup rule.maximum : ValidBound(rule.kind, bound)
              /\ rule.minimum \cup rule.maximum # {}
              /\ \A a \in rule.minimum, b \in rule.maximum : a.halves <= b.halves
            BY <1>1, <2>1 DEF ValidRule, ValidBounds
        <3>2. \A bound \in rule.minimum \cup rule.maximum : bound.halves \in Int
            BY <1>6, <2>1, <3>1 DEF ValidBound, IsBound
        <3>3. CASE rule.kind = "range"
            <4>1. /\ AsRule(rule).minimum = {bound.halves : bound \in rule.minimum}
                  /\ AsRule(rule).maximum = {bound.halves : bound \in rule.maximum}
                BY <1>3, <3>3 DEF Measure
            <4>2. AsRule(rule).minimum \cup AsRule(rule).maximum # {}
                <5>1. PICK bound \in rule.minimum \cup rule.maximum : TRUE
                    BY <3>1
                <5> QED
                    BY <4>1, <5>1
            <4>3. \A low \in AsRule(rule).minimum, high \in AsRule(rule).maximum : low <= high
                BY <3>1, <4>1
            <4>4. rule.kind # "length"
                BY <3>3
            <4> QED
                BY <2>1, <4>2, <4>3, <4>4, Zenon
        <3>4. CASE rule.kind = "length"
            <4>1. /\ AsRule(rule).minimum = {bound.halves \div 2 : bound \in rule.minimum}
                  /\ AsRule(rule).maximum = {bound.halves \div 2 : bound \in rule.maximum}
                BY <1>3, <3>4 DEF Measure
            <4>2. \A bound \in rule.minimum \cup rule.maximum : bound.halves >= 0
                BY <3>1, <3>4, BoundsAssumption DEF ValidBound
            <4>3. \A m, n \in Int : m <= n => m \div 2 <= n \div 2
                OBVIOUS
            <4>4. \A n \in Int : n >= 0 => n \div 2 >= 0
                OBVIOUS
            <4> HIDE DEF rule
            <4>5. \A low \in AsRule(rule).minimum, high \in AsRule(rule).maximum : low <= high
                BY <3>1, <3>2, <4>1, <4>3
            <4>6. \A n \in AsRule(rule).minimum \cup AsRule(rule).maximum : n >= 0
                BY <3>2, <4>1, <4>2, <4>4
            <4>7. AsRule(rule).minimum \cup AsRule(rule).maximum # {}
                <5>1. PICK bound \in rule.minimum \cup rule.maximum : TRUE
                    BY <3>1
                <5> QED
                    BY <4>1, <5>1
            <4> QED
                BY <2>1, <4>5, <4>6, <4>7, Zenon
        <3> QED
            BY <2>1, <3>3, <3>4
    <2>2. CASE rule.kind \notin {"range", "length"}
        <3>1. rule.minimum = {} /\ rule.maximum = {}
            BY <1>1, <2>2, OwnFieldsOnly DEF Bound
        <3> QED
            BY <1>3, <2>2, <3>1 DEF Measure
    <2> QED
        BY <2>1, <2>2
<1>10. rule.kind # "equals" => rule.value = Null
    BY <1>1, <1>2, OwnFieldsOnly
<1>11. IsRule(AsRule(rule))
    <2>1. rule.kind \in Kinds
        BY <1>1, OwnFieldsOnly
    <2>2. RuleFields \subseteq DOMAIN AsRule(rule)
        BY <1>1, <1>3
    <2> QED
        BY <1>1, <1>3, <1>4, <1>7, <1>8, <1>9, <1>10, <2>1, <2>2 DEF IsRule
<1>12. IsBuiltRule(rule)
    <2>1. IsRecord(rule)
        BY DEF rule, ConstructedRule, IsRecord
    <2>2. /\ \A a, b \in rule.minimum : a = b
          /\ \A a, b \in rule.maximum : a = b
        BY <1>1 DEF Bound
    <2> QED
        BY <1>1, <1>4, <1>5, <1>6, <2>1, <2>2 DEF IsBuiltRule
<1> QED
    BY <1>1, <1>4, <1>11, <1>12 DEF rule

\* policy_to_dict writes fields of the types it found.
LEMMA RawRuleIsTyped ==
    ASSUME NEW rule, IsBuiltRule(rule)
    PROVE  IsRawRule(RawRule(rule))
<1> DEFINE raw == RawRule(rule)
<1>1. DOMAIN raw = DeclaredFields(rule)
    BY DEF RawRule
<1>2. /\ "path" \in DOMAIN raw => raw.path = rule.path
      /\ "types" \in DOMAIN raw => raw.types = rule.types
    BY <1>1 DEF RawRule, BoundFields
<1>3. /\ "minimum" \in DOMAIN raw => rule.minimum # {} /\ raw.minimum \in rule.minimum
      /\ "maximum" \in DOMAIN raw => rule.maximum # {} /\ raw.maximum \in rule.maximum
    BY <1>1 DEF RawRule, BoundFields, DeclaredFields
<1>4. IsRecord(raw)
    BY DEF RawRule, IsRecord
<1> HIDE DEF raw
<1> QED
    BY <1>2, <1>3, <1>4 DEF IsRawRule, IsBuiltRule, raw

-----------------------------------------------------------------------------
(* The loop over the rules.                                                *)

ArgumentIsTyped == IsArgument(given)

\* The rules added so far: well formed, of the declared version, each with an
\* identifier of its own.
RulesAreGood ==
    /\ IsRecord(rules) /\ Len(rules) \in Nat /\ DOMAIN rules = 1..Len(rules)
    /\ \A i \in DOMAIN rules :
          /\ IsRule(AsRule(rules[i]))
          /\ IsBuiltRule(rules[i])
          /\ rules[i].kind \in AllowedKinds(given.schema_version)
          /\ \A j \in DOMAIN rules : rules[i].rule_id = rules[j].rule_id => i = j

\* There is a rule to add, or one has been added.
ThereAreRules ==
    /\ pc = "rules" => Len(raw_policy.rules) > 0
    /\ pc = "valid" => Len(rules) > 0

MembersAreChecked == pc \in {"rules", "valid"} => raw_policy.members = Members

IInv == ArgumentIsTyped /\ RulesAreGood /\ ThereAreRules /\ MembersAreChecked

LEMMA RawPolicyIsTyped ==
    ASSUME ArgumentIsTyped
    PROVE  /\ Len(raw_policy.rules) \in Nat
           /\ IsRecord(raw_policy.rules)
           /\ DOMAIN raw_policy.rules = 1..Len(raw_policy.rules)
           /\ \A i \in DOMAIN raw_policy.rules : IsRawRule(raw_policy.rules[i])
           /\ raw_policy.schema_version = given.schema_version
           /\ raw_policy = [form |-> raw_policy.form, members |-> raw_policy.members,
                            schema_version |-> raw_policy.schema_version,
                            policy_id |-> raw_policy.policy_id, rules |-> raw_policy.rules]
<1>1. CASE given.form = "policy"
    <2>1. /\ raw_policy.rules = [i \in 1..Len(given.rules) |-> RawRule(given.rules[i])]
          /\ raw_policy.schema_version = given.schema_version
        BY <1>1 DEF raw_policy, PolicyToDict, ArgumentIsTyped, IsArgument
    <2>2. \A i \in 1..Len(given.rules) : IsRawRule(RawRule(given.rules[i]))
        BY <1>1, RawRuleIsTyped DEF ArgumentIsTyped, IsArgument
    <2>3. Len(given.rules) \in Nat
        BY DEF ArgumentIsTyped, IsArgument
    <2>4. Len(raw_policy.rules) = Len(given.rules) /\ IsRecord(raw_policy.rules)
        BY <2>1, <2>3 DEF IsRecord
    <2>5. raw_policy = [form |-> raw_policy.form, members |-> raw_policy.members,
                        schema_version |-> raw_policy.schema_version,
                        policy_id |-> raw_policy.policy_id, rules |-> raw_policy.rules]
        BY <1>1 DEF raw_policy, PolicyToDict
    <2> QED
        BY <2>1, <2>2, <2>3, <2>4, <2>5
<1>2. CASE given.form # "policy"
    BY <1>2, Zenon DEF raw_policy, ArgumentIsTyped, IsArgument
<1> QED
    BY <1>1, <1>2

LEMMA AddRuleKeepsRules ==
    ASSUME IInv, AddRule
    PROVE  RulesAreGood'
<1> DEFINE n == Len(rules)
           new == ConstructedRule(NextRule)
<1>1. IsRawRule(NextRule) /\ ValidRule(NextRule, given.schema_version, seen_rule_ids)
    BY RawPolicyIsTyped DEF IInv, AddRule, NextRule, NextIsValid, RulesAreGood
<1>2. /\ IsRule(AsRule(new)) /\ IsBuiltRule(new)
      /\ new.kind \in AllowedKinds(given.schema_version)
      /\ new.rule_id \notin seen_rule_ids
    BY <1>1, ValidRuleIsRule
<1> HIDE DEF new
<1>3. /\ n \in Nat /\ DOMAIN rules = 1..n
      /\ \A i \in 1..n :
            /\ IsRule(AsRule(rules[i]))
            /\ IsBuiltRule(rules[i])
            /\ rules[i].kind \in AllowedKinds(given.schema_version)
            /\ rules[i].rule_id # new.rule_id
            /\ \A j \in 1..n : rules[i].rule_id = rules[j].rule_id => i = j
    BY <1>2 DEF IInv, RulesAreGood, seen_rule_ids
<1>4. rules' = Append(rules, new) /\ given' = given
    BY DEF AddRule, new
<1>5. /\ IsRecord(rules') /\ Len(rules') = n + 1 /\ DOMAIN rules' = 1..(n + 1)
      /\ rules'[n + 1] = new /\ \A i \in 1..n : rules'[i] = rules[i]
    BY <1>3, <1>4, AppendFacts DEF IInv, RulesAreGood
<1>6. \A i \in 1..(n + 1) : i \in 1..n \/ i = n + 1
    BY <1>3
<1> HIDE DEF n
<1>7. \A i \in 1..(n + 1) :
          /\ IsRule(AsRule(rules'[i]))
          /\ IsBuiltRule(rules'[i])
          /\ rules'[i].kind \in AllowedKinds(given'.schema_version)
    BY <1>2, <1>3, <1>4, <1>5, <1>6
<1>8. \A i, j \in 1..(n + 1) : rules'[i].rule_id = rules'[j].rule_id => i = j
    BY <1>3, <1>5, <1>6
<1>9. Len(rules') \in Nat
    BY <1>3, <1>5
<1> QED
    BY <1>5, <1>7, <1>8, <1>9 DEF RulesAreGood

LEMMA ValidateAgainKeepsArgument ==
    ASSUME IInv, ValidateAgain
    PROVE  ArgumentIsTyped'
<1>1. /\ Len(rules) \in Nat /\ DOMAIN rules = 1..Len(rules)
      /\ \A i \in DOMAIN rules : IsBuiltRule(rules[i])
    BY DEF IInv, RulesAreGood
<1>2. CASE given' = ThePolicy
    <2>1. /\ given'.form = "policy" /\ given'.rules = rules
          /\ given'.members = Members
          /\ given' = [form |-> given'.form, members |-> given'.members,
                       schema_version |-> given'.schema_version,
                       policy_id |-> given'.policy_id, rules |-> given'.rules]
        BY <1>2 DEF ThePolicy, ValidateAgain, IInv, MembersAreChecked
    <2> QED
        BY <1>1, <2>1 DEF ArgumentIsTyped, IsArgument, IInv, RulesAreGood
<1>3. CASE given' = PolicyToDict(ThePolicy)
    <2>1. /\ given'.form = "document"
          /\ given'.rules = [i \in 1..Len(rules) |-> RawRule(rules[i])]
          /\ given' = [form |-> given'.form, members |-> given'.members,
                       schema_version |-> given'.schema_version,
                       policy_id |-> given'.policy_id, rules |-> given'.rules]
        BY <1>1, <1>3 DEF PolicyToDict, ThePolicy
    <2>2. Len(given'.rules) = Len(rules)
        BY <1>1, <2>1
    <2>3. \A i \in 1..Len(rules) : IsRawRule(RawRule(rules[i]))
        BY <1>1, RawRuleIsTyped
    <2>4. IsRecord(given'.rules)
        BY <2>1 DEF IsRecord
    <2> QED
        BY <1>1, <2>1, <2>2, <2>3, <2>4 DEF ArgumentIsTyped, IsArgument
<1> QED
    BY <1>2, <1>3 DEF ValidateAgain

LEMMA InvariantAtFirst == Init => IInv
<1> SUFFICES ASSUME Init PROVE IInv
    OBVIOUS
<1>1. RulesAreGood
    BY DEF Init, RulesAreGood, IsRecord
<1> QED
    BY <1>1, GivenAssumption DEF Init, IInv, ArgumentIsTyped, ThereAreRules, MembersAreChecked

\* How a step of explain_response looks to validate_policy.
Explains ==
    /\ pc = "valid" /\ accepted = {}
    /\ pc' = "explain"
    /\ UNCHANGED <<given, rules, error, accepted>>

Step == Next \/ Explains

LEMMA InvariantIsKept == IInv /\ [Step]_vars => IInv'
<1> SUFFICES ASSUME IInv, [Step]_vars PROVE IInv'
    OBVIOUS
<1> USE DEF IInv
<1>1. ASSUME UNCHANGED <<given, rules>>, pc' = "invalid" PROVE IInv'
    BY <1>1 DEF ArgumentIsTyped, RulesAreGood, ThereAreRules, MembersAreChecked, raw_policy
<1>2. CASE RefuseFields \/ RefusePolicy \/ RefuseRule
    BY <1>1, <1>2 DEF RefuseFields, RefusePolicy, RefuseRule, Raise
<1>3. CASE BeginRules
    <2>1. Len(raw_policy.rules) \in Nat /\ DOMAIN raw_policy.rules = 1..Len(raw_policy.rules)
        BY RawPolicyIsTyped
    <2>2. Len(raw_policy.rules) > 0
        BY <1>3, <2>1 DEF BeginRules, ValidMembers
    <2> QED
        BY <1>3, <2>2 DEF BeginRules, ValidMembers, ArgumentIsTyped, RulesAreGood, ThereAreRules, MembersAreChecked, raw_policy
<1>4. CASE AddRule
    <2>1. UNCHANGED <<given, pc>> /\ pc = "rules"
        BY <1>4 DEF AddRule
    <2> QED
        BY <1>4, <2>1, AddRuleKeepsRules DEF ArgumentIsTyped, ThereAreRules, MembersAreChecked, raw_policy
<1>5. CASE Return
    BY <1>5 DEF Return, ArgumentIsTyped, RulesAreGood, ThereAreRules, MembersAreChecked, raw_policy
<1>6. CASE ValidateAgain
    <2>1. rules' = << >> /\ pc' = "start"
        BY <1>6 DEF ValidateAgain
    <2>2. RulesAreGood'
        BY <2>1 DEF RulesAreGood, IsRecord
    <2> QED
        BY <1>6, <2>1, <2>2, ValidateAgainKeepsArgument DEF ThereAreRules, MembersAreChecked
<1>7. CASE UNCHANGED vars
    BY <1>7 DEF vars, ArgumentIsTyped, RulesAreGood, ThereAreRules, MembersAreChecked, raw_policy
<1>8. CASE Explains
    BY <1>8 DEF Explains, ArgumentIsTyped, RulesAreGood, ThereAreRules, MembersAreChecked
<1> QED
    BY <1>2, <1>3, <1>4, <1>5, <1>6, <1>7, <1>8 DEF Step, Next, Ended

LEMMA Invariant == Spec => []IInv
<1>1. [Next]_vars => [Step]_vars
    BY DEF Step
<1> QED
    BY <1>1, InvariantAtFirst, InvariantIsKept, PTL DEF Spec

LEMMA GoodRulesAreEnough == IInv => AcceptedIsWellFormed /\ LintFindingsAreReal
<1>1. ASSUME RulesAreGood
      PROVE  \A i \in DOMAIN AsRules(rules) : IsRule(AsRules(rules)[i])
    BY <1>1 DEF RulesAreGood, AsRules
<1>2. RulesAreGood =>
          (HasConflicts(AsRules(rules)) =>
              \A document \in Responses : ~AllPass(AsRules(rules), document))
    BY <1>1, ConflictsAreReal
<1>3. RulesAreGood =>
          \A pair \in Duplicates(AsRules(rules)) : \A document \in Responses :
              ReasonCode(AsRules(rules)[pair[1]], document)
                = ReasonCode(AsRules(rules)[pair[2]], document)
    BY <1>1, DuplicatesAgree
<1>4. IInv => LintFindingsAreReal
    BY <1>2, <1>3 DEF IInv, LintFindingsAreReal
<1>5. IInv => AcceptedIsWellFormed
    BY DEF IInv, RulesAreGood, ThereAreRules, AcceptedIsWellFormed, AsRules
<1> QED
    BY <1>4, <1>5

\* Whatever document or Policy object validate_policy is given, and in whatever
\* form its own results come back, the policies it returns have what the other
\* components take for granted.
THEOREM ValidationIsSound == Spec => []AcceptedIsWellFormed
    BY GoodRulesAreEnough, Invariant, PTL

\* So lint_policy may be believed about every policy that gets to it: its
\* conflicts have no passing response, its duplicates no difference.
THEOREM LintCanBeBelieved == Spec => []LintFindingsAreReal
    BY GoodRulesAreEnough, Invariant, PTL

-----------------------------------------------------------------------------
(* No rule changes on the way through a Policy.                            *)

LEMMA RawRuleRoundTrip ==
    ASSUME NEW raw, IsRawRule(raw), NEW version, NEW seen, ValidRule(raw, version, seen)
    PROVE  RawRule(ConstructedRule(raw)) = raw
<1> DEFINE rule == ConstructedRule(raw)
<1>1. rule.kind = raw.kind
    BY DEF ConstructedRule
<1>2. \A field \in BoundFields : rule[field] = Bound(raw, field)
    BY DEF ConstructedRule, BoundFields
<1>3. \A field \in DOMAIN raw : field \notin BoundFields => rule[field] = raw[field]
    <2>1. DOMAIN raw \subseteq {"rule_id", "kind", "path"} \cup OwnFields(raw.kind)
        BY DEF ValidRule, ExactFields
    <2>2. OwnFields(raw.kind) \subseteq {"value", "values", "types"} \cup BoundFields
        BY DEF OwnFields
    <2> QED
        BY <2>1, <2>2 DEF ConstructedRule
<1>4. \A field \in BoundFields : rule[field] # {} <=> field \in DOMAIN raw
    BY <1>2 DEF Bound
<1> HIDE DEF rule
<1>5. DeclaredFields(rule) = DOMAIN raw
    <2>1. {"rule_id", "kind", "path"} \cap BoundFields = {}
        BY DEF BoundFields
    <2>2. \A field : field \in DOMAIN raw <=> field \in DeclaredFields(rule)
        BY <1>1, <1>4, <2>1, Zenon DEF DeclaredFields, ValidRule, ExactFields
    <2>3. DeclaredFields(rule) = {field \in DeclaredFields(rule) : TRUE}
        OBVIOUS
    <2> QED
        BY <2>2
<1>6. \A field \in DOMAIN raw \cap BoundFields : (CHOOSE bound \in rule[field] : TRUE) = raw[field]
    <2>1. \A field \in DOMAIN raw \cap BoundFields : rule[field] = {raw[field]}
        BY <1>2 DEF Bound
    <2>2. \A x : (CHOOSE bound \in {x} : TRUE) = x
        OBVIOUS
    <2> QED
        BY <2>1, <2>2
<1>7. RawRule(rule) = [field \in DOMAIN raw |-> raw[field]]
    BY <1>3, <1>5, <1>6 DEF RawRule
<1> QED
    BY <1>7 DEF IsRawRule, IsRecord, rule

LEMMA NothingIrrelevant ==
    ASSUME NEW raw, IsRawRule(raw), NEW version, NEW seen, ValidRule(raw, version, seen)
    PROVE  ~HasIrrelevantField(ConstructedRule(raw))
<1> DEFINE rule == ConstructedRule(raw)
<1>1. rule.kind = raw.kind
    BY DEF ConstructedRule
<1>2. \A field \in DOMAIN Default : field \notin DOMAIN raw => rule[field] = Default[field]
    <2>1. DOMAIN Default = {"value", "values", "types", "minimum", "maximum"}
        BY DEF Default
    <2>2. /\ "value" \notin DOMAIN raw => rule.value = Default.value
          /\ "values" \notin DOMAIN raw => rule.values = Default.values
          /\ "types" \notin DOMAIN raw => rule.types = Default.types
        BY DEF ConstructedRule
    <2>3. /\ "minimum" \notin DOMAIN raw => rule.minimum = Default.minimum
          /\ "maximum" \notin DOMAIN raw => rule.maximum = Default.maximum
        BY DEF ConstructedRule, Default, Bound
    <2> HIDE DEF rule
    <2> QED
        BY <2>1, <2>2, <2>3
<1>3. \A field \in DOMAIN Default : field \in DOMAIN raw => field \in OwnFields(raw.kind)
    <2>1. DOMAIN raw \subseteq {"rule_id", "kind", "path"} \cup OwnFields(raw.kind)
        BY DEF ValidRule, ExactFields
    <2>2. DOMAIN Default \cap {"rule_id", "kind", "path"} = {}
        BY DEF Default
    <2> QED
        BY <2>1, <2>2
<1> HIDE DEF rule
<1> QED
    BY <1>1, <1>2, <1>3, Zenon DEF HasIrrelevantField, rule

LEMMA BuiltRuleRoundTrip ==
    ASSUME NEW rule, IsBuiltRule(rule), ~HasIrrelevantField(rule)
    PROVE  ConstructedRule(RawRule(rule)) = rule
<1> DEFINE raw == RawRule(rule)
           own == OwnFields(rule.kind)
<1>1. DOMAIN raw = DeclaredFields(rule)
    BY DEF RawRule
<1>2. raw.rule_id = rule.rule_id /\ raw.kind = rule.kind /\ raw.path = rule.path
    BY DEF RawRule, DeclaredFields, BoundFields
<1>3. \A field \in {"value", "values", "types"} :
          (IF field \in DOMAIN raw THEN raw[field] ELSE Default[field]) = rule[field]
    <2>1. ASSUME NEW field \in {"value", "values", "types"}
          PROVE  (IF field \in DOMAIN raw THEN raw[field] ELSE Default[field]) = rule[field]
        <3>1. field \in DOMAIN Default /\ field \notin BoundFields
              /\ field \notin {"rule_id", "kind", "path"}
            BY <2>1 DEF Default, BoundFields
        <3>2. field \in DOMAIN raw <=> field \in own
            BY <1>1, <3>1 DEF DeclaredFields
        <3>3. field \in DOMAIN raw => raw[field] = rule[field]
            BY <1>1, <3>1 DEF RawRule
        <3>4. field \notin own => rule[field] = Default[field]
            BY <3>1 DEF HasIrrelevantField
        <3> QED
            BY <3>2, <3>3, <3>4
    <2> QED
        BY <2>1
<1>4. \A field \in BoundFields : Bound(raw, field) = rule[field]
    <2>1. ASSUME NEW field \in BoundFields
          PROVE  Bound(raw, field) = rule[field]
        <3>1. /\ \A a, b \in rule[field] : a = b
              /\ field \in DOMAIN Default /\ Default[field] = {}
              /\ field \notin {"rule_id", "kind", "path"}
            BY <2>1 DEF IsBuiltRule, BoundFields, Default
        <3>2. field \notin own => rule[field] = {}
            BY <3>1 DEF HasIrrelevantField
        <3>3. field \in DOMAIN raw <=> rule[field] # {}
            BY <1>1, <2>1, <3>1, <3>2 DEF DeclaredFields
        <3>4. CASE field \in DOMAIN raw
            <4>1. raw[field] = CHOOSE bound \in rule[field] : TRUE
                BY <1>1, <2>1, <3>4 DEF RawRule
            <4>2. raw[field] \in rule[field]
                BY <3>3, <3>4, <4>1
            <4> QED
                BY <3>1, <3>4, <4>2 DEF Bound
        <3> QED
            BY <3>3, <3>4 DEF Bound
    <2> QED
        BY <2>1
<1> HIDE DEF raw
<1>5. ConstructedRule(raw) =
          [rule_id |-> rule.rule_id, kind |-> rule.kind, path |-> rule.path,
           value |-> rule.value, values |-> rule.values, types |-> rule.types,
           minimum |-> rule.minimum, maximum |-> rule.maximum]
    BY <1>2, <1>3, <1>4 DEF ConstructedRule, BoundFields
<1>6. DOMAIN rule = {"rule_id", "kind", "path", "value", "values", "types",
                     "minimum", "maximum"}
    BY DEF IsBuiltRule, RuleFields
<1> DEFINE built == ConstructedRule(raw)
<1>7. /\ DOMAIN built = DOMAIN rule
      /\ \A field \in DOMAIN rule : built[field] = rule[field]
    BY <1>5, <1>6
<1>8. IsRecord(built)
    BY <1>5 DEF IsRecord
<1> HIDE DEF built
<1>9. built = rule
    BY <1>7, <1>8 DEF IsBuiltRule, IsRecord
<1> QED
    BY <1>9 DEF raw, built
\* What ValidRule checks one after another is what a declarable rule is.
LEMMA ValidIsDeclarable ==
    ASSUME NEW raw, IsRawRule(raw), NEW seen, ValidRule(raw, raw_policy.schema_version, seen)
    PROVE  IsDeclarable(raw)
<1> DEFINE rule == ConstructedRule(raw)
<1>1. /\ rule.rule_id = raw.rule_id /\ rule.kind = raw.kind /\ rule.path = raw.path
      /\ rule.minimum = Bound(raw, "minimum") /\ rule.maximum = Bound(raw, "maximum")
      /\ rule.values = IF "values" \in DOMAIN raw THEN raw.values ELSE << >>
      /\ rule.types = IF "types" \in DOMAIN raw THEN raw.types ELSE << >>
    BY DEF ConstructedRule, Default
<1>2. raw = RawRule(rule) /\ IsRule(AsRule(rule))
    BY RawRuleRoundTrip, ValidRuleIsRule
<1> HIDE DEF rule
<1>3. {"rule_id", "kind", "path"} \subseteq DOMAIN raw
    BY <1>2 DEF RawRule, DeclaredFields
<1>4. rule.rule_id # 0 /\ rule.kind \in AllowedKinds(raw_policy.schema_version)
    BY <1>1 DEF ValidRule, KnownKind
<1>5. Len(rule.path) <= MAX_JSON_NESTING
    BY <1>1 DEF ValidRule, ValidPath
<1>6. Len(rule.values) <= MAX_ONE_OF_VALUES
    BY <1>1, OwnFieldsOnly, BoundsAssumption DEF ValidRule, ValidValues
<1>7. IsInjective(rule.types)
    <2>1. CASE "types" \in DOMAIN raw
        BY <1>1, <2>1, OwnFieldsOnly DEF ValidRule, ValidTypes
    <2>2. CASE "types" \notin DOMAIN raw
        BY <1>1, <2>2 DEF IsInjective
    <2> QED
        BY <2>1, <2>2
<1>8. ASSUME NEW bound \in rule.minimum \cup rule.maximum
      PROVE  /\ bound.type \in {"integer", "number"}
             /\ rule.kind = "length" =>
                    bound.type = "integer" /\ bound.halves <= 2 * MAX_LENGTH_BOUND
    <2>1. raw.kind \in {"range", "length"}
        BY <1>1, <1>8, OwnFieldsOnly DEF Bound
    <2>2. ValidBound(raw.kind, bound)
        BY <1>1, <1>8, <2>1 DEF ValidRule, ValidBounds
    <2> QED
        BY <1>1, <2>1, <2>2, BoundsAssumption DEF ValidBound
<1> QED
    BY <1>2, <1>3, <1>4, <1>5, <1>6, <1>7, <1>8, Zenon DEF IsDeclarable, rule

\* Halving and dropping a half keeps the order of whole numbers.
LEMMA Halves ==
    ASSUME NEW m \in Int, NEW n \in Int, m % 2 = 0, n % 2 = 0
    PROVE  /\ m \div 2 <= n \div 2 => m <= n
           /\ m \div 2 >= 0 => m >= 0
    OBVIOUS

LEMMA DeclarableIsValid ==
    ASSUME NEW raw, IsRawRule(raw), IsDeclarable(raw),
           NEW seen, raw.rule_id \notin seen
    PROVE  ValidRule(raw, raw_policy.schema_version, seen)
<1> DEFINE rule == ConstructedRule(raw)
           own == OwnFields(raw.kind)
           as == AsRule(rule)
<1>1. /\ rule.rule_id = raw.rule_id /\ rule.kind = raw.kind /\ rule.path = raw.path
      /\ rule.minimum = Bound(raw, "minimum") /\ rule.maximum = Bound(raw, "maximum")
      /\ "values" \in DOMAIN raw => rule.values = raw.values
      /\ "types" \in DOMAIN raw => rule.types = raw.types
    BY DEF ConstructedRule
<1>2. /\ as.kind = raw.kind /\ as.path = raw.path /\ as.values = rule.values
      /\ as.types = ToSet(rule.types)
      /\ as.minimum = Measure(rule, rule.minimum)
      /\ as.maximum = Measure(rule, rule.maximum)
    BY DEF AsRule, ConstructedRule
<1>3. /\ raw = RawRule(rule)
      /\ {"rule_id", "kind", "path"} \subseteq DOMAIN raw
      /\ rule.rule_id # 0 /\ rule.kind \in AllowedKinds(raw_policy.schema_version)
      /\ Len(rule.path) <= MAX_JSON_NESTING
      /\ Len(rule.values) <= MAX_ONE_OF_VALUES
      /\ IsInjective(rule.types)
      /\ \A bound \in rule.minimum \cup rule.maximum :
            /\ bound.type \in {"integer", "number"}
            /\ rule.kind = "length" =>
                   bound.type = "integer" /\ bound.halves <= 2 * MAX_LENGTH_BOUND
      /\ IsRule(as)
    BY DEF IsDeclarable
<1> HIDE DEF rule, as
<1>4. KnownKind(raw, raw_policy.schema_version) /\ raw.rule_id # 0
    BY <1>1, <1>3 DEF KnownKind
<1>5. DOMAIN raw = DeclaredFields(rule)
    BY <1>3 DEF RawRule
<1>6. ExactFields(raw)
    <2>1. {"rule_id", "kind", "path"} \cap BoundFields = {}
        BY DEF BoundFields
    <2>2. DOMAIN raw = {"rule_id", "kind", "path"}
            \cup {field \in own : field \in BoundFields => rule[field] # {}}
        BY <1>1, <1>5 DEF DeclaredFields
    <2> QED
        BY <2>1, <2>2 DEF ExactFields
<1>7. ValidPath(raw.path)
    BY <1>1, <1>2, <1>3 DEF IsRule, ValidPath
<1>8. /\ raw.kind = "one_of" => "values" \in DOMAIN raw
      /\ raw.kind = "type" => "types" \in DOMAIN raw
    BY <1>1, <1>5 DEF DeclaredFields, OwnFields, BoundFields
<1>9. raw.kind = "one_of" => ValidValues(raw.values)
    BY <1>1, <1>2, <1>3, <1>8 DEF IsRule, ValidValues, IsInjective
<1>10. ASSUME raw.kind = "type" PROVE ValidTypes(raw.types)
    <2>1. rule.types = raw.types
        BY <1>1, <1>8, <1>10
    <2>2. /\ ToSet(rule.types) # {} /\ ToSet(rule.types) \subseteq Types
          /\ ~({"integer", "number"} \subseteq ToSet(rule.types))
          /\ ~(Types \ {"integer"} \subseteq ToSet(rule.types))
        BY <1>2, <1>3, <1>10 DEF IsRule
    <2>3. rule.types # << >>
        BY <2>2 DEF ToSet
    <2> QED
        BY <1>3, <2>1, <2>2, <2>3 DEF ValidTypes, AllValueTypes
<1>11. ASSUME raw.kind \in {"range", "length"} PROVE ValidBounds(raw)
    <2>1. /\ as.minimum \cup as.maximum # {}
          /\ \A low \in as.minimum, high \in as.maximum : low <= high
          /\ raw.kind = "length" => \A n \in as.minimum \cup as.maximum : n >= 0
        BY <1>2, <1>3, <1>11 DEF IsRule
    <2>2. rule.minimum \cup rule.maximum # {}
        BY <1>2, <2>1 DEF Measure
    <2>3. \A bound \in rule.minimum \cup rule.maximum :
             bound.halves \in Int /\ (bound.type = "integer" => bound.halves % 2 = 0)
        <3>1. \A bound \in rule.minimum \cup rule.maximum : IsBound(bound)
            BY <1>1 DEF Bound, IsRawRule
        <3> QED
            BY <1>3, <3>1 DEF IsBound
    <2>4. CASE raw.kind = "range"
        <3>1. /\ as.minimum = {bound.halves : bound \in rule.minimum}
              /\ as.maximum = {bound.halves : bound \in rule.maximum}
            BY <1>1, <1>2, <2>4 DEF Measure
        <3>2. \A a \in rule.minimum, b \in rule.maximum : a.halves <= b.halves
            BY <2>1, <3>1
        <3>3. \A bound \in rule.minimum \cup rule.maximum : ValidBound(raw.kind, bound)
            BY <1>3, <2>4 DEF ValidBound
        <3> QED
            BY <1>1, <2>2, <3>2, <3>3, Zenon DEF ValidBounds
    <2>5. CASE raw.kind = "length"
        <3>1. /\ as.minimum = {bound.halves \div 2 : bound \in rule.minimum}
              /\ as.maximum = {bound.halves \div 2 : bound \in rule.maximum}
            BY <1>1, <1>2, <2>5 DEF Measure
        <3>2. \A bound \in rule.minimum \cup rule.maximum :
                 /\ bound.type = "integer" /\ bound.halves <= 2 * MAX_LENGTH_BOUND
                 /\ bound.halves \in Int /\ bound.halves % 2 = 0
            BY <1>1, <1>3, <2>3, <2>5
        <3>3. \A a \in rule.minimum, b \in rule.maximum : a.halves <= b.halves
            <4>1. \A a \in rule.minimum, b \in rule.maximum : a.halves \div 2 <= b.halves \div 2
                BY <2>1, <3>1
            <4> QED
                BY <3>2, <4>1, Halves
        <3>4. \A bound \in rule.minimum \cup rule.maximum : bound.halves >= 0
            <4>1. \A bound \in rule.minimum \cup rule.maximum : bound.halves \div 2 >= 0
                BY <2>1, <2>5, <3>1
            <4> QED
                BY <3>2, <4>1, Halves
        <3>5. \A bound \in rule.minimum \cup rule.maximum : ValidBound(raw.kind, bound)
            BY <2>5, <3>2, <3>4, BoundsAssumption DEF ValidBound
        <3> QED
            BY <1>1, <2>2, <3>3, <3>5, Zenon DEF ValidBounds
    <2> QED
        BY <1>11, <2>4, <2>5
<1> QED
    BY <1>4, <1>6, <1>7, <1>9, <1>10, <1>11 DEF ValidRule
-----------------------------------------------------------------------------
(* The loop, the error it raises, and a second round.                      *)

\* The rules up to one position have been checked against those before them.
ValidUpTo(n) ==
    /\ n <= Len(raw_policy.rules)
    /\ \A i \in 1..n :
          ValidRule(raw_policy.rules[i], raw_policy.schema_version,
                    {raw_policy.rules[j].rule_id : j \in 1..(i - 1)})

RulesAreThoseGiven ==
    /\ rules # << >> => ValidUpTo(Len(rules))
    /\ \A i \in DOMAIN rules : rules[i] = ConstructedRule(raw_policy.rules[i])

\* The loop begins only if there is nothing else to refuse, and ends at the end.
LoopIsEntered ==
    /\ pc \in {"rules", "valid"} => Irrelevant = 0 /\ ValidMembers
    /\ pc = "valid" => Len(rules) = Len(raw_policy.rules)

\* An error names the rule that the loop did not get past.
ErrorIsNext ==
    pc = "invalid" /\ error.rule_index > 0 =>
        \/ error.rule_index = Irrelevant
        \/ /\ Len(rules) < Len(raw_policy.rules)
           /\ error.rule_index = Len(rules) + 1
           /\ ~NextIsValid

\* What a document can only become.
Returned ==
    [form |-> "policy", members |-> Members, schema_version |-> raw_policy.schema_version,
     policy_id |-> raw_policy.policy_id,
     rules |-> [i \in 1..Len(raw_policy.rules) |-> ConstructedRule(raw_policy.rules[i])]]

\* After an earlier call, nothing in what is given can be refused.
SecondRound ==
    accepted # {} =>
        /\ accepted = {Returned}
        /\ pc # "invalid"
        /\ Irrelevant = 0 /\ ValidMembers
        /\ ValidUpTo(Len(raw_policy.rules))

Exact == RulesAreThoseGiven /\ LoopIsEntered /\ ErrorIsNext /\ SecondRound

LEMMA NothingSelected ==
    ASSUME NEW s, Len(s) \in Nat
    PROVE  SelectInSeq(s, HasIrrelevantField) = 0
             <=> \A i \in 1..Len(s) : ~HasIrrelevantField(s[i])
<1> DEFINE I == {i \in 1..Len(s) : HasIrrelevantField(s[i])}
<1>1. SelectInSeq(s, HasIrrelevantField) = IF I # {} THEN Min(I) ELSE 0
    BY DEF SelectInSeq
<1>2. ASSUME I # {} PROVE Min(I) \in I
    <2>1. I \in SUBSET Nat
        OBVIOUS
    <2>2. \E m \in I : \A k \in I : m <= k
        BY <1>2, <2>1, LeastNumber
    <2> HIDE DEF I
    <2> QED
        BY <2>2 DEF Min
<1> QED
    BY <1>1, <1>2

\* At the end of the loop a Policy is returned that is written as it was given.
LEMMA WhatIsReturned ==
    ASSUME IInv, Exact, pc = "valid"
    PROVE  /\ ThePolicy = Returned
           /\ PolicyToDict(ThePolicy) = raw_policy
           /\ ValidUpTo(Len(raw_policy.rules))
           /\ SelectInSeq(rules, HasIrrelevantField) = 0
<1> DEFINE n == Len(raw_policy.rules)
<1>1. /\ n \in Nat /\ IsRecord(raw_policy.rules) /\ DOMAIN raw_policy.rules = 1..n
      /\ \A i \in 1..n : IsRawRule(raw_policy.rules[i])
      /\ raw_policy = [form |-> raw_policy.form, members |-> raw_policy.members,
                       schema_version |-> raw_policy.schema_version,
                       policy_id |-> raw_policy.policy_id, rules |-> raw_policy.rules]
    BY RawPolicyIsTyped DEF IInv
<1>2. /\ Len(rules) = n /\ IsRecord(rules) /\ DOMAIN rules = 1..n
      /\ raw_policy.form = "document" /\ raw_policy.members = Members
    BY DEF IInv, RulesAreGood, Exact, LoopIsEntered, ValidMembers
<1>3. n > 0
    BY <1>2 DEF IInv, ThereAreRules
<1>4. ValidUpTo(n) /\ \A i \in 1..n : rules[i] = ConstructedRule(raw_policy.rules[i])
    <2>1. rules # << >>
        BY <1>2, <1>3
    <2> QED
        BY <1>2, <2>1, Zenon DEF Exact, RulesAreThoseGiven
<1>5. rules = [i \in 1..n |-> ConstructedRule(raw_policy.rules[i])]
    BY <1>2, <1>4 DEF IsRecord
<1>6. ThePolicy = Returned
    BY <1>2, <1>5 DEF ThePolicy, Returned
<1>7. \A i \in 1..n : /\ RawRule(rules[i]) = raw_policy.rules[i]
                       /\ ~HasIrrelevantField(rules[i])
    BY <1>1, <1>4, RawRuleRoundTrip, NothingIrrelevant DEF ValidUpTo
<1>8. raw_policy.rules = [i \in DOMAIN rules |-> RawRule(rules[i])]
    BY <1>1, <1>2, <1>7 DEF IsRecord
<1>9. PolicyToDict(ThePolicy) =
          [form |-> "document", members |-> Members,
           schema_version |-> raw_policy.schema_version, policy_id |-> raw_policy.policy_id,
           rules |-> raw_policy.rules]
    BY <1>8 DEF ThePolicy, PolicyToDict
<1>10. PolicyToDict(ThePolicy) = raw_policy
    BY <1>1, <1>2, <1>9
<1>11. SelectInSeq(rules, HasIrrelevantField) = 0
    BY <1>1, <1>2, <1>7, NothingSelected
<1> QED
    BY <1>4, <1>6, <1>10, <1>11
LEMMA SameDocument ==
    ASSUME raw_policy' = raw_policy
    PROVE  \A n : ValidUpTo(n)' <=> ValidUpTo(n)
    BY DEF ValidUpTo

LEMMA SameArgument ==
    ASSUME UNCHANGED given
    PROVE  /\ raw_policy' = raw_policy /\ Irrelevant' = Irrelevant
           /\ ValidMembers' <=> ValidMembers
           /\ Returned' = Returned
           /\ \A n : ValidUpTo(n)' <=> ValidUpTo(n)
    BY SameDocument DEF raw_policy, Irrelevant, ValidMembers, Returned

LEMMA AddRuleIsExact ==
    ASSUME IInv, Exact, AddRule
    PROVE  RulesAreThoseGiven'
<1> DEFINE n == Len(rules)
<1>1. /\ n \in Nat /\ IsRecord(rules) /\ DOMAIN rules = 1..n
      /\ Len(raw_policy.rules) \in Nat
    BY RawPolicyIsTyped DEF IInv, RulesAreGood
<1>2. /\ n < Len(raw_policy.rules)
      /\ rules' = Append(rules, ConstructedRule(raw_policy.rules[n + 1]))
      /\ given' = given
      /\ ValidRule(raw_policy.rules[n + 1], raw_policy.schema_version, seen_rule_ids)
    BY DEF AddRule, NextRule, NextIsValid
<1>3. /\ Len(rules') = n + 1 /\ DOMAIN rules' = 1..(n + 1)
      /\ rules'[n + 1] = ConstructedRule(raw_policy.rules[n + 1])
      /\ \A i \in 1..n : rules'[i] = rules[i]
    BY <1>1, <1>2, AppendFacts
<1>4. \A i \in 1..n : rules[i] = ConstructedRule(raw_policy.rules[i])
    BY <1>1 DEF Exact, RulesAreThoseGiven
<1>5. seen_rule_ids = {raw_policy.rules[j].rule_id : j \in 1..n}
    BY <1>1, <1>4 DEF seen_rule_ids, ConstructedRule
<1>6. ASSUME NEW i \in 1..(n + 1)
      PROVE  ValidRule(raw_policy.rules[i], raw_policy.schema_version,
                       {raw_policy.rules[j].rule_id : j \in 1..(i - 1)})
    <2>1. CASE i \in 1..n
        <3>1. rules # << >>
            BY <1>1, <2>1
        <3> QED
            BY <2>1, <3>1 DEF Exact, RulesAreThoseGiven, ValidUpTo
    <2>2. CASE i = n + 1
        <3>1. i - 1 = n
            BY <1>1, <2>2
        <3> QED
            BY <1>2, <1>5, <2>2, <3>1
    <2> QED
        BY <1>1, <2>1, <2>2
<1>7. ValidUpTo(Len(rules))'
    <2>1. n + 1 <= Len(raw_policy.rules)
        BY <1>1, <1>2
    <2>2. \A k : ValidUpTo(k)' <=> ValidUpTo(k)
        BY <1>2, SameArgument
    <2> HIDE DEF n
    <2>3. ValidUpTo(n + 1)
        BY <1>6, <2>1 DEF ValidUpTo
    <2>4. \A k : k = n + 1 => ValidUpTo(k)'
        BY <2>2, <2>3
    <2> QED
        BY <1>3, <2>4
<1>8. \A i \in 1..(n + 1) : rules'[i] = ConstructedRule(raw_policy'.rules[i])
    BY <1>1, <1>2, <1>3, <1>4, SameArgument
<1> QED
    BY <1>3, <1>7, <1>8 DEF RulesAreThoseGiven

\* What is returned is taken up again as the same document, in either form.
LEMMA SecondRoundBegins ==
    ASSUME IInv, Exact, ValidateAgain
    PROVE  SecondRound'
<1>1. /\ ThePolicy = Returned /\ PolicyToDict(ThePolicy) = raw_policy
      /\ ValidUpTo(Len(raw_policy.rules))
      /\ SelectInSeq(rules, HasIrrelevantField) = 0
    BY WhatIsReturned DEF ValidateAgain
<1>2. /\ accepted' = {ThePolicy} /\ pc' = "start"
      /\ given' \in {ThePolicy, PolicyToDict(ThePolicy)}
    BY DEF ValidateAgain
<1>3. /\ ThePolicy.form = "policy" /\ ThePolicy.rules = rules
      /\ PolicyToDict(ThePolicy).form = "document"
    BY DEF ThePolicy, PolicyToDict
<1>4. raw_policy' = raw_policy
    BY <1>1, <1>2, <1>3 DEF raw_policy
<1>5. Irrelevant' = 0
    BY <1>1, <1>2, <1>3 DEF Irrelevant
<1>6. ValidMembers' /\ Returned' = Returned
    BY <1>4 DEF Exact, LoopIsEntered, ValidateAgain, ValidMembers, Returned
<1>7. ValidUpTo(Len(raw_policy.rules))'
    <2>1. \A n : ValidUpTo(n)' <=> ValidUpTo(n)
        BY <1>4, SameDocument
    <2>2. \A n : n = Len(raw_policy.rules) => ValidUpTo(n)'
        BY <1>1, <2>1
    <2> QED
        BY <1>4, <2>2
<1> QED
    BY <1>1, <1>2, <1>5, <1>6, <1>7 DEF SecondRound

\* In the second round, no rule is refused.
LEMMA NextIsValidAgain ==
    ASSUME IInv, Exact, pc = "rules", accepted # {}, Len(rules) < Len(raw_policy.rules)
    PROVE  NextIsValid
<1> DEFINE n == Len(rules)
<1>1. /\ n \in Nat /\ DOMAIN rules = 1..n /\ Len(raw_policy.rules) \in Nat
    BY RawPolicyIsTyped DEF IInv, RulesAreGood
<1>2. \A i \in 1..n : rules[i] = ConstructedRule(raw_policy.rules[i])
    BY <1>1 DEF Exact, RulesAreThoseGiven
<1>3. seen_rule_ids = {raw_policy.rules[j].rule_id : j \in 1..n}
    BY <1>1, <1>2 DEF seen_rule_ids, ConstructedRule
<1>4. n + 1 \in 1..Len(raw_policy.rules) /\ (n + 1) - 1 = n
    BY <1>1
<1> HIDE DEF n
<1>5. ValidRule(raw_policy.rules[n + 1], raw_policy.schema_version,
                {raw_policy.rules[j].rule_id : j \in 1..((n + 1) - 1)})
    BY <1>4 DEF Exact, SecondRound, ValidUpTo
<1> QED
    BY <1>3, <1>4, <1>5 DEF NextIsValid, NextRule, n

LEMMA ExactAtFirst == Init => Exact
    BY DEF Init, Exact, RulesAreThoseGiven, LoopIsEntered, ErrorIsNext, SecondRound
LEMMA ExactIsKept == IInv /\ Exact /\ [Step]_vars => Exact'
<1> SUFFICES ASSUME IInv, Exact, [Step]_vars PROVE Exact'
    OBVIOUS
<1>1. ASSUME UNCHANGED <<given, rules>>
      PROVE  /\ RulesAreThoseGiven'
             /\ NextIsValid' <=> NextIsValid
    <2>1. RulesAreThoseGiven'
        BY <1>1, SameArgument DEF Exact, RulesAreThoseGiven
    <2>2. NextIsValid' <=> NextIsValid
        BY <1>1 DEF NextIsValid, NextRule, seen_rule_ids, raw_policy
    <2> QED
        BY <2>1, <2>2
<1>2. CASE RefuseFields \/ RefusePolicy
    <2>1. UNCHANGED <<given, rules, accepted>> /\ pc' = "invalid" /\ accepted = {}
        BY <1>2 DEF RefuseFields, RefusePolicy, Raise, Exact, SecondRound
    <2>2. error'.rule_index \in {0, Irrelevant}
        BY <1>2 DEF RefuseFields, RefusePolicy, Raise
    <2>3. ErrorIsNext'
        BY <2>1, <2>2, SameArgument DEF ErrorIsNext
    <2> QED
        BY <1>1, <2>1, <2>3 DEF Exact, LoopIsEntered, SecondRound
<1>3. CASE BeginRules
    <2>1. UNCHANGED <<given, rules, accepted>> /\ pc' = "rules" /\ Irrelevant = 0 /\ ValidMembers
        BY <1>3 DEF BeginRules
    <2>2. SecondRound'
        BY <2>1, SameArgument DEF Exact, SecondRound
    <2> QED
        BY <1>1, <2>1, <2>2, SameArgument DEF Exact, LoopIsEntered, ErrorIsNext
<1>4. CASE RefuseRule
    <2>1. /\ UNCHANGED <<given, rules, accepted>> /\ pc = "rules" /\ pc' = "invalid"
          /\ Len(rules) < Len(raw_policy.rules) /\ ~NextIsValid
          /\ error'.rule_index = Len(rules) + 1
        BY <1>4 DEF RefuseRule, Raise
    <2>2. accepted = {}
        BY <2>1, NextIsValidAgain
    <2>3. ErrorIsNext'
        BY <1>1, <2>1, SameArgument DEF ErrorIsNext
    <2> QED
        BY <1>1, <2>1, <2>2, <2>3 DEF Exact, LoopIsEntered, SecondRound
<1>5. CASE AddRule
    <2>1. UNCHANGED <<given, pc, accepted>> /\ pc = "rules"
        BY <1>5 DEF AddRule
    <2>2. SecondRound'
        BY <2>1, SameArgument DEF Exact, SecondRound
    <2> QED
        BY <1>5, <2>1, <2>2, AddRuleIsExact, SameArgument DEF Exact, LoopIsEntered, ErrorIsNext
<1>6. CASE Return
    <2>1. /\ UNCHANGED <<given, rules, accepted>> /\ pc = "rules" /\ pc' = "valid"
          /\ Len(rules) = Len(raw_policy.rules)
        BY <1>6 DEF Return
    <2>2. SecondRound'
        BY <2>1, SameArgument DEF Exact, SecondRound
    <2> QED
        BY <1>1, <2>1, <2>2, SameArgument DEF Exact, LoopIsEntered, ErrorIsNext
<1>7. CASE ValidateAgain
    <2>1. rules' = << >> /\ pc' = "start"
        BY <1>7 DEF ValidateAgain
    <2> QED
        BY <1>7, <2>1, SecondRoundBegins
           DEF Exact, RulesAreThoseGiven, LoopIsEntered, ErrorIsNext
<1>8. CASE Explains \/ UNCHANGED vars
    <2>1. /\ UNCHANGED <<given, rules, accepted, error>>
          /\ (pc' = pc \/ pc' = "explain")
        BY <1>8 DEF Explains, vars
    <2>2. SecondRound'
        BY <2>1, SameArgument DEF Exact, SecondRound
    <2>3. ErrorIsNext'
        BY <1>1, <2>1, SameArgument DEF Exact, ErrorIsNext
    <2> QED
        BY <1>1, <2>1, <2>2, <2>3, SameArgument DEF Exact, LoopIsEntered
<1> QED
    BY <1>2, <1>3, <1>4, <1>5, <1>6, <1>7, <1>8 DEF Step, Next, Ended

\* So far as the rules were valid, they are declarable.
LEMMA ValidUpToDeclarable ==
    ASSUME ArgumentIsTyped, NEW n \in Nat, ValidUpTo(n)
    PROVE  DeclarableUpTo(n)
<1>1. /\ Len(raw_policy.rules) \in Nat /\ n <= Len(raw_policy.rules)
      /\ \A i \in 1..Len(raw_policy.rules) : IsRawRule(raw_policy.rules[i])
    BY RawPolicyIsTyped DEF ValidUpTo
<1>2. ASSUME NEW i \in 1..n PROVE IsDeclarable(raw_policy.rules[i])
    <2>1. IsRawRule(raw_policy.rules[i])
        BY <1>1
    <2>2. ValidRule(raw_policy.rules[i], raw_policy.schema_version,
                    {raw_policy.rules[j].rule_id : j \in 1..(i - 1)})
        BY DEF ValidUpTo
    <2> QED
        BY <2>1, <2>2, ValidIsDeclarable
<1>3. \A i \in 1..n, j \in 1..n :
          j < i => raw_policy.rules[i].rule_id # raw_policy.rules[j].rule_id
    <2>1. SUFFICES ASSUME NEW i \in 1..n, NEW j \in 1..n, j < i
                   PROVE  raw_policy.rules[i].rule_id # raw_policy.rules[j].rule_id
        OBVIOUS
    <2>2. j \in 1..(i - 1)
        BY <2>1
    <2> QED
        BY <2>1, <2>2 DEF ValidUpTo, ValidRule
<1>4. \A i, j \in 1..n : i < j \/ j < i \/ i = j
    OBVIOUS
<1> QED
    BY <1>2, <1>3, <1>4 DEF DeclarableUpTo

\* The rule that an error names is the first that could not be declared.
LEMMA NextIsNotDeclarable ==
    ASSUME IInv, Exact, Len(rules) < Len(raw_policy.rules), ~NextIsValid
    PROVE  ~DeclarableUpTo(Len(rules) + 1)
<1> DEFINE n == Len(rules)
           raw == raw_policy.rules[n + 1]
<1>1. /\ n \in Nat /\ DOMAIN rules = 1..n /\ n + 1 \in 1..Len(raw_policy.rules)
      /\ IsRawRule(raw)
    BY RawPolicyIsTyped DEF IInv, RulesAreGood
<1>2. \A i \in 1..n : rules[i].rule_id = raw_policy.rules[i].rule_id
    BY <1>1 DEF Exact, RulesAreThoseGiven, ConstructedRule
<1>3. ~ValidRule(raw, raw_policy.schema_version, seen_rule_ids)
    BY DEF NextIsValid, NextRule
<1>4. CASE raw.rule_id \in seen_rule_ids
    <2>1. PICK i \in 1..n : raw_policy.rules[i].rule_id = raw.rule_id
        BY <1>1, <1>2, <1>4 DEF seen_rule_ids
    <2>2. i \in 1..(n + 1) /\ n + 1 \in 1..(n + 1) /\ i # n + 1
        BY <1>1
    <2> QED
        BY <2>1, <2>2 DEF DeclarableUpTo
<1>5. CASE raw.rule_id \notin seen_rule_ids
    <2>1. ~IsDeclarable(raw)
        BY <1>1, <1>3, <1>5, DeclarableIsValid
    <2>2. n + 1 \in 1..(n + 1)
        BY <1>1
    <2> HIDE DEF n
    <2> QED
        BY <2>1, <2>2 DEF DeclarableUpTo, n
<1> QED
    BY <1>4, <1>5

LEMMA ExactIsEnough == IInv /\ Exact => ValidationIsExact
<1> SUFFICES ASSUME IInv, Exact PROVE ValidationIsExact
    OBVIOUS
<1>1. Len(rules) \in Nat /\ Len(raw_policy.rules) \in Nat
    BY RawPolicyIsTyped DEF IInv, RulesAreGood
<1>2. DeclarableUpTo(Len(rules))
    <2>1. CASE rules = << >>
        BY <2>1 DEF DeclarableUpTo
    <2>2. CASE rules # << >>
        BY <1>1, <2>2, ValidUpToDeclarable DEF IInv, Exact, RulesAreThoseGiven
    <2> QED
        BY <2>1, <2>2
<1>3. ASSUME pc = "valid", given.form = "policy" PROVE ThePolicy = given
    <2>1. /\ Irrelevant = 0 /\ raw_policy = PolicyToDict(given) /\ ThePolicy = Returned
        BY <1>3, WhatIsReturned DEF Exact, LoopIsEntered, raw_policy
    <2>2. /\ Len(given.rules) \in Nat /\ DOMAIN given.rules = 1..Len(given.rules)
          /\ IsRecord(given.rules) /\ given.members = Members
          /\ \A i \in 1..Len(given.rules) : IsBuiltRule(given.rules[i])
          /\ given = [form |-> given.form, members |-> given.members,
                      schema_version |-> given.schema_version,
                      policy_id |-> given.policy_id, rules |-> given.rules]
        BY <1>3 DEF IInv, ArgumentIsTyped, IsArgument
    <2>3. \A i \in 1..Len(given.rules) : ~HasIrrelevantField(given.rules[i])
        BY <1>3, <2>1, <2>2, NothingSelected DEF Irrelevant
    <2>4. \A i \in 1..Len(given.rules) :
              ConstructedRule(RawRule(given.rules[i])) = given.rules[i]
        BY <2>2, <2>3, BuiltRuleRoundTrip
    <2>5. /\ raw_policy.rules = [i \in 1..Len(given.rules) |-> RawRule(given.rules[i])]
          /\ raw_policy.schema_version = given.schema_version
          /\ raw_policy.policy_id = given.policy_id
        BY <2>1, <2>2 DEF PolicyToDict
    <2>6. Len(raw_policy.rules) = Len(given.rules)
        BY <2>2, <2>5
    <2>7. [i \in 1..Len(raw_policy.rules) |-> ConstructedRule(raw_policy.rules[i])]
              = given.rules
        <3>1. \A i \in 1..Len(given.rules) :
                  ConstructedRule(raw_policy.rules[i]) = given.rules[i]
            BY <2>4, <2>5
        <3>2. [i \in 1..Len(raw_policy.rules) |-> ConstructedRule(raw_policy.rules[i])]
                  = [i \in DOMAIN given.rules |-> given.rules[i]]
            BY <2>2, <2>6, <3>1
        <3> QED
            BY <2>2, <3>2 DEF IsRecord
    <2> QED
        BY <1>3, <2>1, <2>2, <2>5, <2>7, Zenon DEF Returned
<1>4. ASSUME pc = "valid"
      PROVE  /\ PolicyToDict(ThePolicy) = raw_policy
             /\ accepted # {} => accepted = {ThePolicy}
    BY <1>4, WhatIsReturned DEF Exact, SecondRound
<1>5. accepted # {} => pc # "invalid"
    BY DEF Exact, SecondRound
<1>6. ASSUME pc = "invalid", error.rule_index > 0, error.rule_index # Irrelevant
      PROVE  DeclarableUpTo(error.rule_index - 1) /\ ~DeclarableUpTo(error.rule_index)
    <2>1. /\ Len(rules) < Len(raw_policy.rules) /\ ~NextIsValid
          /\ error.rule_index = Len(rules) + 1
        BY <1>6 DEF Exact, ErrorIsNext
    <2>2. error.rule_index - 1 = Len(rules)
        BY <1>1, <2>1
    <2> QED
        BY <1>2, <2>1, <2>2, NextIsNotDeclarable
<1> QED
    BY <1>2, <1>3, <1>4, <1>5, <1>6 DEF ValidationIsExact

\* Whatever is given, validate_policy changes nothing on the way: a Policy
\* comes back as it was and a document is declared as it was, once returned it
\* is returned again, and an error names the first rule that had to be refused.
THEOREM ValidationOnlyDecides == Spec => []ValidationIsExact
<1>1. [Next]_vars => [Step]_vars
    BY DEF Step
<1>2. Spec => [](IInv /\ Exact)
    BY <1>1, InvariantAtFirst, InvariantIsKept, ExactAtFirst, ExactIsKept, PTL DEF Spec
<1> QED
    BY <1>2, ExactIsEnough, PTL
-----------------------------------------------------------------------------
(* Walking a path segment by segment.                                      *)

LEMMA PrefixFacts ==
    ASSUME NEW path \in Seq(Nat), NEW n \in 0..Len(path)
    PROVE  /\ Prefix(path, n) \in Seq(Nat) /\ Len(Prefix(path, n)) = n
           /\ \A k \in 1..n : Prefix(path, n)[k] = path[k]
<1>1. \A k \in 1..n : path[k] \in Nat
    OBVIOUS
<1> QED
    BY <1>1 DEF Prefix

LEMMA SamePath ==
    ASSUME NEW one \in Seq(Nat), NEW other \in Seq(Nat), Len(one) = Len(other),
           \A k \in 1..Len(one) : one[k] = other[k]
    PROVE  one = other
<1>1. /\ one = [k \in 1..Len(one) |-> one[k]]
      /\ other = [k \in 1..Len(other) |-> other[k]]
    OBVIOUS
<1>2. [k \in 1..Len(one) |-> one[k]] = [k \in 1..Len(other) |-> other[k]]
    OBVIOUS
<1> QED
    BY <1>1, <1>2, Zenon

LEMMA LongerPrefix ==
    ASSUME NEW path \in Seq(Nat), NEW t \in Seq(Nat), Len(t) < Len(path),
           t = Prefix(path, Len(t))
    PROVE  /\ Append(t, path[Len(t) + 1]) = Prefix(path, Len(t) + 1)
           /\ Prefix(Append(t, path[Len(t) + 1]), Len(t)) = t
           /\ IsBelow(path, t)
<1> DEFINE n == Len(t)
           longer == Append(t, path[n + 1])
<1>1. n \in Nat /\ n + 1 \in 1..Len(path) /\ n \in 0..Len(path) /\ path[n + 1] \in Nat
    OBVIOUS
<1>2. /\ longer \in Seq(Nat) /\ Len(longer) = n + 1 /\ longer[n + 1] = path[n + 1]
      /\ \A k \in 1..n : longer[k] = t[k]
    BY <1>1
<1>3. \A k \in 1..n : t[k] = path[k]
    BY <1>1, PrefixFacts
<1> HIDE DEF longer, n
<1>4. longer = Prefix(path, n + 1)
    <2>1. n + 1 \in 0..Len(path)
        BY <1>1
    <2>2. /\ Prefix(path, n + 1) \in Seq(Nat) /\ Len(Prefix(path, n + 1)) = n + 1
          /\ \A k \in 1..(n + 1) : Prefix(path, n + 1)[k] = path[k]
        BY <2>1, PrefixFacts
    <2>3. ASSUME NEW k \in 1..(n + 1) PROVE longer[k] = path[k]
        <3>1. CASE k = n + 1
            BY <1>2, <3>1
        <3>2. CASE k # n + 1
            <4>1. k \in 1..n
                BY <1>1, <3>2
            <4> QED
                BY <1>2, <1>3, <4>1
        <3> QED
            BY <3>1, <3>2
    <2> QED
        BY <1>2, <2>2, <2>3, SamePath
<1>5. Prefix(longer, n) = t
    <2>1. /\ Prefix(longer, n) \in Seq(Nat) /\ Len(Prefix(longer, n)) = n
          /\ \A k \in 1..n : Prefix(longer, n)[k] = longer[k]
        <3>1. n \in 0..Len(longer)
            BY <1>1, <1>2
        <3> QED
            BY <1>2, <3>1, PrefixFacts
    <2> QED
        BY <1>2, <2>1, SamePath DEF n
<1> QED
    BY <1>4, <1>5 DEF IsBelow, longer, n

LEMMA ValueAtTop ==
    ASSUME NEW document
    PROVE  ValueAt(document, << >>) = document
    BY ValueAtIsWalk, WalkSteps

\* get_field goes on where a shorter path ends.
LEMMA ValueAtNext ==
    ASSUME NEW document, NEW t \in Seq(Nat), NEW segment \in Nat
    PROVE  ValueAt(document, Append(t, segment)) = Member(ValueAt(document, t), segment)
<1> DEFINE path == Append(t, segment)
           n == Len(t)
<1>1. /\ n \in Nat /\ Len(path) = n + 1 /\ path[n + 1] = segment
      /\ \A k \in 1..n : t[k] = path[0 + k]
    OBVIOUS
<1> HIDE DEF path, n
<1>2. /\ 0 \in 0..Len(path) /\ n \in 0..Len(t) /\ 0 + n <= Len(path) /\ Len(t) \in Nat
      /\ Len(path) \in Nat /\ n + 1 \in 1..Len(path) /\ (n + 1) - 1 = n /\ 0 + n = n
    BY <1>1 DEF n
<1>3. /\ Walk(document, path)[0] = document
      /\ Walk(document, path)[n + 1] = Member(Walk(document, path)[(n + 1) - 1], path[n + 1])
    BY <1>2, WalkSteps
<1>4. Walk(document, t)[n] = Walk(document, path)[0 + n]
    <2>1. /\ Len(t) \in Nat /\ Len(path) \in Nat /\ 0 \in 0..Len(path) /\ n \in 0..Len(t)
          /\ 0 + n <= Len(path) /\ document = Walk(document, path)[0]
          /\ \A j \in 1..n : t[j] = path[0 + j]
        BY <1>1, <1>2, <1>3
    <2>2. \A first \in 0..Len(path), m \in 0..Len(t) :
              first + m <= Len(path) /\ document = Walk(document, path)[first]
                  /\ (\A j \in 1..m : t[j] = path[first + j])
              => Walk(document, t)[m] = Walk(document, path)[first + m]
        <3> SUFFICES ASSUME NEW first \in 0..Len(path), NEW m \in 0..Len(t),
                            first + m <= Len(path), document = Walk(document, path)[first],
                            \A j \in 1..m : t[j] = path[first + j]
                     PROVE  Walk(document, t)[m] = Walk(document, path)[first + m]
            OBVIOUS
        <3> QED
            BY <2>1, WalksAgree
    <2> QED
        BY <2>1, <2>2, Zenon
<1> QED
    BY <1>1, <1>2, <1>3, <1>4, ValueAtIsWalk DEF n, path

\* Nothing is found beyond a value that is no object.
LEMMA WalkIsOver ==
    ASSUME NEW document, NEW path \in Seq(Nat), NEW t \in Seq(Nat), IsBelow(path, t),
           ValueAt(document, t).type # "object"
    PROVE  ValueAt(document, path) = Absent
<1>1. /\ SubSeq(path, Len(t) + 1, Len(path)) \in Seq(Nat)
      /\ Len(SubSeq(path, Len(t) + 1, Len(path))) > 0
    BY RestOfPath DEF IsBelow
<1>2. ValueAt(document, path) =
          ValueAt(ValueAt(document, t), SubSeq(path, Len(t) + 1, Len(path)))
    BY PathsSplit
<1> QED
    BY <1>1, <1>2, NothingBelow
-----------------------------------------------------------------------------
(* What explain_response tells of one rule.                                *)

\* ExplanationIsGenuine, said of one rule and its record.
Genuine(rule, told) ==
    LET value == ValueAt(response, rule.path)
        measured == IF rule.kind = "range" THEN value.halves ELSE Length(value)
    IN
    /\ told.resolution = "resolved" <=> told.reason_code # "FIELD_MISSING"
    /\ told.reason_code = "RULE_SATISFIED" => told.observed_type \in ExpectedTypes(rule)
    /\ told.resolution = "member_absent" =>
         /\ told.at \in {Prefix(rule.path, n) : n \in 1..Len(rule.path)}
         /\ ValueAt(response, told.at) = Absent
         /\ ValueAt(response, Prefix(told.at, Len(told.at) - 1)).type = "object"
    /\ told.resolution = "parent_not_object" =>
         /\ IsBelow(rule.path, told.at)
         /\ ValueAt(response, told.at).type \notin {"object", "absent"}
    /\ (told.violated_bound # "none") =
         /\ rule.kind \in {"range", "length"}
         /\ told.reason_code \notin {"RULE_SATISFIED", "FIELD_MISSING"}
         /\ told.observed_type \in ExpectedTypes(rule)
    /\ told.violated_bound = "minimum" => \E low \in rule.minimum : measured < low
    /\ told.violated_bound = "maximum" => \E high \in rule.maximum : measured > high

\* A rule that got through, as the evaluator knows it.
IsKnown(rule) ==
    IsRule(rule) /\ \A bound \in rule.minimum \cup rule.maximum : bound \in Int

LEMMA RulesAreKnown ==
    ASSUME IInv, Exact, NEW i \in DOMAIN rules
    PROVE  IsKnown(AsRule(rules[i]))
<1> DEFINE raw == raw_policy.rules[i]
           rule == rules[i]
<1>1. /\ i \in 1..Len(rules) /\ Len(rules) \in Nat /\ IsRule(AsRule(rule)) /\ rules # << >>
    BY DEF IInv, RulesAreGood
<1>2. /\ IsRawRule(raw) /\ rule = ConstructedRule(raw)
      /\ ValidRule(raw, raw_policy.schema_version,
                   {raw_policy.rules[j].rule_id : j \in 1..(i - 1)})
    <2>1. ValidUpTo(Len(rules)) /\ rule = ConstructedRule(raw)
        BY <1>1 DEF Exact, RulesAreThoseGiven
    <2>2. i \in 1..Len(raw_policy.rules)
        BY <1>1, <2>1, RawPolicyIsTyped DEF IInv, ValidUpTo
    <2>3. IsRawRule(raw)
        BY <2>2, RawPolicyIsTyped DEF IInv
    <2> QED
        BY <1>1, <2>1, <2>3 DEF ValidUpTo
<1> HIDE DEF raw, rule
<1>3. /\ rule.kind = raw.kind
      /\ rule.minimum = Bound(raw, "minimum") /\ rule.maximum = Bound(raw, "maximum")
    BY <1>2 DEF ConstructedRule
<1>4. ASSUME NEW bound \in rule.minimum \cup rule.maximum
      PROVE  bound.halves \in Int
    <2>1. raw.kind \in {"range", "length"} /\ IsBound(bound)
        BY <1>2, <1>3, <1>4, OwnFieldsOnly DEF Bound, IsRawRule
    <2>2. bound.type \in {"integer", "number"}
        BY <1>2, <1>3, <1>4, <2>1 DEF ValidRule, ValidBounds, ValidBound
    <2> QED
        BY <2>1, <2>2 DEF IsBound
<1>5. /\ AsRule(rule).minimum = Measure(rule, rule.minimum)
      /\ AsRule(rule).maximum = Measure(rule, rule.maximum)
    BY <1>2 DEF AsRule, ConstructedRule
<1>6. ASSUME NEW bounds, \A bound \in bounds : bound.halves \in Int
      PROVE  \A n \in Measure(rule, bounds) : n \in Int
    BY <1>6 DEF Measure
<1> QED
    BY <1>1, <1>4, <1>5, <1>6 DEF IsKnown, rule

LEMMA ReasonFacts ==
    ASSUME NEW rule, IsKnown(rule), NEW value, value = ValueAt(response, rule.path)
    PROVE  /\ ReasonCode(rule, response) = "FIELD_MISSING" <=> value = Absent
           /\ Passes(rule, response) <=> ReasonCode(rule, response) = "RULE_SATISFIED"
           /\ Passes(rule, response) <=> value # Absent /\ Satisfies(rule, value)
<1>1. rule.kind \in Kinds
    BY DEF IsKnown, IsRule
<1>2. rule.kind = "required_field" => Satisfies(rule, value)
    BY DEF Satisfies
<1> QED
    BY <1>1, <1>2, FailuresHaveReasons DEF ReasonCode, Passes

\* "A necessary condition for a pass".
LEMMA PassingTypesAreExpected ==
    ASSUME NEW rule, IsKnown(rule), NEW value, IsJsonValue(value), Satisfies(rule, value)
    PROVE  value.type \in ExpectedTypes(rule)
<1>1. rule.kind \in Kinds
    BY DEF IsKnown, IsRule
<1>2. CASE rule.kind = "required_field"
    BY <1>2 DEF ExpectedTypes, IsJsonValue
<1>3. CASE rule.kind = "equals"
    BY <1>3 DEF ExpectedTypes, Satisfies
<1>4. CASE rule.kind = "one_of"
    BY <1>4 DEF ExpectedTypes, Satisfies
<1>5. CASE rule.kind = "false"
    BY <1>5 DEF ExpectedTypes, Satisfies, Boolean
<1>6. CASE rule.kind = "empty_list"
    BY <1>6 DEF ExpectedTypes, Satisfies, Array
<1>7. CASE rule.kind = "type"
    BY <1>7 DEF ExpectedTypes, Satisfies, TypeMatches
<1>8. CASE rule.kind = "range"
    BY <1>8 DEF ExpectedTypes, Satisfies
<1>9. CASE rule.kind = "length"
    BY <1>9 DEF ExpectedTypes, Satisfies
<1> QED
    BY <1>1, <1>2, <1>3, <1>4, <1>5, <1>6, <1>7, <1>8, <1>9 DEF Kinds

\* Outside the bounds and not below the minimum is above the maximum.
LEMMA BoundIsCrossed ==
    ASSUME NEW rule, IsKnown(rule), rule.kind \in {"range", "length"},
           NEW value, IsJsonValue(value), ~Satisfies(rule, value),
           value.type \in ExpectedTypes(rule)
    PROVE  LET measured == IF rule.kind = "range" THEN value.halves ELSE Length(value)
               bound == ViolatedBound(rule, value)
           IN /\ bound \in {"minimum", "maximum"}
              /\ bound = "minimum" => \E low \in rule.minimum : measured < low
              /\ bound = "maximum" => \E high \in rule.maximum : measured > high
<1> DEFINE measured == IF rule.kind = "range" THEN value.halves ELSE Length(value)
           bound == ViolatedBound(rule, value)
<1>1. measured \in Int /\ ~Within(measured, rule)
    <2>1. CASE rule.kind = "range"
        BY <2>1 DEF ExpectedTypes, Satisfies, IsJsonValue
    <2>2. CASE rule.kind = "length"
        <3>1. value.type \in {"string", "array", "object"}
            BY <2>2 DEF ExpectedTypes
        <3>2. Length(value) \in Int
            BY <3>1, FS_CardinalityType DEF Length, IsJsonValue
        <3> QED
            BY <2>2, <3>1, <3>2 DEF Satisfies
    <2> QED
        BY <2>1, <2>2
<1>2. bound = IF \E low \in rule.minimum : measured < low THEN "minimum" ELSE "maximum"
    BY DEF ViolatedBound
<1> HIDE DEF measured, bound
<1>3. ASSUME ~(\E low \in rule.minimum : measured < low)
      PROVE  \E high \in rule.maximum : measured > high
    BY <1>1, <1>3 DEF Within, IsKnown
<1> QED
    BY <1>2, <1>3 DEF measured, bound
-----------------------------------------------------------------------------
(* The walk.                                                               *)

\* Before the walk there is nothing to tell, and on it the two ways of looking
\* up a field are at the same place.
WalkIsInStep ==
    IF pc = "explain"
    THEN /\ response \in Responses
         /\ IsRecord(explanations) /\ Len(explanations) \in Nat
         /\ DOMAIN explanations = 1..Len(explanations)
         /\ Len(explanations) <= Len(rules)
         /\ current_value = ValueAt(response, traversed) /\ current_value \in Values
         /\ traversed \in Seq(Nat)
         /\ IF Running
            THEN Len(traversed) <= Len(Rule.path) /\ traversed = Prefix(Rule.path, Len(traversed))
            ELSE traversed = << >>
    ELSE explanations = << >> /\ traversed = << >>

AllGenuine == \A i \in DOMAIN explanations : Genuine(policy[i], explanations[i])

LEMMA WhereTheWalkIs ==
    ASSUME IInv, Exact, WalkIsInStep, Running
    PROVE  /\ IsKnown(Rule) /\ Rule.path \in Seq(Nat) /\ Rule = policy[Len(explanations) + 1]
           /\ IsJsonValue(current_value) /\ current_value # Absent
           /\ traversed = Rule.path => current_value = ValueAt(response, Rule.path)
           /\ traversed # Rule.path =>
                 /\ Len(traversed) < Len(Rule.path) /\ Segment \in Nat
                 /\ Append(traversed, Segment) = Prefix(Rule.path, Len(traversed) + 1)
                 /\ Prefix(Append(traversed, Segment), Len(traversed)) = traversed
                 /\ IsBelow(Rule.path, traversed)
                 /\ ValueAt(response, Append(traversed, Segment)) = Member(current_value, Segment)
<1> DEFINE n == Len(explanations)
<1>1. pc = "explain" /\ n \in Nat /\ Len(rules) \in Nat /\ DOMAIN rules = 1..Len(rules)
    BY DEF Running, WalkIsInStep, IInv, RulesAreGood
<1>2. Len(policy) = Len(rules)
    BY <1>1 DEF policy, AsRules
<1>3. n + 1 \in DOMAIN rules
    BY <1>1, <1>2 DEF Running
<1>4. Rule = policy[n + 1] /\ Rule = AsRule(rules[n + 1])
    BY <1>3 DEF Rule, policy, AsRules
<1>5. IsKnown(Rule) /\ Rule.path \in Seq(Nat)
    BY <1>3, <1>4, RulesAreKnown DEF IsKnown, IsRule
<1>6. /\ current_value = ValueAt(response, traversed) /\ current_value \in Values
      /\ traversed \in Seq(Nat) /\ Len(traversed) <= Len(Rule.path)
      /\ traversed = Prefix(Rule.path, Len(traversed))
    BY <1>1 DEF WalkIsInStep
<1>7. IsJsonValue(current_value) /\ current_value # Absent
    BY <1>6, ResponsesAssumption DEF IsJsonValue, Types, Absent
<1>8. ASSUME traversed # Rule.path PROVE Len(traversed) < Len(Rule.path)
    <2>1. ASSUME Len(traversed) = Len(Rule.path) PROVE FALSE
        <3>1. Len(traversed) \in 0..Len(Rule.path)
            BY <1>5, <2>1
        <3>2. \A k \in 1..Len(traversed) : Prefix(Rule.path, Len(traversed))[k] = Rule.path[k]
            BY <1>5, <3>1, PrefixFacts
        <3>3. \A k \in 1..Len(traversed) : traversed[k] = Rule.path[k]
            BY <1>6, <3>2, Zenon
        <3> QED
            BY <1>5, <1>6, <1>8, <2>1, <3>3, SamePath
    <2> QED
        BY <1>5, <1>6, <2>1
<1>9. ASSUME traversed # Rule.path
      PROVE  /\ Len(traversed) < Len(Rule.path) /\ Segment \in Nat
             /\ Append(traversed, Segment) = Prefix(Rule.path, Len(traversed) + 1)
             /\ Prefix(Append(traversed, Segment), Len(traversed)) = traversed
             /\ IsBelow(Rule.path, traversed)
             /\ ValueAt(response, Append(traversed, Segment)) = Member(current_value, Segment)
    <2>1. Len(traversed) < Len(Rule.path)
        BY <1>8, <1>9
    <2>2. Segment \in Nat
        BY <1>5, <1>6, <2>1 DEF Segment
    <2>3. /\ Append(traversed, Segment) = Prefix(Rule.path, Len(traversed) + 1)
          /\ Prefix(Append(traversed, Segment), Len(traversed)) = traversed
          /\ IsBelow(Rule.path, traversed)
        BY <1>5, <1>6, <2>1, LongerPrefix DEF Segment
    <2>4. ValueAt(response, Append(traversed, Segment)) = Member(current_value, Segment)
        BY <1>6, <2>2, ValueAtNext
    <2> QED
        BY <2>1, <2>2, <2>3, <2>4
<1> QED
    BY <1>4, <1>5, <1>6, <1>7, <1>9
\* When a rule has been explained, the next one starts at the top.
LEMMA WalkStartsAgain ==
    ASSUME IInv, WalkIsInStep, AllGenuine, Running,
           NEW told, Genuine(Rule, told), Rule = policy[Len(explanations) + 1],
           explanations' = Append(explanations, told),
           current_value' = response, traversed' = << >>, UNCHANGED <<vars, response>>
    PROVE  WalkIsInStep' /\ AllGenuine'
<1> DEFINE n == Len(explanations)
<1>1. /\ pc = "explain" /\ n \in Nat /\ response \in Responses
      /\ IsRecord(explanations) /\ DOMAIN explanations = 1..n
      /\ Len(rules) \in Nat /\ IsRecord(rules) /\ n < Len(rules)
    <2>1. Len(policy) = Len(rules)
        BY DEF policy, AsRules, IInv, RulesAreGood
    <2> QED
        BY <2>1 DEF Running, WalkIsInStep, IInv, RulesAreGood
<1>2. /\ IsRecord(explanations') /\ Len(explanations') = n + 1
      /\ DOMAIN explanations' = 1..(n + 1) /\ explanations'[n + 1] = told
      /\ \A i \in 1..n : explanations'[i] = explanations[i]
    BY <1>1, AppendFacts
<1>3. UNCHANGED <<given, rules, pc, error, accepted, response, policy>>
    BY DEF vars, policy
<1>4. /\ current_value' = ValueAt(response, << >>) /\ current_value' \in Values
      /\ traversed' \in Seq(Nat)
    BY <1>1, ValueAtTop, ResponsesAssumption
<1>5. Running' => /\ Len(traversed') <= Len(Rule.path')
                  /\ traversed' = Prefix(Rule.path', Len(traversed'))
    <2>1. ASSUME Running'
          PROVE  Rule.path' \in Seq(Nat)
        <3>1. n + 2 \in DOMAIN rules /\ Len(explanations') + 1 = n + 2
            BY <1>1, <1>2, <1>3, <2>1 DEF Running, policy, AsRules, IInv, RulesAreGood
        <3>2. Rule' = AsRule(rules[n + 2])
            BY <1>3, <3>1 DEF Rule, policy, AsRules
        <3>3. IsRule(AsRule(rules[n + 2]))
            BY <3>1 DEF IInv, RulesAreGood
        <3> QED
            BY <3>2, <3>3 DEF IsRule
    <2>2. ASSUME NEW path \in Seq(Nat)
          PROVE  Len(traversed') <= Len(path) /\ traversed' = Prefix(path, Len(traversed'))
        <3>1. 0 \in 0..Len(path)
            OBVIOUS
        <3>2. Prefix(path, 0) \in Seq(Nat) /\ Len(Prefix(path, 0)) = 0
            BY <3>1, PrefixFacts
        <3>3. Prefix(path, 0) = << >>
            BY <3>2
        <3> QED
            BY <3>3
    <2> QED
        BY <2>1, <2>2
<1>6. WalkIsInStep'
    BY <1>1, <1>2, <1>3, <1>4, <1>5 DEF WalkIsInStep
<1>7. AllGenuine'
    <2>1. ASSUME NEW i \in 1..(n + 1)
          PROVE  Genuine(policy[i], explanations'[i])
        <3>1. CASE i = n + 1
            BY <1>2, <3>1
        <3>2. CASE i # n + 1
            <4>1. i \in 1..n
                BY <1>1, <3>2
            <4> QED
                BY <1>1, <1>2, <4>1 DEF AllGenuine
        <3> QED
            BY <3>1, <3>2
    <2>2. \A rule, record : Genuine(rule, record)' <=> Genuine(rule, record)
        BY <1>3 DEF Genuine
    <2> QED
        BY <1>2, <1>3, <2>1, <2>2 DEF AllGenuine
<1> QED
    BY <1>6, <1>7
\* A record is genuine if it names an obstacle that is there and no bound.
LEMMA ObstacleTold ==
    ASSUME NEW rule, IsKnown(rule), NEW resolution \in {"member_absent", "parent_not_object"},
           NEW at, ValueAt(response, rule.path) = Absent,
           resolution = "member_absent" =>
             /\ at \in {Prefix(rule.path, n) : n \in 1..Len(rule.path)}
             /\ ValueAt(response, at) = Absent
             /\ ValueAt(response, Prefix(at, Len(at) - 1)).type = "object",
           resolution = "parent_not_object" =>
             /\ IsBelow(rule.path, at)
             /\ ValueAt(response, at).type \notin {"object", "absent"}
    PROVE  Genuine(rule, [reason_code |-> ReasonCode(rule, response),
                          resolution |-> resolution, at |-> at,
                          observed_type |-> "none", violated_bound |-> "none"])
<1>1. ReasonCode(rule, response) = "FIELD_MISSING"
    BY DEF ReasonCode
<1> QED
    BY <1>1 DEF Genuine

LEMMA ParentNotObjectStep ==
    ASSUME IInv, Exact, WalkIsInStep, AllGenuine, ParentNotObject
    PROVE  WalkIsInStep' /\ AllGenuine'
<1> DEFINE told == [reason_code |-> ReasonCode(Rule, response),
                    resolution |-> "parent_not_object", at |-> traversed,
                    observed_type |-> "none", violated_bound |-> "none"]
<1>1. /\ Running /\ traversed # Rule.path /\ current_value.type # "object"
      /\ explanations' = Append(explanations, told) /\ current_value' = response
      /\ traversed' = << >> /\ UNCHANGED <<vars, response>>
    BY DEF ParentNotObject, Explained
<1>2. /\ current_value = ValueAt(response, traversed) /\ traversed \in Seq(Nat)
      /\ IsKnown(Rule) /\ Rule.path \in Seq(Nat) /\ IsJsonValue(current_value)
      /\ IsBelow(Rule.path, traversed) /\ Rule = policy[Len(explanations) + 1]
    BY <1>1, WhereTheWalkIs DEF WalkIsInStep, Running
<1>3. ValueAt(response, Rule.path) = Absent
    BY <1>1, <1>2, WalkIsOver
<1>4. current_value.type \notin {"object", "absent"}
    BY <1>1, <1>2 DEF IsJsonValue, Types
<1>5. Genuine(Rule, told)
    BY <1>2, <1>3, <1>4, ObstacleTold
<1> HIDE DEF told
<1> QED
    BY <1>1, <1>2, <1>5, WalkStartsAgain

LEMMA MemberAbsentStep ==
    ASSUME IInv, Exact, WalkIsInStep, AllGenuine, MemberAbsent
    PROVE  WalkIsInStep' /\ AllGenuine'
<1> DEFINE at == Append(traversed, Segment)
           told == [reason_code |-> ReasonCode(Rule, response),
                    resolution |-> "member_absent", at |-> at,
                    observed_type |-> "none", violated_bound |-> "none"]
           n == Len(traversed)
<1>1. /\ Running /\ traversed # Rule.path /\ current_value.type = "object"
      /\ Segment \notin DOMAIN current_value.members
      /\ explanations' = Append(explanations, told) /\ current_value' = response
      /\ traversed' = << >> /\ UNCHANGED <<vars, response>>
    BY DEF MemberAbsent, Explained
<1>2. /\ current_value = ValueAt(response, traversed) /\ traversed \in Seq(Nat)
      /\ IsKnown(Rule) /\ Rule.path \in Seq(Nat)
      /\ Rule = policy[Len(explanations) + 1]
      /\ n < Len(Rule.path) /\ Segment \in Nat
      /\ at = Prefix(Rule.path, n + 1) /\ Prefix(at, n) = traversed
      /\ ValueAt(response, at) = Member(current_value, Segment)
    BY <1>1, WhereTheWalkIs DEF WalkIsInStep, Running
<1>3. n \in Nat /\ Len(at) - 1 = n /\ n + 1 \in 1..Len(Rule.path) /\ at \in Seq(Nat)
      /\ Len(at) = n + 1
    <2>1. n \in Nat /\ n + 1 \in 1..Len(Rule.path)
        BY <1>2
    <2>2. traversed \in Seq(Nat) /\ Segment \in Nat
        BY <1>2
    <2>3. at \in Seq(Nat) /\ Len(at) = n + 1
        BY <2>2
    <2> QED
        BY <2>1, <2>3
<1>4. ValueAt(response, at) = Absent
    BY <1>1, <1>2 DEF Member
<1>5. ValueAt(response, Rule.path) = Absent
    <2>1. CASE n + 1 = Len(Rule.path)
        <3>1. \A k \in 1..(n + 1) : at[k] = Rule.path[k]
            <4>1. n + 1 \in 0..Len(Rule.path)
                BY <1>2
            <4>2. \A k \in 1..(n + 1) : Prefix(Rule.path, n + 1)[k] = Rule.path[k]
                BY <1>2, <4>1, PrefixFacts
            <4> QED
                BY <1>2, <4>2, Zenon
        <3>2. at = Rule.path
            BY <1>2, <1>3, <2>1, <3>1, SamePath
        <3> QED
            BY <1>4, <3>2
    <2>2. CASE n + 1 # Len(Rule.path)
        <3>1. IsBelow(Rule.path, at)
            BY <1>2, <1>3, <2>2 DEF IsBelow
        <3> QED
            BY <1>2, <1>3, <1>4, <3>1, WalkIsOver DEF Absent
    <2> QED
        BY <2>1, <2>2
<1> HIDE DEF at, n
<1>6. /\ at \in {Prefix(Rule.path, k) : k \in 1..Len(Rule.path)}
      /\ ValueAt(response, Prefix(at, Len(at) - 1)).type = "object"
    BY <1>1, <1>2, <1>3
<1>7. Genuine(Rule, told)
    BY <1>2, <1>4, <1>5, <1>6, ObstacleTold
<1> HIDE DEF told
<1> QED
    BY <1>1, <1>2, <1>7, WalkStartsAgain

LEMMA ResolveStep ==
    ASSUME IInv, Exact, WalkIsInStep, AllGenuine, Resolve
    PROVE  WalkIsInStep' /\ AllGenuine'
<1> DEFINE value == current_value
           told == [reason_code |-> ReasonCode(Rule, response), resolution |-> "resolved",
                    at |-> << >>, observed_type |-> value.type,
                    violated_bound |-> IF Passes(Rule, response) THEN "none"
                                       ELSE ViolatedBound(Rule, value)]
<1>1. /\ Running /\ traversed = Rule.path
      /\ explanations' = Append(explanations, told) /\ current_value' = response
      /\ traversed' = << >> /\ UNCHANGED <<vars, response>>
    BY DEF Resolve, Explained
<1>2. /\ IsKnown(Rule) /\ Rule = policy[Len(explanations) + 1]
      /\ IsJsonValue(value) /\ value # Absent /\ value = ValueAt(response, Rule.path)
    BY <1>1, WhereTheWalkIs
<1> HIDE DEF value
<1>3. /\ ReasonCode(Rule, response) # "FIELD_MISSING"
      /\ Passes(Rule, response) <=> ReasonCode(Rule, response) = "RULE_SATISFIED"
      /\ Passes(Rule, response) <=> Satisfies(Rule, value)
    BY <1>2, ReasonFacts
<1>4. Passes(Rule, response) => value.type \in ExpectedTypes(Rule)
    BY <1>2, <1>3, PassingTypesAreExpected
<1>5. CASE Passes(Rule, response)
    <2>1. /\ told.resolution = "resolved" /\ told.reason_code = "RULE_SATISFIED"
          /\ told.observed_type = value.type /\ told.violated_bound = "none"
        BY <1>3, <1>5
    <2> HIDE DEF told
    <2>2. Genuine(Rule, told)
        BY <1>4, <1>5, <2>1 DEF Genuine
    <2> QED
        BY <1>1, <1>2, <2>2, WalkStartsAgain
<1>6. CASE ~Passes(Rule, response)
    <2>1. /\ told.resolution = "resolved"
          /\ told.reason_code \notin {"RULE_SATISFIED", "FIELD_MISSING"}
          /\ told.observed_type = value.type
          /\ told.violated_bound = ViolatedBound(Rule, value)
        BY <1>3, <1>6
    <2> HIDE DEF told
    <2>2. CASE Rule.kind \notin {"range", "length"} \/ value.type \notin ExpectedTypes(Rule)
        <3>1. told.violated_bound = "none"
            BY <2>1, <2>2 DEF ViolatedBound
        <3>2. Genuine(Rule, told)
            BY <2>1, <2>2, <3>1 DEF Genuine
        <3> QED
            BY <1>1, <1>2, <3>2, WalkStartsAgain
    <2>3. CASE Rule.kind \in {"range", "length"} /\ value.type \in ExpectedTypes(Rule)
        <3>1. LET measured == IF Rule.kind = "range" THEN value.halves ELSE Length(value)
                  bound == ViolatedBound(Rule, value)
              IN /\ bound \in {"minimum", "maximum"}
                 /\ bound = "minimum" => \E low \in Rule.minimum : measured < low
                 /\ bound = "maximum" => \E high \in Rule.maximum : measured > high
            BY <1>2, <1>3, <1>6, <2>3, BoundIsCrossed
        <3>2. Genuine(Rule, told)
            BY <1>2, <2>1, <2>3, <3>1 DEF Genuine
        <3> QED
            BY <1>1, <1>2, <3>2, WalkStartsAgain
    <2> QED
        BY <2>2, <2>3
<1> QED
    BY <1>5, <1>6
LEMMA DescendStep ==
    ASSUME IInv, Exact, WalkIsInStep, AllGenuine, Descend
    PROVE  WalkIsInStep' /\ AllGenuine'
<1> DEFINE n == Len(traversed)
<1>1. /\ Running /\ traversed # Rule.path /\ Member(current_value, Segment) # Absent
      /\ current_value' = Member(current_value, Segment)
      /\ traversed' = Append(traversed, Segment)
      /\ UNCHANGED <<vars, response, explanations>>
    BY DEF Descend
<1>2. UNCHANGED <<given, rules, pc, error, accepted, response, explanations, policy>>
    BY <1>1 DEF vars, policy
<1>3. Running' /\ Rule' = Rule
    BY <1>1, <1>2 DEF Running, Rule
<1>4. /\ IsJsonValue(current_value) /\ n < Len(Rule.path) /\ Segment \in Nat
      /\ Append(traversed, Segment) = Prefix(Rule.path, n + 1)
      /\ ValueAt(response, Append(traversed, Segment)) = Member(current_value, Segment)
      /\ traversed \in Seq(Nat) /\ Rule.path \in Seq(Nat) /\ pc = "explain"
    BY <1>1, WhereTheWalkIs DEF WalkIsInStep, Running
<1>5. current_value' \in Values
    BY <1>1, <1>4 DEF Member, IsJsonValue
<1>6. /\ traversed' \in Seq(Nat) /\ Len(traversed') = n + 1
      /\ n + 1 <= Len(Rule.path)
    <2>1. traversed \in Seq(Nat) /\ Segment \in Nat /\ Len(Rule.path) \in Nat
        BY <1>4
    <2>2. Append(traversed, Segment) \in Seq(Nat) /\ Len(Append(traversed, Segment)) = n + 1
        BY <2>1
    <2>3. n \in Nat /\ n + 1 <= Len(Rule.path)
        BY <1>4, <2>1
    <2> QED
        BY <1>1, <2>2, <2>3, Zenon DEF n
<1>7. WalkIsInStep'
    BY <1>1, <1>2, <1>3, <1>4, <1>5, <1>6 DEF WalkIsInStep
<1>8. AllGenuine'
    <2>1. \A rule, record : Genuine(rule, record)' <=> Genuine(rule, record)
        BY <1>2 DEF Genuine
    <2> QED
        BY <1>2, <2>1 DEF AllGenuine
<1> QED
    BY <1>7, <1>8

LEMMA BeginStep ==
    ASSUME IInv, WalkIsInStep, Begin
    PROVE  WalkIsInStep' /\ AllGenuine'
<1>1. /\ pc = "valid" /\ pc' = "explain" /\ response' \in Responses
      /\ current_value' = response'
      /\ UNCHANGED <<given, rules, error, accepted, traversed, explanations>>
      /\ explanations = << >> /\ traversed = << >>
    BY DEF Begin, WalkIsInStep
<1>2. /\ Len(rules) \in Nat /\ DOMAIN rules = 1..Len(rules) /\ Len(rules) > 0
      /\ IsRule(AsRule(rules[1]))
    BY <1>1 DEF IInv, RulesAreGood, ThereAreRules
<1>3. Rule'.path = AsRule(rules[1]).path
    <2>1. Len(explanations') + 1 = 1 /\ 1 \in DOMAIN rules
        BY <1>1, <1>2
    <2> QED
        BY <1>1, <2>1 DEF Rule, policy, AsRules
<1>4. Rule'.path \in Seq(Nat) /\ 0 \in 0..Len(Rule'.path)
    BY <1>2, <1>3 DEF IsRule
<1>5. Prefix(Rule'.path, 0) = << >>
    <2>1. ASSUME NEW path \in Seq(Nat), 0 \in 0..Len(path)
          PROVE  Prefix(path, 0) = << >>
        BY PrefixFacts
    <2> QED
        BY <1>4, <2>1
<1>6. current_value' = ValueAt(response', traversed') /\ current_value' \in Values
    BY <1>1, ValueAtTop, ResponsesAssumption
<1>7. WalkIsInStep'
    BY <1>1, <1>2, <1>4, <1>5, <1>6 DEF WalkIsInStep, IsRecord
<1> QED
    BY <1>1, <1>7 DEF AllGenuine

ExplainInv == IInv /\ Exact /\ WalkIsInStep /\ AllGenuine

LEMMA ExplainAtFirst == ExplainInit => ExplainInv
<1> SUFFICES ASSUME ExplainInit PROVE ExplainInv
    OBVIOUS
<1>1. IInv /\ Exact
    BY InvariantAtFirst, ExactAtFirst DEF ExplainInit
<1>2. pc = "start" /\ explanations = << >> /\ traversed = << >>
    BY DEF ExplainInit, Init
<1> QED
    BY <1>1, <1>2 DEF ExplainInv, WalkIsInStep, AllGenuine

LEMMA ExplainIsStep == [ExplainNext]_explain_vars => [Step]_vars
    BY DEF ExplainNext, explain_vars, Validate, Begin, Step, Explains, ParentNotObject,
           MemberAbsent, Descend, Resolve, Explained, AllExplained

LEMMA ExplainIsKept == ExplainInv /\ [ExplainNext]_explain_vars => ExplainInv'
<1> SUFFICES ASSUME ExplainInv, [ExplainNext]_explain_vars PROVE ExplainInv'
    OBVIOUS
<1>1. IInv /\ Exact /\ WalkIsInStep /\ AllGenuine
    BY DEF ExplainInv
<1>2. IInv' /\ Exact'
    BY <1>1, ExplainIsStep, InvariantIsKept, ExactIsKept
<1> SUFFICES WalkIsInStep' /\ AllGenuine'
    BY <1>2 DEF ExplainInv
<1>3. CASE Validate
    <2>1. /\ pc # "explain" /\ pc' # "explain"
          /\ explanations' = << >> /\ traversed' = << >>
        <3>1. pc # "explain" /\ pc' # "explain" /\ UNCHANGED <<traversed, explanations>>
            BY <1>3 DEF Validate, Next, RefuseFields, RefusePolicy, BeginRules, RefuseRule,
                        AddRule, Return, ValidateAgain, Ended, Raise, vars
        <3> QED
            BY <1>1, <3>1 DEF WalkIsInStep
    <2> QED
        BY <2>1 DEF WalkIsInStep, AllGenuine
<1>4. CASE AllExplained \/ UNCHANGED explain_vars
    <2>1. UNCHANGED <<given, rules, pc, error, accepted, response, current_value, traversed,
                      explanations>>
        BY <1>4 DEF AllExplained, explain_vars, vars
    <2>2. \A rule, record : Genuine(rule, record)' <=> Genuine(rule, record)
        BY <2>1 DEF Genuine
    <2>3. UNCHANGED <<policy, Running, Rule>>
        BY <2>1 DEF policy, Running, Rule
    <2> QED
        BY <1>1, <2>1, <2>2, <2>3 DEF WalkIsInStep, AllGenuine
<1> QED
    BY <1>1, <1>3, <1>4, BeginStep, ParentNotObjectStep, MemberAbsentStep, DescendStep,
       ResolveStep DEF ExplainNext

LEMMA GenuineIsEnough == ExplainInv => ExplanationIsGenuine
<1> SUFFICES ASSUME ExplainInv PROVE ExplanationIsGenuine
    OBVIOUS
<1>1. \A i \in DOMAIN explanations : Genuine(policy[i], explanations[i])
    BY DEF ExplainInv, AllGenuine
<1>2. ExplanationFitsVerdict
    BY <1>1 DEF ExplainInv, WalkIsInStep, ExplanationFitsVerdict, Genuine
<1>3. ObstacleIsGenuine
    BY <1>1 DEF ObstacleIsGenuine, Genuine
<1>4. ViolatedBoundIsGenuine
    BY <1>1 DEF ViolatedBoundIsGenuine, Genuine
<1> QED
    BY <1>2, <1>3, <1>4 DEF ExplanationIsGenuine

LEMMA ExplainInvariant == ExplainSpec => []ExplainInv
    BY ExplainAtFirst, ExplainIsKept, PTL DEF ExplainSpec

\* The same three hold on the way to an explanation.
THEOREM ValidationIsSoundForExplanations ==
    ExplainSpec => [](AcceptedIsWellFormed /\ LintFindingsAreReal /\ ValidationIsExact)
<1>1. ExplainInv => AcceptedIsWellFormed /\ LintFindingsAreReal /\ ValidationIsExact
    BY ExactIsEnough, GoodRulesAreEnough DEF ExplainInv
<1> QED
    BY <1>1, ExplainInvariant, PTL

\* Whatever the policy and the response, explain_response walks where the
\* evaluator looked: its records agree with the verdicts, the places where the
\* walk stops are as it says, and a bound it names is crossed.
THEOREM ExplanationsAreGenuine == ExplainSpec => []ExplanationIsGenuine
    BY ExplainInvariant, GenuineIsEnough, PTL
=============================================================================
