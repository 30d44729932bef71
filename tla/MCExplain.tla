------------------------------ MODULE MCExplain ------------------------------
(***************************************************************************)
(* Policies of one rule with every combination of fields, as Policy        *)
(* objects and as documents, documents with a field too many or too few,   *)
(* policies of up to three rules that are well formed or not, pairs of     *)
(* rules that agree or contradict each other, and every kind of rule at    *)
(* paths of one and two segments.                                          *)
(***************************************************************************)
EXTENDS Explain, MCPolicies

PolicyOf(version, rule_list) ==
    [form |-> "policy", members |-> {"schema_version", "policy_id", "rules"},
     schema_version |-> version, policy_id |-> 1, rules |-> rule_list]

DocumentOf(version, raw_rules) ==
    [form |-> "document", members |-> {"schema_version", "policy_id", "rules"},
     schema_version |-> version, policy_id |-> 1, rules |-> raw_rules]

Built ==
    [rule_id : {1}, kind : Kinds \cup {"unknown"}, path : {A}, value : {Null, Integer(0)},
     values : {<< >>, <<Integer(1), One>>, <<Null, Null>>, <<Null, False, One>>},
     types : {<< >>, <<"number", "string">>, <<"string", "string">>, <<"integer", "number">>,
              <<"text">>, <<"array", "boolean", "null", "number", "object", "string">>},
     minimum : {{}, {Integer(1)}, {Half}, {Integer(-1)}, {False}},
     maximum : {{}, {Integer(0)}, {Number(3, "1.5")}, {Integer(5)}}]

\* Rules of a document, faults within their own fields included.
Raw == {RawRule(rule) : rule \in Built}

Without(raw_rule, field) == [f \in DOMAIN raw_rule \ {field} |-> raw_rule[f]]
With(raw_rule, field, value) ==
    [f \in DOMAIN raw_rule \cup {field} |-> IF f = field THEN value ELSE raw_rule[f]]

OddRaw ==
    {Without(raw_rule, field) : raw_rule \in Raw,
         field \in {"rule_id", "kind", "path", "value", "values", "types", "minimum"}}
      \cup {With(raw_rule, field, Null) : raw_rule \in Raw, field \in {"extra", "value", "minimum"}}
      \cup {With(raw_rule, "rule_id", 0) : raw_rule \in Raw}
      \cup {With(raw_rule, "path", path) : raw_rule \in Raw, path \in {<< >>, AB, ABC}}

\* The same rule in the form of policy.py, bounds as they are written.
Written(id, rule) ==
    [rule_id |-> id, kind |-> rule.kind, path |-> rule.path, value |-> rule.value,
     values |-> rule.values, types |-> SetToSeq(rule.types),
     minimum |-> {IF rule.kind = "length" THEN Integer(n) ELSE Number(n, "") : n \in rule.minimum},
     maximum |-> {IF rule.kind = "length" THEN Integer(n) ELSE Number(n, "") : n \in rule.maximum}]

SomeRules(id) ==
    {Written(id, rule) : rule \in
        {Required(A), Equals(B, Null), OneOf(A, <<Null, False>>), HasType(AB, {"string"}),
         HasLength(B, {0}, {2}), InRange(B, {2}, {1}), Plain("unknown", A), Plain("type", A)}}

ManyRules ==
    LET some == SomeRules(1) \cup SomeRules(2)
    IN (some \X some) \cup (SomeRules(1) \X SomeRules(2) \X SomeRules(3))

Related ==
    {<<Written(1, one), Written(2, two)>> :
        one \in FiniteRules \cup FilterRules, two \in FiniteRules \cup FilterRules}

RulesAt(path) ==
    {Required(path), IsFalse(path), IsEmptyList(path), Equals(path, Integer(1)),
     Equals(path, Null), OneOf(path, <<One, String(0)>>), OneOf(path, <<EmptyObject>>),
     HasType(path, {"number"}), HasType(path, {"integer", "object"}),
     HasType(path, Types \ {"integer", "number"}), InRange(path, {0}, {1}),
     InRange(path, {}, {1}), InRange(path, {2}, {}), HasLength(path, {1}, {1}),
     HasLength(path, {}, {0}), HasLength(path, {1}, {}), HasLength(path, {0}, {})}

AllRules == RulesAt(A) \cup RulesAt(AB)

PairRules == {Required(AB), InRange(B, {1}, {2}), HasLength(A, {1}, {1}),
              HasType(ABC, {"null"})}

ToExplain ==
    {<<Written(1, rule)>> : rule \in AllRules}
      \cup {<<Written(1, first), Written(2, second)>> : first, second \in PairRules}

ExplainResponses ==
    LET inner == Leaves \cup {ObjB(leaf) : leaf \in Leaves} \cup {ObjB(ObjC(Null)), ObjB(ObjC(False))}
    IN {EmptyObject} \cup {Object(Pair(1, value)) : value \in inner}
         \cup {ObjB(value) : value \in {Integer(0), Half, Integer(2), Null}}

OddPolicies ==
    LET raw_rules == <<RawRule(Written(1, Required(A)))>>
        document == DocumentOf("1.1", raw_rules)
    IN {[document EXCEPT !.form = "other"], [document EXCEPT !.schema_version = "2.0"],
        [document EXCEPT !.policy_id = 0], [document EXCEPT !.rules = << >>],
        [document EXCEPT !.members = @ \ {"rules"}], [document EXCEPT !.members = @ \cup {"extra"}],
        DocumentOf("1.1", raw_rules \o raw_rules \o raw_rules \o raw_rules),
        PolicyOf("1.0", << >>), DocumentOf("1.1", << << >> >>)}

AllGiven ==
    {PolicyOf("1.1", <<rule>>) : rule \in Built}
      \cup {DocumentOf(version, <<raw_rule>>) : version \in {"1.0", "1.1"}, raw_rule \in Raw}
      \cup {DocumentOf("1.1", <<raw_rule>>) : raw_rule \in OddRaw}
      \cup {PolicyOf(version, many) : version \in {"1.0", "1.1"}, many \in ManyRules}
      \cup {PolicyOf("1.1", pair) : pair \in Related \cup ToExplain}
      \cup OddPolicies

AllResponses == PoolResponses \cup ExplainResponses

WithMembers(values) ==
    values \cup UNION {{value.members[name] : name \in DOMAIN value.members} :
                         value \in {v \in values : v.type = "object"}}

AllValues == WithMembers(WithMembers(WithMembers(AllResponses)))
=============================================================================
