----------------------------- MODULE MCPolicies -----------------------------
(***************************************************************************)
(* Values, rules and responses for the small instances of the modules that *)
(* build on the evaluator: three member names, paths up to three deep, and *)
(* values of every JSON type with the edges that the rules tell apart.     *)
(***************************************************************************)
EXTENDS Evaluator

A == <<1>>
AB == <<1, 2>>
AC == <<1, 3>>
ABC == <<1, 2, 3>>
B == <<2>>

False == Boolean("false")
Half == Number(1, "0.5")
One == Number(2, "1.0")
Zero == Number(0, "-0.0")

Leaves == {Null, False, Boolean("true"), Integer(0), Integer(1), Integer(2), Half,
           One, Zero, String(0), String(2), Array(<< >>), Array(<<Null>>), EmptyObject}

Pair(name, value) == [n \in {name} |-> value]

ObjB(value) == Object(Pair(2, value))
ObjC(value) == Object(Pair(3, value))

Plain(kind, path) ==
    [kind |-> kind, path |-> path, value |-> Null, values |-> << >>, types |-> {},
     minimum |-> {}, maximum |-> {}]

Required(path) == Plain("required_field", path)
IsFalse(path) == Plain("false", path)
IsEmptyList(path) == Plain("empty_list", path)
Equals(path, value) == [Plain("equals", path) EXCEPT !.value = value]
OneOf(path, values) == [Plain("one_of", path) EXCEPT !.values = values]
HasType(path, types) == [Plain("type", path) EXCEPT !.types = types]
InRange(path, low, high) ==
    [Plain("range", path) EXCEPT !.minimum = low, !.maximum = high]
HasLength(path, low, high) ==
    [Plain("length", path) EXCEPT !.minimum = low, !.maximum = high]

\* Rules that agree and contradict each other in every combination.
ObjBC(first, second) == Object([n \in {2, 3} |-> IF n = 2 THEN first ELSE second])

FiniteRules ==
    {Required(B), Required(A), Required(ABC), IsFalse(AB), IsEmptyList(AB),
     OneOf(AB, <<Integer(1), One, EmptyObject>>), OneOf(AB, <<One, String(0)>>),
     Equals(AC, Null), Equals(A, ObjB(Integer(1))), Equals(A, ObjB(EmptyObject)),
     OneOf(A, <<Null, ObjB(One), ObjBC(False, Null)>>),
     OneOf(A, <<ObjB(ObjC(Null)), ObjB(One)>>)}

FilterRules ==
    {HasType(AB, {"number"}), HasType(AB, {"integer", "string"}),
     HasType(A, {"object", "string"}), InRange(AB, {1}, {2}), InRange(AB, {2}, {3}),
     HasLength(AB, {1}, {}), HasLength(A, {2}, {}), HasLength(A, {}, {1})}

\* A response for every policy of up to three of these rules that any passes.
Inner == {Null, False, Integer(0), Integer(1), Half, One, Number(3, "1.5"), String(0),
          String(1), Array(<< >>), Array(<<Null>>), EmptyObject, ObjC(Null)}

PoolResponses ==
    LET atA == {Null, String(0), String(1), String(2), Array(<< >>), Integer(0), EmptyObject}
                 \cup {ObjB(value) : value \in Inner} \cup {ObjC(Null)}
                 \cup {ObjBC(value, Null) : value \in Inner}
    IN {EmptyObject, ObjB(Null)} \cup {Object(Pair(1, value)) : value \in atA}
         \cup {Object([n \in {1, 2} |-> IF n = 1 THEN value ELSE Null]) : value \in atA}

Named(id, rule) ==
    [rule_id |-> id, kind |-> rule.kind, path |-> rule.path, value |-> rule.value,
     values |-> rule.values, types |-> rule.types, minimum |-> rule.minimum,
     maximum |-> rule.maximum]
=============================================================================
