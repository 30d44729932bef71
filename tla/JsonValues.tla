------------------------------ MODULE JsonValues ------------------------------
(***************************************************************************)
(* JSON values as the evaluator tells them apart, and what the dot-path    *)
(* helpers of common.py and synthetic.py do with them.                     *)
(*                                                                         *)
(* A value is a record tagged with its json_type_name; two values are the  *)
(* same record exactly when canonical_json gives the same text, so 1, 1.0, *)
(* -0.0 and true are four values.  Numbers are counted in halves, which    *)
(* leaves room for a fraction; member names are natural numbers, whose     *)
(* order stands for the order of strings; a path is a sequence of names.   *)
(***************************************************************************)
EXTENDS Integers, Sequences

Null == [type |-> "null"]
Boolean(literal) == [type |-> "boolean", literal |-> literal]
Integer(n) == [type |-> "integer", halves |-> 2 * n]
Number(halves, literal) ==
    [type |-> "number", halves |-> halves, literal |-> literal]
String(length) == [type |-> "string", length |-> length]
Array(items) == [type |-> "array", items |-> items]
Object(members) == [type |-> "object", members |-> members]

EmptyObject == Object(<< >>)

\* get_field's (False, None).
Absent == [type |-> "absent"]

Member(value, name) ==
    IF value.type = "object" /\ name \in DOMAIN value.members
    THEN value.members[name] ELSE Absent

Prefix(path, n) == SubSeq(path, 1, n)

\* get_field: the value at a path, or Absent.
ValueAt(document, path) ==
    LET At[n \in 0..Len(path)] ==
            IF n = 0 THEN document ELSE Member(At[n - 1], path[n])
    IN At[Len(path)]

\* `current[name] = child`, in the object already there or in a new one.
Put(value, name, child) ==
    LET members == IF value.type = "object" THEN value.members ELSE << >>
    IN Object([m \in DOMAIN members \cup {name} |->
                  IF m = name THEN child ELSE members[m]])

\* _assign_path, where it does not raise.
AssignPath(document, path, value) ==
    LET Built[n \in 0..Len(path)] ==
            IF n = Len(path) THEN value
            ELSE Put(ValueAt(document, Prefix(path, n)), path[n + 1], Built[n + 1])
    IN Built[0]

\* _assign_path raises when a value on the way is neither an object nor null.
AssignRaises(document, path) ==
    \E n \in 1..(Len(path) - 1) :
        ValueAt(document, Prefix(path, n)).type \notin {"absent", "null", "object"}

\* _candidate_view.
CandidateView(path, value) == AssignPath(EmptyObject, path, value)

\* _delete_path returns False and changes nothing when the path is absent.
DeletePath(document, path) ==
    LET parent  == Prefix(path, Len(path) - 1)
        members == ValueAt(document, parent).members
    IN IF ValueAt(document, path) = Absent THEN document
       ELSE AssignPath(document, parent,
                Object([m \in DOMAIN members \ {path[Len(path)]} |-> members[m]]))

\* path.startswith(ancestor + ".")
IsBelow(path, ancestor) ==
    /\ Len(path) > Len(ancestor)
    /\ Prefix(path, Len(ancestor)) = ancestor
=============================================================================
