-------------------------------- MODULE Lint --------------------------------
(***************************************************************************)
(* lint_policy of authoring.py: contradictions between the rules of one    *)
(* path, and between a rule and the rules below its path, found from the   *)
(* finite sets of values that rules allow.  The byte budget is abstracted: *)
(* it only ends the analysis with an error.  Bounds are numbers here, so    *)
(* that rules which write one as 1 and as 1.0 count as duplicates, which    *)
(* the markers of the code tell apart; what is shown of duplicates holds    *)
(* for more pairs than the code reports.  Of several rules alike, the code  *)
(* pairs each with the first.                                              *)
(***************************************************************************)
EXTENDS Evaluator

\* _domain, for the rules that have one.
HasDomain(rule) == rule.kind \in {"equals", "one_of", "false", "empty_list"}

Domain(rule) ==
    CASE rule.kind = "equals" -> {rule.value}
      [] rule.kind = "one_of" -> {rule.values[i] : i \in DOMAIN rule.values}
      [] rule.kind = "false" -> {Boolean("false")}
      [] rule.kind = "empty_list" -> {Array(<< >>)}

IsFilter(rule) == rule.kind \in {"type", "range", "length"}

At(policy, path) == {i \in DOMAIN policy : policy[i].path = path}

Finite(policy, path) == {i \in At(policy, path) : HasDomain(policy[i])}

Filters(policy, path) == {i \in At(policy, path) : IsFilter(policy[i])}

\* The values that every finite rule of a path allows.
Shared(policy, path) ==
    {value \in UNION {Domain(policy[i]) : i \in Finite(policy, path)} :
        \A i \in Finite(policy, path) : value \in Domain(policy[i])}

\* Mutant: a filter that refuses one of several values is a conflict.
BugFiltersOneByOne(policy, path) ==
    \/ Shared(policy, path) = {}
    \/ \E value \in Shared(policy, path), i \in Filters(policy, path) :
          ~Satisfies(policy[i], value)

\* DISJOINT_CONSTRAINTS: no value is allowed by all and passes every filter.
Disjoint(policy, path) ==
    \A value \in Shared(policy, path) :
        \E i \in Filters(policy, path) : ~Satisfies(policy[i], value)

DisjointPaths(policy) ==
    {path \in {policy[i].path : i \in DOMAIN policy} :
        Finite(policy, path) # {} /\ Disjoint(policy, path)}

\* child.path[len(path) + 1:]
Below(child, path) ==
    [child EXCEPT !.path = SubSeq(child.path, Len(path) + 1, Len(child.path))]

Descendants(policy, path) == {j \in DOMAIN policy : IsBelow(policy[j].path, path)}

\* INCOMPATIBLE_DESCENDANTS of the rule at an index: none of its values is an
\* object that passes every rule below it.
IncompatibleRules(policy) ==
    {i \in DOMAIN policy :
        LET path == policy[i].path IN
        /\ HasDomain(policy[i])
        /\ Descendants(policy, path) # {}
        /\ \A value \in Domain(policy[i]) :
              \/ value.type # "object"
              \/ \E j \in Descendants(policy, path) :
                    ~Passes(Below(policy[j], path), value)}

\* Mutant: the bounds are not part of the marker.
BugMarkerWithoutBounds(rule) ==
    [kind |-> rule.kind,
     domain |-> IF HasDomain(rule) THEN Domain(rule) ELSE {}, types |-> rule.types]

\* _constraint_marker: the values of one_of and the types of type are sets.
ConstraintMarker(rule) ==
    [kind |-> rule.kind,
     domain |-> IF HasDomain(rule) THEN Domain(rule) ELSE {},
     types |-> rule.types, minimum |-> rule.minimum, maximum |-> rule.maximum]

\* DUPLICATE_CONSTRAINT: pairs of rules of a path with the same marker.
Duplicates(policy) ==
    {pair \in (DOMAIN policy) \X (DOMAIN policy) :
        /\ pair[1] < pair[2]
        /\ policy[pair[1]].path = policy[pair[2]].path
        /\ ConstraintMarker(policy[pair[1]]) = ConstraintMarker(policy[pair[2]])}

HasConflicts(policy) == DisjointPaths(policy) # {} \/ IncompatibleRules(policy) # {}
=============================================================================
