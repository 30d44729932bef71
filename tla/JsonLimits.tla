----------------------------- MODULE JsonLimits -----------------------------
(***************************************************************************)
(* ensure_json_value of common.py: the walk, with a stack of its own, that *)
(* every policy, response and result passes, here what load_json_stream    *)
(* has read and json.loads has made of it.                                 *)
(*                                                                         *)
(* The value is taken to be any Python objects, as those of a caller may   *)
(* be: a graph.  A container refers to other objects, the same one more    *)
(* than once (copy_json_tree and json.dumps write it out once for each     *)
(* reference), or itself.  The walk keeps no record of what it has seen;   *)
(* its two limits have to do.                                              *)
(***************************************************************************)
EXTENDS JsonInput, SequencesExt

CONSTANTS
    Objects,          \* the Python objects
    Root,             \* the one that is `value`
    Heaps(_),         \* what the objects may be, for each source: functions from Objects
    MAX_JSON_NESTING,
    MAX_JSON_NODES

Scalars == {"portable", "invalid_text", "non_finite"}

\* What can be said of an item's key; the items of a list have "none".
Keys == {"none", "text", "invalid_text", "not_text"}

IsObject(o) ==
    \/ o.kind \in Scalars \cup {"unsupported"} /\ o.items = << >>
    \/ /\ o.kind \in {"list", "dict"}
       /\ o.items \in Seq([object : Objects, key : Keys])
       /\ \A i \in DOMAIN o.items : o.items[i].key = "none" <=> o.kind = "list"

ASSUME HeapsAssumption ==
    /\ Root \in Objects
    /\ \A s \in Sources : \A h \in Heaps(s) : \A o \in Objects : IsObject(h[o])

ASSUME LimitsAssumption == MAX_JSON_NESTING \in Nat /\ MAX_JSON_NODES \in Nat

VARIABLES
    heap,   \* what the objects are
    stack,  \* pairs of an object and the depth of the container it is in
    nodes,  \* the values taken from the stack
    walk    \* none, walking, accepted, or the reason of the error

walk_vars == <<heap, stack, nodes, walk>>
limits_vars == <<vars, walk_vars>>

LimitsInit ==
    /\ Init
    /\ heap = << >>
    /\ stack = << >>
    /\ nodes = 0
    /\ walk = "none"

ReadInput == Next /\ UNCHANGED walk_vars

\* There is a value.
Begin ==
    /\ outcome = "value" /\ walk = "none"
    /\ heap' \in Heaps(source)
    /\ stack' = <<[object |-> Root, container_depth |-> 0]>>
    /\ walk' = "walking"
    /\ UNCHANGED nodes

Top == Last(stack)
current == heap[Top.object]
next_depth == Top.container_depth + 1

\* Mutant: only containers count as nodes.
BugScalarsAreFree ==
    /\ walk = "walking" /\ stack # << >>
    /\ nodes' = IF current.kind \in Scalars THEN nodes ELSE nodes + 1
    /\ UNCHANGED heap

Taken ==
    /\ walk = "walking" /\ stack # << >>
    /\ nodes' = nodes + 1
    /\ UNCHANGED heap

Stop(reason) == walk' = reason /\ stack' = Front(stack)

TooManyNodes ==
    /\ Taken
    /\ nodes' > MAX_JSON_NODES
    /\ Stop("nodes")

Scalar ==
    /\ Taken
    /\ nodes' <= MAX_JSON_NODES
    /\ current.kind \in Scalars
    /\ IF current.kind = "portable" THEN stack' = Front(stack) /\ UNCHANGED walk
       ELSE Stop(current.kind)

\* Mutant: the depth of the container around it is compared.
BugDepthOffByOne == Top.container_depth > MAX_JSON_NESTING

\* An object of an unsupported type counts as a container until it is refused.
TooDeep == next_depth > MAX_JSON_NESTING

ExceedDepth ==
    /\ Taken
    /\ nodes' <= MAX_JSON_NODES
    /\ current.kind \notin Scalars
    /\ TooDeep
    /\ Stop("nesting")

\* The items whose keys are refused; the first one decides.
KeyFaults == {i \in DOMAIN current.items : current.items[i].key \notin {"none", "text"}}

FirstFault == CHOOSE i \in KeyFaults : \A j \in KeyFaults : i <= j

Items ==
    [i \in DOMAIN current.items |->
        [object |-> current.items[i].object, container_depth |-> next_depth]]

Container ==
    /\ Taken
    /\ nodes' <= MAX_JSON_NODES
    /\ current.kind \in {"list", "dict"}
    /\ ~TooDeep
    /\ IF KeyFaults = {} THEN stack' = Front(stack) \o Items /\ UNCHANGED walk
       ELSE Stop(current.items[FirstFault].key)

Unsupported ==
    /\ Taken
    /\ nodes' <= MAX_JSON_NODES
    /\ current.kind = "unsupported"
    /\ ~TooDeep
    /\ Stop("unsupported")

Accept ==
    /\ walk = "walking" /\ stack = << >>
    /\ walk' = "accepted"
    /\ UNCHANGED <<heap, stack, nodes>>

Walk ==
    /\ Begin \/ TooManyNodes \/ Scalar \/ ExceedDepth \/ Container \/ Unsupported \/ Accept
    /\ UNCHANGED vars

LimitsNext == ReadInput \/ Walk

\* Once there is a value, the walk is the only thing that runs.
LimitsSpec == LimitsInit /\ [][LimitsNext]_limits_vars /\ WF_limits_vars(Walk)

-----------------------------------------------------------------------------
(* Properties.                                                             *)

Children(o) == {heap[o].items[i].object : i \in DOMAIN heap[o].items}

\* The objects for which json.dumps would nest no deeper than n.
NestsWithin[n \in 0..MAX_JSON_NESTING] ==
    {o \in Objects : heap[o].kind \in Scalars \/ (n > 0 /\ Children(o) \subseteq NestsWithin[n - 1])}

SumOf(list) ==
    LET Sums[k \in 0..Len(list)] == IF k = 0 THEN 0 ELSE Sums[k - 1] + list[k]
    IN Sums[Len(list)]

\* How many values it would write for an object, down to that depth.
Written[n \in 0..MAX_JSON_NESTING] ==
    [o \in Objects |->
        IF n = 0 THEN 1
        ELSE 1 + SumOf([i \in DOMAIN heap[o].items |-> Written[n - 1][heap[o].items[i].object]])]

\* The objects it would write, down to that depth.
Reached[n \in 0..MAX_JSON_NESTING] ==
    [o \in Objects |->
        {o} \cup (IF n = 0 THEN {} ELSE UNION {Reached[n - 1][child] : child \in Children(o)})]

IsPortable(o) ==
    /\ o.kind \in {"portable", "list", "dict"}
    /\ \A i \in DOMAIN o.items : o.items[i].key \in {"none", "text"}

\* The limits as README states them for a JSON text: nesting, values, and only
\* what strict JSON can say.
IsBoundedJson ==
    /\ Root \in NestsWithin[MAX_JSON_NESTING]
    /\ Written[MAX_JSON_NESTING][Root] <= MAX_JSON_NODES
    /\ \A o \in Reached[MAX_JSON_NESTING][Root] : IsPortable(heap[o])

\* The reason given for a refusal is a fault the value has.
ReasonIsTrue ==
    CASE walk = "nodes" -> Written[MAX_JSON_NESTING][Root] > MAX_JSON_NODES
      [] walk = "nesting" -> Root \notin NestsWithin[MAX_JSON_NESTING]
      [] OTHER -> \E o \in Reached[MAX_JSON_NESTING][Root] :
                     \/ heap[o].kind = walk
                     \/ \E i \in DOMAIN heap[o].items : heap[o].items[i].key = walk

AcceptedIsExact ==
    walk = "accepted" => IsBoundedJson /\ nodes = Written[MAX_JSON_NESTING][Root]

RefusalIsExact ==
    walk \notin {"none", "walking", "accepted"} => ~IsBoundedJson /\ ReasonIsTrue

\* Shared objects, and objects that contain themselves, are measured as they
\* would be written: the walk accepts exactly the values whose text is within
\* the limits, gives a true reason otherwise, never takes more than one value
\* over the limit, and ends.
EveryValueIsDecided ==
    /\ [](AcceptedIsExact /\ RefusalIsExact /\ nodes <= MAX_JSON_NODES + 1)
    /\ outcome = "value" ~> walk \notin {"none", "walking"}
=============================================================================
