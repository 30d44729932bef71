----------------------------- MODULE RuleOrders -----------------------------
(***************************************************************************)
(* The orders in which the rules of a policy can be evaluated, as          *)
(* precedence.py handles them: every permutation of the declared rules, in *)
(* the order in which itertools.permutations yields them, the exchange of  *)
(* two neighbouring rules, and the adjacent-swap path between two orders.  *)
(*                                                                         *)
(* A policy is represented by the sequence of its rule ids, in declared    *)
(* order.  Rule ids are numbers, and the order of the numbers stands for   *)
(* the order of the id strings (sorted() compares them in the code), which *)
(* need not be the declared order.                                         *)
(***************************************************************************)
EXTENDS Integers, Sequences, Functions, SequencesExt

RuleIds(policy) == Range(policy)

\* list(permutations(validated_policy.rules)), as a set.
Orders(policy) ==
    {order \in [DOMAIN policy -> RuleIds(policy)] : IsInjective(order)}

\* The declared position of a rule, by which permutations() orders its output.
Position(policy, id) == CHOOSE i \in DOMAIN policy : policy[i] = id

\* permutations() yields a before b: lexicographic order of the positions.
Before(policy, a, b) ==
    \E i \in DOMAIN policy :
        /\ \A j \in 1..(i - 1) : a[j] = b[j]
        /\ Position(policy, a[i]) < Position(policy, b[i])

\* The one of some orders that permutations() yields first.
FirstOrder(policy, S) ==
    CHOOSE order \in S : \A other \in S \ {order} : Before(policy, order, other)

\* The order with two neighbours exchanged.
SwapAt(order, k) == [order EXCEPT ![k] = order[k + 1], ![k + 1] = order[k]]

IndexOf(order, id) == CHOOSE i \in DOMAIN order : order[i] = id

\* Mutant: the rule changes places with the one at the target.
BugDirectExchange(order, from, target) ==
    [order EXCEPT ![from] = order[target], ![target] = order[from]]

\* The order in which the rule at `from` has moved forward to `target`.
MoveForward(order, from, target) ==
    [i \in DOMAIN order |->
        CASE i = target                  -> order[from]
          [] i > target /\ i <= from     -> order[i - 1]
          [] i < target \/ i > from      -> order[i]]

\* One round of the loop of _adjacent_swap_path: the rule that belongs at
\* target_index bubbles down to it, one path entry for each exchange.
BubbleTo(path, right_order, target_index) ==
    LET current == Last(path)
        start   == IndexOf(current, right_order[target_index])
    IN path \o [n \in 1..(start - target_index) |->
                    MoveForward(current, start, start - n)]

\* _adjacent_swap_path: one round for each rule of the right order.
AdjacentSwapPath(left_order, right_order) ==
    LET Path[n \in 0..Len(right_order)] ==
            IF n = 0 THEN <<left_order>> ELSE BubbleTo(Path[n - 1], right_order, n)
    IN Path[Len(right_order)]

-----------------------------------------------------------------------------
(* What a swap path promises, independently of how it is built.            *)

Neighbours(a, b) == \E k \in 1..(Len(a) - 1) : b = SwapAt(a, k)

IsSwapPath(path, left_order, right_order) ==
    /\ path # << >>
    /\ path[1] = left_order
    /\ Last(path) = right_order
    /\ \A i \in 1..(Len(path) - 1) : Neighbours(path[i], path[i + 1])

\* The pairs of rules that two orders put the other way round: no path of
\* adjacent swaps between them is shorter than their number.
Inversions(a, b) ==
    {pair \in (Range(a) \X Range(a)) :
        /\ IndexOf(a, pair[1]) < IndexOf(a, pair[2])
        /\ IndexOf(b, pair[1]) > IndexOf(b, pair[2])}
=============================================================================
