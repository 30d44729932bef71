--------------------------- MODULE OrderConformance ---------------------------
(***************************************************************************)
(* What an order-conformance check promises, without saying how it finds   *)
(* out: it asks what the rules mean under every order, and it calls the    *)
(* policy conforming exactly when every order gave the same complete       *)
(* answer.  A check may also give up, or be inconclusive, and then it says *)
(* nothing.  Precedence implements this specification.                     *)
(***************************************************************************)
EXTENDS RuleOrders

CONSTANTS
    PolicySet,      \* the policies that can be asked about
    Rows            \* [rule_id, passed, reason_code]: what a rule can say

VARIABLES
    policy,         \* the policy asked about
    answers,        \* the orders answered so far, each with its set of rows
    verdict         \* pending, conforms, drifts, inconclusive or refused

vars == <<policy, answers, verdict>>

\* One answer covers the policy when it has a row for every rule.
Covers(answer) == {row.rule_id : row \in answer} = RuleIds(policy)

SameMeaningEverywhere ==
    /\ \A order \in DOMAIN answers : Covers(answers[order])
    /\ \A a, b \in DOMAIN answers : answers[a] = answers[b]

Init ==
    /\ policy \in PolicySet
    /\ answers = << >>
    /\ verdict = "pending"

Answer(order) ==
    /\ verdict = "pending"
    /\ order \notin DOMAIN answers
    /\ DOMAIN answers' = DOMAIN answers \cup {order}
    /\ answers'[order] \subseteq Rows
    /\ \A done \in DOMAIN answers : answers'[done] = answers[done]
    /\ UNCHANGED <<policy, verdict>>

\* A conclusion is drawn from every order, never from a sample.
Conclude ==
    /\ verdict = "pending"
    /\ DOMAIN answers = Orders(policy)
    /\ verdict' = IF SameMeaningEverywhere THEN "conforms" ELSE "drifts"
    /\ UNCHANGED <<policy, answers>>

GiveUp ==
    /\ verdict = "pending"
    /\ verdict' \in {"inconclusive", "refused"}
    /\ UNCHANGED <<policy, answers>>

Next ==
    \/ \E order \in Orders(policy) : Answer(order)
    \/ Conclude
    \/ GiveUp

Spec == Init /\ [][Next]_vars
=============================================================================
