---------------------------- MODULE MCPrecedence ----------------------------
(***************************************************************************)
(* Small instances of Precedence.  Repeats: two rules, an evaluator that   *)
(* may do anything on each call, every entry check and bound in reach.     *)
(* Orders: three rules, so six orders that are not all neighbours, and an  *)
(* evaluator that is free to answer each order differently.                *)
(***************************************************************************)
EXTENDS Precedence

RuleRow(id, passed, reason) ==
    [rule_id |-> id, as_declared |-> TRUE, passed |-> passed, reason_code |-> reason]

Answer(passed, rows, bytes) ==
    [raised |-> "nothing", contract |-> TRUE, own_policy |-> TRUE,
     passed |-> passed, rows |-> rows, bytes |-> bytes]

PassingReturn(raised, contract, own_policy, declared, bytes) ==
    [raised |-> raised, contract |-> contract, own_policy |-> own_policy,
     passed |-> TRUE,
     rows |-> <<[rule_id |-> 1, as_declared |-> declared, passed |-> TRUE,
                 reason_code |-> "r"], RuleRow(2, TRUE, "r")>>,
     bytes |-> bytes]

\* Declared order 2, 1: permutations() does not start with the sorted order.
ACall(policy, evaluator, policy_bytes, verdicts) ==
    [policy |-> policy, policy_valid |-> TRUE, response |-> "object",
     policy_bytes |-> policy_bytes, response_bytes |-> 1,
     evaluator |-> evaluator,
     verdict |-> [id \in RuleIds(policy) |-> verdicts[id]]]

Passing == [id \in 1..3 |-> [passed |-> TRUE, reason_code |-> "r"]]
Mixed == [id \in 1..3 |-> [passed |-> id # 2,
                           reason_code |-> IF id = 3 THEN "s" ELSE "r"]]

RepeatsRequests ==
    {ACall(<<2, 1>>, evaluator, bytes, verdicts) :
        evaluator \in {"builtin", "custom"}, bytes \in {1, 2, 3, 9},
        verdicts \in {Passing, Mixed}}
    \cup {ACall(<<1>>, "builtin", 1, Passing),
          ACall(<<1, 2, 3>>, "builtin", 1, Passing),
          [ACall(<<2, 1>>, "custom", 1, Passing) EXCEPT !.policy_valid = FALSE],
          [ACall(<<2, 1>>, "custom", 1, Passing) EXCEPT !.response = "not_object"],
          [ACall(<<2, 1>>, "custom", 1, Passing) EXCEPT !.response_bytes = 9]}

\* Good answers, then one for each way to break the contract.
RepeatsReturns ==
    {PassingReturn("nothing", TRUE, TRUE, TRUE, 2),
     Answer(TRUE, <<RuleRow(2, TRUE, "r"), RuleRow(1, TRUE, "r")>>, 2),
     Answer(TRUE, <<RuleRow(2, TRUE, "r"), RuleRow(1, TRUE, "s")>>, 3),
     Answer(FALSE, <<RuleRow(1, FALSE, "r"), RuleRow(2, TRUE, "r")>>, 2),
     Answer(FALSE, <<RuleRow(1, TRUE, "r")>>, 1),
     Answer(FALSE, << >>, 1),
     Answer(TRUE, <<RuleRow(1, TRUE, "r")>>, 1),
     Answer(TRUE, <<RuleRow(1, TRUE, "r"), RuleRow(1, TRUE, "s")>>, 2),
     Answer(FALSE, <<RuleRow(3, TRUE, "r")>>, 1),
     PassingReturn("nothing", TRUE, TRUE, FALSE, 2),
     PassingReturn("nothing", FALSE, TRUE, TRUE, 2),
     PassingReturn("nothing", TRUE, FALSE, TRUE, 2),
     PassingReturn("nothing", TRUE, TRUE, TRUE, 5),
     PassingReturn("testbench_error", TRUE, TRUE, TRUE, 2),
     PassingReturn("exception", TRUE, TRUE, TRUE, 2)}

OrdersRequests ==
    {ACall(<<2, 1, 3>>, "builtin", 1, verdicts) : verdicts \in {Passing, Mixed}}
    \cup {ACall(<<2, 1, 3>>, "custom", 1, Passing)}

\* Rule 1 passing, failing, failing for another reason, or left out: a rule
\* may vanish between two regions of orders that disagree about it.  The last
\* answer contradicts its own rows, which the contract refuses.
OrdersReturns ==
    {Answer(TRUE, <<RuleRow(1, TRUE, "r"), RuleRow(2, TRUE, "r"), RuleRow(3, TRUE, "r")>>, 1),
     Answer(FALSE, <<RuleRow(3, TRUE, "r"), RuleRow(2, TRUE, "r"), RuleRow(1, FALSE, "r")>>, 1),
     Answer(FALSE, <<RuleRow(1, FALSE, "s")>>, 1),
     Answer(FALSE, <<RuleRow(3, TRUE, "r")>>, 1),
     Answer(TRUE, <<RuleRow(1, TRUE, "r"), RuleRow(2, TRUE, "r"), RuleRow(3, TRUE, "s")>>, 1),
     Answer(FALSE, <<RuleRow(1, TRUE, "r"), RuleRow(2, TRUE, "r"), RuleRow(3, TRUE, "r")>>, 1)}
=============================================================================
