-------------------------- MODULE PrecedenceProofs --------------------------
(***************************************************************************)
(* For every number of rules, every bound and every evaluator: the loop of *)
(* check_order_conformance takes each order of the rules once and no       *)
(* other, a clean report is earned by every evaluation it made, what it    *)
(* reports of variance is exact, its witnesses show what they say, its     *)
(* work keeps to the budget, and the whole refines OrderConformance.       *)
(***************************************************************************)
EXTENDS Precedence, FiniteSetTheorems, WellFoundedInduction, TLAPS

-----------------------------------------------------------------------------
(* The first of a set of orders, in the order of permutations(), exists.   *)

\* A set of natural numbers that is not empty has a least element.
LEMMA LeastNatural ==
    ASSUME NEW T \in SUBSET Nat, T # {}
    PROVE  \E m \in T : \A k \in T : m <= k
<1>1. PICK m \in T : \A k \in T : ~ (<<k, m>> \in OpToRel(<, Nat))
  BY NatLessThanWellFounded, WFMin
<1>2. \A k \in T : ~ (k < m)
  BY <1>1 DEF OpToRel
<1> QED
  BY <1>2

\* The declared position of a rule of the policy.
LEMMA PositionType ==
    ASSUME NEW policy, policy \in Seq(Nat), NEW id \in RuleIds(policy)
    PROVE  Position(policy, id) \in DOMAIN policy /\ policy[Position(policy, id)] = id
<1>1. \E i \in DOMAIN policy : policy[i] = id
  BY DEF RuleIds, Range
<1> QED
  BY <1>1 DEF Position

\* permutations() yields some order of a set before the others: by the least
\* number of leading positions on which no order is ahead.
LEMMA FirstOrderExists ==
    ASSUME NEW policy, policy \in Seq(Nat), NEW S \in SUBSET Orders(policy), S # {}
    PROVE  FirstOrder(policy, S) \in S
<1> DEFINE n == Len(policy)
           Agree(s, t, k) == \A j \in 1..k : s[j] = t[j]
           Ahead(s, k) == \A t \in S : Agree(s, t, k) \/ Before(policy, s, t)
           Bad == {k \in 0..n : ~ \E s \in S : Ahead(s, k)}
<1>1. /\ n \in Nat /\ DOMAIN policy = 1..n
      /\ \A s \in S : s \in [1..n -> RuleIds(policy)]
  BY DEF Orders
<1>2. Bad = {}
  <2>1. SUFFICES ASSUME Bad # {} PROVE FALSE
    OBVIOUS
  <2>2. PICK m \in Bad : \A k \in Bad : m <= k
    <3>1. Bad \in SUBSET Nat
      BY <1>1
    <3> QED
      BY <2>1, <3>1, LeastNatural
  <2>3. m # 0
    <3>1. \A s \in S : Ahead(s, 0)
      OBVIOUS
    <3> QED
      BY <3>1
  <2>4. m \in 1..n /\ m - 1 \in 0..n /\ m - 1 \notin Bad
    <3>1. m \in 0..n
      BY <2>2
    <3>2. m \in 1..n /\ m - 1 \in 0..n /\ ~ (m <= m - 1)
      BY <1>1, <2>3, <3>1
    <3> QED
      BY <2>2, <3>2
  <2>5. PICK s0 \in S : Ahead(s0, m - 1)
    BY <2>4
  <2> DEFINE C == {t \in S : Agree(s0, t, m - 1)}
             P == {Position(policy, t[m]) : t \in C}
  <2>6. \A t \in S : /\ Position(policy, t[m]) \in 1..n
                    /\ policy[Position(policy, t[m])] = t[m]
    BY <1>1, <2>4, PositionType
  <2>7. PICK s \in C : \A t \in C : Position(policy, s[m]) <= Position(policy, t[m])
    <3>1. s0 \in C
      OBVIOUS
    <3>2. P # {}
      BY <3>1
    <3>4. P \in SUBSET Nat
      <4>1. \A t \in C : Position(policy, t[m]) \in Nat
        BY <1>1, <2>6
      <4> QED
        BY <4>1
    <3>3. PICK p \in P : \A q \in P : p <= q
      BY <3>2, <3>4, LeastNatural
    <3>5. PICK s \in C : p = Position(policy, s[m])
      OBVIOUS
    <3>6. \A t \in C : Position(policy, t[m]) \in P
      OBVIOUS
    <3> HIDE DEF P
    <3>7. \A t \in C : p <= Position(policy, t[m])
      BY <3>3, <3>6
    <3> HIDE DEF C
    <3> QED
      BY <3>5, <3>7
  <2>8. ASSUME NEW t \in S PROVE Agree(s, t, m) \/ Before(policy, s, t)
    <3>1. CASE t \in C
      <4>1. Agree(s, t, m - 1)
        BY <2>7, <3>1
      <4>2. CASE Position(policy, s[m]) < Position(policy, t[m])
        <5>1. m \in DOMAIN policy
          BY <1>1, <2>4
        <5> QED
          BY <4>1, <4>2, <5>1 DEF Before
      <4>3. CASE Position(policy, s[m]) = Position(policy, t[m])
        <5>1. s[m] = t[m]
          BY <2>6, <2>7, <4>3
        <5>2. \A j \in 1..m : j \in 1..(m - 1) \/ j = m
          BY <2>4
        <5> QED
          BY <4>1, <5>1, <5>2
      <4>4. Position(policy, s[m]) \in 1..n /\ Position(policy, t[m]) \in 1..n
        BY <2>6
      <4>5. Position(policy, s[m]) <= Position(policy, t[m])
        BY <2>7, <3>1
      <4> QED
        BY <1>1, <4>2, <4>3, <4>4, <4>5
    <3>2. CASE t \notin C
      <4>1. PICK j \in 1..(m - 1) : s0[j] # t[j]
        BY <3>2
      <4>2. Before(policy, s0, t)
        BY <2>5, <4>1
      <4>3. PICK i \in 1..n :
                /\ \A k \in 1..(i - 1) : s0[k] = t[k]
                /\ Position(policy, s0[i]) < Position(policy, t[i])
        BY <1>1, <4>2 DEF Before
      <4>4. i \in 1..(m - 1) /\ \A k \in 1..i : k \in 1..(m - 1)
        <5>1. i \in Nat /\ j \in Nat /\ m \in Nat /\ 1 <= i
          BY <1>1, <2>4, <4>3
        <5>2. i <= j
          <6>1. CASE j <= i - 1
            <7>1. j \in 1..(i - 1)
              BY <5>1, <6>1, <4>1
            <7> QED
              BY <4>1, <4>3, <7>1
          <6> QED
            BY <5>1, <6>1
        <5>3. j <= m - 1
          BY <5>1
        <5>4. i <= m - 1
          BY <5>1, <5>2, <5>3
        <5> HIDE DEF n, C, P, Bad, Ahead, Agree
        <5> QED
          BY <5>1, <5>4
      <4>5. \A k \in 1..i : s[k] = s0[k]
        BY <2>7, <4>4
      <4>6. s[i] = s0[i] /\ \A k \in 1..(i - 1) : s[k] = t[k]
        BY <4>3, <4>5, <1>1
      <4> QED
        BY <1>1, <4>3, <4>6 DEF Before
    <3> QED
      BY <3>1, <3>2
  <2>9. m \notin Bad
    BY <2>7, <2>8
  <2> QED
    BY <2>2, <2>9
<1>3. PICK s \in S : Ahead(s, n)
  <2>1. n \in 0..n
    BY <1>1
  <2> QED
    BY <1>2, <2>1
<1>4. \A t \in S \ {s} : Before(policy, s, t)
  <2>1. ASSUME NEW t \in S, Agree(s, t, n) PROVE t = s
    <3>1. s \in [1..n -> RuleIds(policy)] /\ t \in [1..n -> RuleIds(policy)]
      BY <1>1
    <3>2. \A j \in 1..n : s[j] = t[j]
      BY <2>1
    <3>3. s = [j \in 1..n |-> s[j]] /\ t = [j \in 1..n |-> t[j]]
      BY <3>1
    <3>4. [j \in 1..n |-> s[j]] = [j \in 1..n |-> t[j]]
      BY <3>2
    <3> QED
      BY <3>3, <3>4
  <2> QED
    BY <1>3, <2>1
<1> QED
  BY <1>4 DEF FirstOrder

-----------------------------------------------------------------------------
(* The inductive invariant.                                                *)

Working == pc \in {"enter", "evaluate", "compare", "classify"}

\* Where the loop over the orders stands.
LoopPosition ==
    /\ IsFiniteSet(DOMAIN observations)
    /\ pc = "enter" => observations = << >> /\ repeats = << >> /\ trace = << >>
    /\ pc \in {"evaluate", "compare"} => DOMAIN observations # IdOrders
    /\ pc = "evaluate" => Len(repeats) < ORDER_REPEATS
    /\ pc = "compare" => Len(repeats) = ORDER_REPEATS
    /\ pc = "classify" => DOMAIN observations = IdOrders /\ repeats = << >>

Accepted(result) ==
    RowsAreDistinct(result) /\ RowsAreDeclared(result, request.policy)

\* Every result kept has passed the contract check.
ResultsAccepted ==
    /\ \A order \in DOMAIN observations : Accepted(observations[order])
    /\ \A i \in DOMAIN repeats : Accepted(repeats[i])

\* What was evaluated is still known: by the completed order, or by the
\* repeats of the order in progress.
TraceIsKept ==
    Working =>
        \A i \in DOMAIN trace :
            \/ /\ trace[i].order \in DOMAIN observations
               /\ trace[i].result = observations[trace[i].order]
            \/ /\ trace[i].order = CurrentOrder
               /\ \E j \in DOMAIN repeats : trace[i].result = repeats[j]

RunsOf(order) == {i \in DOMAIN trace : trace[i].order = order}

RunsDue(order) ==
    IF order \in DOMAIN observations THEN ORDER_REPEATS
    ELSE IF order = CurrentOrder THEN Len(repeats) ELSE 0

\* Completed orders were evaluated ORDER_REPEATS times, the one in progress
\* as often as there are repeats, the others not at all.
RunsAreCounted ==
    Working =>
        \A order \in IdOrders :
            IsFiniteSet(RunsOf(order)) /\ Cardinality(RunsOf(order)) = RunsDue(order)

IInv ==
    /\ TypeOK
    /\ LoopPosition
    /\ ResultsAccepted
    /\ TraceIsKept
    /\ RunsAreCounted
    /\ CleanReportIsEarned

-----------------------------------------------------------------------------
(* Facts about the request and the loop variable.                          *)

\* What the assumption on Requests says of one request.
LEMMA RequestFacts ==
    ASSUME TypeOK
    PROVE  /\ request.policy \in Seq(Nat)
           /\ request.policy_bytes \in Nat /\ request.response_bytes \in Nat
           /\ request.verdict \in [RuleIds(request.policy) -> Verdicts]
           /\ request.policy \in IdOrders
           /\ serialized_input_bytes \in Nat
<1>1. IsRequest(request)
  BY RequestsAssumption DEF TypeOK
<1>2. /\ request.policy \in Seq(Nat) /\ IsInjective(request.policy)
      /\ request.policy_bytes \in Nat /\ request.response_bytes \in Nat
      /\ request.verdict \in [RuleIds(request.policy) -> Verdicts]
  BY <1>1 DEF IsRequest
<1>3. request.policy \in [DOMAIN request.policy -> RuleIds(request.policy)]
  BY <1>2 DEF RuleIds, Range
<1> QED
  BY <1>2, <1>3 DEF IdOrders, Orders, serialized_input_bytes

\* While orders are left, the loop variable is one of them.
LEMMA CurrentOrderIsLeft ==
    ASSUME TypeOK, DOMAIN observations # IdOrders
    PROVE  CurrentOrder \in IdOrders /\ CurrentOrder \notin DOMAIN observations
<1> DEFINE S == IdOrders \ DOMAIN observations
<1>1. S # {} /\ S \in SUBSET Orders(request.policy)
  BY DEF TypeOK, IdOrders
<1>2. FirstOrder(request.policy, S) \in S
  BY <1>1, RequestFacts, FirstOrderExists
<1> QED
  BY <1>2 DEF CurrentOrder

\* check_order_conformance starts in the invariant.
LEMMA InitIInv == Init => IInv
<1> SUFFICES ASSUME Init PROVE IInv
  OBVIOUS
<1>1. DOMAIN observations = {} /\ DOMAIN repeats = {} /\ DOMAIN trace = {}
  BY DEF Init
<1>2. TypeOK
  <2>1. repeats \in Seq(Result) /\ trace \in Seq([order : IdOrders, result : Result])
    BY DEF Init
  <2>2. Len(repeats) <= ORDER_REPEATS
    BY BoundsAssumption DEF Init
  <2> QED
    BY <1>1, <2>1, <2>2 DEF Init, TypeOK, ReportShape, NoError
<1>3. LoopPosition
  BY <1>1, FS_EmptySet DEF Init, LoopPosition
<1>4. ResultsAccepted /\ TraceIsKept
  BY <1>1 DEF ResultsAccepted, TraceIsKept
<1>5. RunsAreCounted
  <2>1. \A order : RunsOf(order) = {}
    BY <1>1 DEF RunsOf
  <2>2. \A order : RunsDue(order) = 0
    BY <1>1 DEF RunsDue, Init
  <2> QED
    BY <2>1, <2>2, FS_EmptySet DEF RunsAreCounted
<1>6. CleanReportIsEarned
  BY DEF Init, CleanReportIsEarned
<1> QED
  BY <1>2, <1>3, <1>4, <1>5, <1>6 DEF IInv

-----------------------------------------------------------------------------
(* Each action keeps the invariant.                                        *)

\* An exception leaves what is kept as it was; only the history may differ.
LEMMA RaiseKeeps ==
    ASSUME IInv, NEW code \in {"ORDER_CHECK_INVALID", "ORDER_CHECK_TOO_LARGE", "propagated"},
           Raise(code), evaluator_runs' \in Nat, observed_result_bytes' \in Nat,
           trace' \in Seq([order : IdOrders, result : Result])
    PROVE  IInv'
<1>1. /\ pc' = "raised" /\ error' = code /\ request' = request /\ repeats' = repeats
      /\ observations' = observations /\ report' = report
  BY DEF Raise
<1>2. IdOrders' = IdOrders
  BY <1>1 DEF IdOrders
<1>3. TypeOK'
  BY <1>1, <1>2 DEF IInv, TypeOK, ReportShape, NoError
<1>4. LoopPosition' /\ ResultsAccepted'
  BY <1>1, <1>2
  DEF IInv, LoopPosition, ResultsAccepted, Accepted, RowsAreDistinct, RowsAreDeclared
<1>5. TraceIsKept' /\ RunsAreCounted' /\ CleanReportIsEarned'
  BY <1>1 DEF TraceIsKept, RunsAreCounted, CleanReportIsEarned, Working
<1> QED
  BY <1>3, <1>4, <1>5 DEF IInv

\* One evaluation more of the order in progress, the result being accepted.
LEMMA AccountKeeps ==
    ASSUME IInv, pc = "evaluate", NEW result \in Result, Accepted(result),
           Account(result)
    PROVE  IInv'
<1> DEFINE entry == [order |-> CurrentOrder, result |-> result]
<1>1. /\ evaluator_runs' = evaluator_runs + 1
      /\ observed_result_bytes' = observed_result_bytes + result.bytes
      /\ trace' = Append(trace, entry)
      /\ result.bytes \in Nat
  BY DEF Account, Result
<1>2. CurrentOrder \in IdOrders /\ CurrentOrder \notin DOMAIN observations
  BY CurrentOrderIsLeft DEF IInv, LoopPosition
<1>3. entry \in [order : IdOrders, result : Result]
  BY <1>2
<1>4. /\ trace \in Seq([order : IdOrders, result : Result])
      /\ trace' \in Seq([order : IdOrders, result : Result])
      /\ evaluator_runs' \in Nat /\ observed_result_bytes' \in Nat
  <2>1. /\ trace \in Seq([order : IdOrders, result : Result])
        /\ evaluator_runs \in Nat /\ observed_result_bytes \in Nat
    BY DEF IInv, TypeOK
  <2> HIDE DEF entry
  <2> QED
    BY <1>1, <1>3, <2>1
<1>5. CASE Raise("ORDER_CHECK_TOO_LARGE")
  BY <1>4, <1>5, RaiseKeeps
<1>6. CASE /\ repeats' = Append(repeats, result)
           /\ pc' = IF IsLastRepeat THEN "compare" ELSE "evaluate"
           /\ UNCHANGED <<request, observations, report, error>>
  <2>1. /\ IdOrders' = IdOrders /\ CurrentOrder' = CurrentOrder
        /\ DOMAIN observations' = DOMAIN observations
    BY <1>6 DEF IdOrders, CurrentOrder
  <2>2. /\ repeats \in Seq(Result) /\ repeats' \in Seq(Result)
        /\ Len(repeats') = Len(repeats) + 1 /\ Len(repeats) < ORDER_REPEATS
        /\ \A i \in DOMAIN repeats : i \in DOMAIN repeats' /\ repeats'[i] = repeats[i]
        /\ DOMAIN repeats' = DOMAIN repeats \cup {Len(repeats) + 1}
        /\ repeats'[Len(repeats) + 1] = result
    BY <1>6 DEF IInv, TypeOK, LoopPosition
  <2>3. /\ Len(repeats') <= ORDER_REPEATS
        /\ pc' = "compare" => Len(repeats') = ORDER_REPEATS
        /\ pc' = "evaluate" => Len(repeats') < ORDER_REPEATS
    BY <1>6, <2>2, BoundsAssumption DEF IsLastRepeat
  <2>4. pc' \in {"compare", "evaluate"}
    BY <1>6
  <2>5. TypeOK'
    BY <1>4, <1>6, <2>1, <2>2, <2>3, <2>4 DEF IInv, TypeOK, ReportShape
  <2>6. LoopPosition'
    BY <1>6, <2>1, <2>3, <2>4 DEF IInv, LoopPosition
  <2>7. ResultsAccepted'
    BY <1>6, <2>2
    DEF IInv, ResultsAccepted, Accepted, RowsAreDistinct, RowsAreDeclared
  <2>8. TraceIsKept'
    <3> SUFFICES ASSUME NEW i \in DOMAIN trace'
                 PROVE  \/ /\ trace'[i].order \in DOMAIN observations
                           /\ trace'[i].result = observations[trace'[i].order]
                        \/ /\ trace'[i].order = CurrentOrder
                           /\ \E j \in DOMAIN repeats' : trace'[i].result = repeats'[j]
      BY <1>6, <2>1 DEF TraceIsKept
    <3>1. CASE i \in DOMAIN trace
      <4>1. trace'[i] = trace[i]
        BY <1>1, <1>4, <3>1
      <4> QED
        BY <2>2, <3>1, <4>1 DEF IInv, TraceIsKept, Working
    <3>2. CASE i = Len(trace) + 1
      <4>1. trace'[i] = entry
        BY <1>1, <1>4, <3>2
      <4>2. Len(repeats) + 1 \in DOMAIN repeats'
        BY <2>2
      <4> QED
        BY <2>2, <4>1, <4>2
    <3> QED
      BY <1>1, <1>4, <3>1, <3>2
  <2>9. RunsAreCounted'
    <3> SUFFICES ASSUME NEW order \in IdOrders
                 PROVE  /\ IsFiniteSet(RunsOf(order)')
                        /\ Cardinality(RunsOf(order)') = RunsDue(order)'
      BY <2>1 DEF RunsAreCounted
    <3>1. IsFiniteSet(RunsOf(order)) /\ Cardinality(RunsOf(order)) = RunsDue(order)
      BY DEF IInv, RunsAreCounted, Working
    <3>2. /\ DOMAIN trace' = DOMAIN trace \cup {Len(trace) + 1}
          /\ Len(trace) + 1 \notin DOMAIN trace
          /\ \A i \in DOMAIN trace : trace'[i] = trace[i]
          /\ trace'[Len(trace) + 1].order = CurrentOrder
      BY <1>1, <1>4
    <3>3. CASE order = CurrentOrder
      <4>1. RunsOf(order)' = RunsOf(order) \cup {Len(trace) + 1}
        BY <3>2, <3>3 DEF RunsOf
      <4>2. Len(trace) + 1 \notin RunsOf(order)
        BY <3>2 DEF RunsOf
      <4>3. /\ IsFiniteSet(RunsOf(order)')
            /\ Cardinality(RunsOf(order)') = Cardinality(RunsOf(order)) + 1
        BY <3>1, <4>1, <4>2, FS_AddElement
      <4>4. RunsDue(order) = Len(repeats) /\ RunsDue(order)' = Len(repeats')
        BY <1>2, <2>1, <3>3 DEF RunsDue
      <4> QED
        BY <2>2, <3>1, <4>3, <4>4
    <3>4. CASE order # CurrentOrder
      <4>1. RunsOf(order)' = RunsOf(order)
        BY <3>2, <3>4 DEF RunsOf
      <4>2. RunsDue(order)' = RunsDue(order)
        BY <2>1, <3>4 DEF RunsDue
      <4> QED
        BY <3>1, <4>1, <4>2
    <3> QED
      BY <3>3, <3>4
  <2>10. CleanReportIsEarned'
    BY <2>4 DEF CleanReportIsEarned
  <2> QED
    BY <2>5, <2>6, <2>7, <2>8, <2>9, <2>10 DEF IInv
<1> QED
  BY <1>5, <1>6 DEF Account

\* The built-in evaluator gives one row for each rule, a different one each.
LEMMA BuiltinResultIsAccepted ==
    ASSUME TypeOK, NEW order \in IdOrders
    PROVE  BuiltinResult(order) \in Result /\ Accepted(BuiltinResult(order))
<1> DEFINE row(id) == [rule_id |-> id, as_declared |-> TRUE,
                       passed |-> request.verdict[id].passed,
                       reason_code |-> request.verdict[id].reason_code]
           rows == [i \in DOMAIN order |-> row(order[i])]
           passed == \A id \in RuleIds(request.policy) : request.verdict[id].passed
<1>1. /\ order \in [DOMAIN request.policy -> RuleIds(request.policy)]
      /\ IsInjective(order)
      /\ DOMAIN request.policy = 1..Len(request.policy) /\ Len(request.policy) \in Nat
  BY RequestFacts DEF IdOrders, Orders
<1>2. RuleIds(request.policy) \subseteq Nat
  BY RequestFacts DEF RuleIds, Range
<1>3. ASSUME NEW id \in RuleIds(request.policy) PROVE row(id) \in Row
  <2>1. request.verdict[id] \in Verdicts
    BY RequestFacts
  <2> QED
    BY <1>2, <2>1 DEF Verdicts, Row
<1>4. rows \in Seq(Row)
  <2> HIDE DEF row
  <2>1. rows \in [1..Len(request.policy) -> Row]
    BY <1>1, <1>3
  <2> QED
    BY <1>1, <2>1
<1>5. passed \in BOOLEAN
  BY Zenon
<1>6. BuiltinResult(order) =
        [raised |-> "nothing", contract |-> TRUE, own_policy |-> TRUE,
         passed |-> passed, rows |-> rows, bytes |-> BuiltinResultBytes]
  BY DEF BuiltinResult
<1>7. BuiltinResult(order) \in Result
  <2> HIDE DEF rows, passed
  <2> QED
    BY <1>4, <1>5, <1>6, BoundsAssumption DEF Result
<1>8. BuiltinResult(order).rows = rows
  <2> HIDE DEF rows, passed
  <2> QED
    BY <1>6
<1>9. Accepted(BuiltinResult(order))
  <2>1. \A i \in DOMAIN rows : /\ rows[i].rule_id = order[i]
                              /\ rows[i].rule_id \in RuleIds(request.policy)
                              /\ rows[i].as_declared
    BY <1>1
  <2>2. \A i, j \in DOMAIN rows : rows[i].rule_id = rows[j].rule_id => i = j
    BY <1>1, <2>1 DEF IsInjective
  <2>3. \A r \in Range(rows) : r.rule_id \in RuleIds(request.policy) /\ r.as_declared
    BY <2>1 DEF Range
  <2> HIDE DEF rows
  <2> QED
    BY <1>8, <2>2, <2>3 DEF Accepted, RowsAreDistinct, RowsAreDeclared
<1> QED
  BY <1>7, <1>9

\* One call of the built-in evaluator.
LEMMA RunBuiltinKeeps == ASSUME IInv, RunBuiltin PROVE IInv'
<1>1. CASE RaiseBeforeAccounting("ORDER_CHECK_TOO_LARGE")
  BY <1>1, RaiseKeeps DEF RaiseBeforeAccounting, IInv, TypeOK
<1>2. CASE Account(BuiltinResult(CurrentOrder))
  <2>1. CurrentOrder \in IdOrders /\ pc = "evaluate"
    BY CurrentOrderIsLeft DEF IInv, LoopPosition, RunBuiltin
  <2>2. BuiltinResult(CurrentOrder) \in Result /\ Accepted(BuiltinResult(CurrentOrder))
    BY <2>1, BuiltinResultIsAccepted DEF IInv
  <2> QED
    BY <1>2, <2>1, <2>2, AccountKeeps
<1> QED
  BY <1>1, <1>2 DEF RunBuiltin

\* One call of a caller's evaluator, whatever it does.
LEMMA RunEvaluatorKeeps ==
    ASSUME IInv, NEW result \in Returns, RunEvaluator(result) PROVE IInv'
<1> DEFINE fault == EvaluatorFault(result, request.policy)
<1>1. result \in Result /\ pc = "evaluate"
  BY ReturnsAssumption DEF RunEvaluator
<1>2. result.raised \in {"nothing", "testbench_error", "exception"}
  BY <1>1 DEF Result
<1>3. fault \in {"ORDER_CHECK_INVALID", "ORDER_CHECK_TOO_LARGE", "propagated", NoError}
  BY <1>2 DEF EvaluatorFault
<1>4. fault = NoError => ContractHolds(result, request.policy)
  BY <1>2 DEF EvaluatorFault, NoError
<1>5. CASE fault # NoError
  BY <1>3, <1>5, RaiseKeeps DEF RunEvaluator, RaiseBeforeAccounting, IInv, TypeOK
<1>6. CASE fault = NoError
  <2>1. Accepted(result)
    BY <1>4, <1>6 DEF ContractHolds, Accepted
  <2> QED
    BY <1>1, <1>6, <2>1, AccountKeeps DEF RunEvaluator
<1> QED
  BY <1>5, <1>6

\* The checks at the entry passed: the loop starts with an order left.
LEMMA EnterKeeps == ASSUME IInv, Enter PROVE IInv'
<1>1. /\ pc = "enter" /\ pc' = "evaluate"
      /\ request' = request /\ repeats' = repeats /\ observations' = observations
      /\ evaluator_runs' = evaluator_runs /\ trace' = trace
      /\ observed_result_bytes' = observed_result_bytes
      /\ report' = report /\ error' = error
  BY DEF Enter
<1>2. IdOrders' = IdOrders /\ CurrentOrder' = CurrentOrder
  BY <1>1 DEF IdOrders, CurrentOrder
<1>3. TypeOK'
  BY <1>1, <1>2 DEF IInv, TypeOK, ReportShape
<1>4. LoopPosition'
  <2>1. DOMAIN observations = {} /\ Len(repeats) = 0
    BY <1>1 DEF IInv, LoopPosition
  <2>2. IdOrders # {}
    BY RequestFacts DEF IInv
  <2> QED
    BY <1>1, <1>2, <2>1, <2>2, BoundsAssumption DEF IInv, LoopPosition
<1>5. ResultsAccepted' /\ TraceIsKept'
  BY <1>1, <1>2 DEF IInv, ResultsAccepted, Accepted, RowsAreDistinct,
                    RowsAreDeclared, TraceIsKept, Working
<1>6. RunsAreCounted'
  <2>1. \A order : RunsOf(order)' = RunsOf(order) /\ RunsDue(order)' = RunsDue(order)
    BY <1>1, <1>2 DEF RunsOf, RunsDue
  <2> QED
    BY <1>1, <1>2, <2>1 DEF IInv, RunsAreCounted, Working
<1>7. CleanReportIsEarned'
  BY <1>1 DEF CleanReportIsEarned
<1> QED
  BY <1>3, <1>4, <1>5, <1>6, <1>7 DEF IInv

\* The order in progress is completed by its first repeat, as all agree.
LEMMA CompleteOrderKeeps == ASSUME IInv, CompleteOrder PROVE IInv'
<1>1. /\ pc = "compare" /\ ~RepeatsDiffer
      /\ observations' = WithCompleted(CurrentOrder, repeats[1])
      /\ repeats' = << >>
      /\ pc' = IF DOMAIN observations' = IdOrders THEN "classify" ELSE "evaluate"
      /\ request' = request /\ evaluator_runs' = evaluator_runs /\ trace' = trace
      /\ observed_result_bytes' = observed_result_bytes
      /\ report' = report /\ error' = error
  BY DEF CompleteOrder
<1>2. CurrentOrder \in IdOrders /\ CurrentOrder \notin DOMAIN observations
  BY <1>1, CurrentOrderIsLeft DEF IInv, LoopPosition
<1>3. IdOrders' = IdOrders
  BY <1>1 DEF IdOrders
<1>4. /\ repeats \in Seq(Result) /\ Len(repeats) = ORDER_REPEATS
      /\ 1 \in DOMAIN repeats /\ repeats[1] \in Result
      /\ \A j \in DOMAIN repeats : repeats[j] = repeats[1]
  <2>1. repeats \in Seq(Result) /\ Len(repeats) = ORDER_REPEATS
    BY <1>1 DEF IInv, TypeOK, LoopPosition
  <2>2. \A j \in DOMAIN repeats : j = 1 \/ j \in 2..Len(repeats)
    BY <2>1
  <2> QED
    BY <1>1, <2>1, <2>2, BoundsAssumption DEF RepeatsDiffer
<1>5. /\ DOMAIN observations' = DOMAIN observations \cup {CurrentOrder}
      /\ observations'[CurrentOrder] = repeats[1]
      /\ \A order \in DOMAIN observations : observations'[order] = observations[order]
  BY <1>1, <1>2 DEF WithCompleted
<1>6. pc' \in {"classify", "evaluate"}
  BY <1>1
<1>7. TypeOK'
  <2>1. \A order \in DOMAIN observations' : observations'[order] \in Result
    BY <1>4, <1>5 DEF IInv, TypeOK
  <2>2. DOMAIN observations' \subseteq IdOrders
    BY <1>2, <1>5 DEF IInv, TypeOK
  <2>3. repeats' \in Seq(Result) /\ Len(repeats') <= ORDER_REPEATS
    BY <1>1, BoundsAssumption
  <2> QED
    BY <1>1, <1>3, <1>6, <2>1, <2>2, <2>3 DEF IInv, TypeOK, ReportShape
<1>8. LoopPosition'
  <2>1. IsFiniteSet(DOMAIN observations')
    BY <1>5, FS_AddElement DEF IInv, LoopPosition
  <2> QED
    BY <1>1, <1>3, <1>6, <2>1, BoundsAssumption DEF LoopPosition
<1>9. ResultsAccepted'
  <2>1. \A order \in DOMAIN observations' : Accepted(observations'[order])
    BY <1>4, <1>5 DEF IInv, ResultsAccepted
  <2>2. DOMAIN repeats' = {}
    BY <1>1
  <2> QED
    BY <1>1, <2>1, <2>2
    DEF ResultsAccepted, Accepted, RowsAreDistinct, RowsAreDeclared
<1>10. TraceIsKept'
  <2> SUFFICES ASSUME NEW i \in DOMAIN trace
               PROVE  /\ trace[i].order \in DOMAIN observations'
                      /\ trace[i].result = observations'[trace[i].order]
    BY <1>1 DEF TraceIsKept
  <2>1. CASE /\ trace[i].order \in DOMAIN observations
             /\ trace[i].result = observations[trace[i].order]
    BY <1>5, <2>1
  <2>2. CASE /\ trace[i].order = CurrentOrder
             /\ \E j \in DOMAIN repeats : trace[i].result = repeats[j]
    BY <1>4, <1>5, <2>2
  <2> QED
    BY <1>1, <2>1, <2>2 DEF IInv, TraceIsKept, Working
<1>11. RunsAreCounted'
  <2> SUFFICES ASSUME NEW order \in IdOrders
               PROVE  IsFiniteSet(RunsOf(order)') /\ Cardinality(RunsOf(order)') = RunsDue(order)'
    BY <1>3 DEF RunsAreCounted
  <2>1. RunsOf(order)' = RunsOf(order)
    BY <1>1 DEF RunsOf
  <2>2. IsFiniteSet(RunsOf(order)) /\ Cardinality(RunsOf(order)) = RunsDue(order)
    BY <1>1 DEF IInv, RunsAreCounted, Working
  <2>3. RunsDue(order)' = RunsDue(order)
    <3>1. Len(repeats') = 0
      BY <1>1
    <3> QED
      BY <1>2, <1>4, <1>5, <3>1 DEF RunsDue
  <2> QED
    BY <2>1, <2>2, <2>3
<1>12. CleanReportIsEarned'
  BY <1>6 DEF CleanReportIsEarned
<1> QED
  BY <1>7, <1>8, <1>9, <1>10, <1>11, <1>12 DEF IInv

-----------------------------------------------------------------------------
(* A clean report is earned.                                               *)

\* The row of a reported rule is the only one.
LEMMA RowIsUnique ==
    ASSUME NEW result, RowsAreDistinct(result), NEW row \in Range(result.rows)
    PROVE  RowOf(result, row.rule_id) = row
<1>1. PICK i \in DOMAIN result.rows : result.rows[i] = row
  BY DEF Range
<1>2. /\ RowOf(result, row.rule_id) \in Range(result.rows)
      /\ RowOf(result, row.rule_id).rule_id = row.rule_id
  BY DEF RowOf
<1>3. PICK j \in DOMAIN result.rows : result.rows[j] = RowOf(result, row.rule_id)
  BY <1>2 DEF Range
<1>4. i = j
  BY <1>1, <1>2, <1>3 DEF RowsAreDistinct
<1> QED
  BY <1>1, <1>3, <1>4

\* Results that report the same rules, with the same outcome and reason for
\* each, mean the same.
LEMMA SameRowsSameMeaning ==
    ASSUME NEW left, NEW right, RowsAreDistinct(left), RowsAreDistinct(right),
           ReportedIds(left) = ReportedIds(right),
           \A id \in ReportedIds(left) :
               /\ RowOf(left, id).passed = RowOf(right, id).passed
               /\ RowOf(left, id).reason_code = RowOf(right, id).reason_code
    PROVE  Meaning(left) \subseteq Meaning(right)
<1> SUFFICES ASSUME NEW row \in Range(left.rows)
             PROVE  [rule_id |-> row.rule_id, passed |-> row.passed,
                     reason_code |-> row.reason_code] \in Meaning(right)
  BY DEF Meaning
<1>1. row.rule_id \in ReportedIds(left) /\ RowOf(left, row.rule_id) = row
  BY RowIsUnique DEF ReportedIds
<1>2. PICK other \in Range(right.rows) : other.rule_id = row.rule_id
  BY <1>1 DEF ReportedIds
<1>3. RowOf(right, row.rule_id) = other
  BY <1>2, RowIsUnique
<1>4. other.passed = row.passed /\ other.reason_code = row.reason_code
  BY <1>1, <1>3
<1> QED
  BY <1>2, <1>4 DEF Meaning

\* An order of the rules names every rule: an injection of a finite set into
\* one of the same size.
LEMMA InjectiveOrderIsOnto ==
    ASSUME TypeOK, NEW order \in Orders(request.policy)
    PROVE  RuleIds(request.policy) \subseteq Range(order)
<1> DEFINE n == Len(request.policy)
<1>1. /\ request.policy \in Orders(request.policy)
      /\ n \in Nat /\ DOMAIN request.policy = 1..n
  BY RequestFacts DEF IdOrders
<1>2. /\ order \in Injection(1..n, RuleIds(request.policy))
      /\ request.policy \in Injection(1..n, RuleIds(request.policy))
  BY <1>1 DEF Orders, IsInjective, Injection
<1>3. request.policy \in Bijection(1..n, RuleIds(request.policy))
  BY <1>2 DEF Bijection, Surjection, Injection, RuleIds, Range
<1>4. /\ IsFiniteSet(1..n) /\ IsFiniteSet(RuleIds(request.policy))
      /\ Cardinality(1..n) = Cardinality(RuleIds(request.policy))
  BY <1>1, <1>3, FS_Interval, FS_Bijection DEF ExistsBijection
<1>5. order \in Surjection(1..n, RuleIds(request.policy))
  BY <1>2, <1>4, FS_Injection
<1> QED
  BY <1>5 DEF Surjection, Range

\* An element of a sequence is of its type.
LEMMA ElementOfSequence ==
    ASSUME NEW X, NEW s \in Seq(X), NEW i \in DOMAIN s
    PROVE  s[i] \in X
OBVIOUS

\* What a clean report must rest on.
Earned ==
    /\ \A order \in IdOrders :
          Cardinality({i \in DOMAIN trace : trace[i].order = order}) = ORDER_REPEATS
    /\ \A i \in DOMAIN trace :
          /\ Meaning(trace[i].result) = Meaning(trace[1].result)
          /\ ReportedIds(trace[i].result) = RuleIds(request.policy)

\* Without semantic drift, all completed orders mean the same.  Participation
\* needs no search: every order reports every rule.
LEMMA NoDriftSameMeaning ==
    ASSUME TypeOK, ResultsAccepted, ~SemanticDrift,
           NEW a \in DOMAIN observations, NEW b \in DOMAIN observations
    PROVE  /\ Meaning(observations[a]) = Meaning(observations[b])
           /\ ReportedIds(observations[a]) = RuleIds(request.policy)
<1>1. /\ IncompleteOrders = {}
      /\ ~Varies("outcome") /\ ~Varies("reason_evidence")
  BY DEF SemanticDrift, SemanticDimensions
<1>2. PassHits = {} /\ ReasonHits = {}
  BY <1>1 DEF Varies, GloballyVaries
<1>3. ASSUME NEW order \in DOMAIN observations
      PROVE  ReportedIds(observations[order]) = Range(order)
  BY <1>1, <1>3 DEF IncompleteOrders, ParticipationComplete
<1>4. ASSUME NEW order \in DOMAIN observations
      PROVE  ReportedIds(observations[order]) \subseteq RuleIds(request.policy)
  BY DEF ResultsAccepted, Accepted, RowsAreDeclared, ReportedIds
<1>5. ASSUME NEW order \in DOMAIN observations
      PROVE  RuleIds(request.policy) \subseteq Range(order)
  <2>1. order \in Orders(request.policy)
    BY DEF TypeOK, IdOrders
  <2> QED
    BY <2>1, InjectiveOrderIsOnto
<1>6. ASSUME NEW order \in DOMAIN observations
      PROVE  ReportedIds(observations[order]) = RuleIds(request.policy)
  BY <1>3, <1>4, <1>5
<1>7. ASSUME NEW order \in DOMAIN observations, NEW id \in ReportedIds(observations[order])
      PROVE  /\ RowOf(observations[order], id).passed
                  = RowOf(observations[FirstReporting(id)], id).passed
             /\ RowOf(observations[order], id).reason_code
                  = RowOf(observations[FirstReporting(id)], id).reason_code
  BY <1>2, <1>7 DEF PassHits, ReasonHits, PassConflicts, ReasonConflicts
<1>8. RowsAreDistinct(observations[a]) /\ RowsAreDistinct(observations[b])
  BY DEF ResultsAccepted, Accepted
<1>9. \A id \in ReportedIds(observations[a]) :
         /\ RowOf(observations[a], id).passed = RowOf(observations[b], id).passed
         /\ RowOf(observations[a], id).reason_code = RowOf(observations[b], id).reason_code
  BY <1>6, <1>7
<1>10. /\ Meaning(observations[a]) \subseteq Meaning(observations[b])
       /\ Meaning(observations[b]) \subseteq Meaning(observations[a])
  BY <1>6, <1>8, <1>9, SameRowsSameMeaning
<1> QED
  BY <1>6, <1>10

\* A status that names neither drift nor missing rules means no drift.
LEMMA CleanStatusMeansNoDrift ==
    ASSUME NEW varying, varying = {dimension \in Range(Dimensions) : Varies(dimension)},
           Status(varying) \in {"NO_VARIANCE_OBSERVED", "PRESENTATION_ONLY_DRIFT"}
    PROVE  ~SemanticDrift
<1> DEFINE drift == varying \cap SemanticDimensions
<1>1. SemanticDimensions \subseteq Range(Dimensions)
  <2>1. /\ DOMAIN Dimensions = 1..4
        /\ Dimensions[1] = "outcome" /\ Dimensions[2] = "reason_evidence"
        /\ Dimensions[3] = "participation"
    BY DEF Dimensions
  <2> QED
    BY <2>1 DEF Range, SemanticDimensions
<1>2. CASE drift = {}
  <2>1. \A dimension \in SemanticDimensions : ~Varies(dimension)
    BY <1>1, <1>2
  <2>2. IsFiniteSet(drift) /\ Cardinality(drift) = 0
    BY <1>2, FS_EmptySet
  <2>3. IncompleteOrders = {}
    <3> HIDE DEF drift
    <3>1. Status(varying) =
            CASE Cardinality(drift) > 1 -> "COMPOUND_ORDER_DRIFT"
              [] drift = {"participation"} -> "PARTICIPATION_ORDER_DRIFT"
              [] drift = {"outcome"} -> "SEMANTIC_ORDER_DRIFT"
              [] drift = {"reason_evidence"} -> "EVIDENCE_ORDER_DRIFT"
              [] drift = {} ->
                    IF IncompleteOrders # {} THEN "INCOMPLETE_RULE_COVERAGE"
                    ELSE IF "presentation" \in varying THEN "PRESENTATION_ONLY_DRIFT"
                    ELSE "NO_VARIANCE_OBSERVED"
      BY DEF Status, drift
    <3>2. /\ ~(Cardinality(drift) > 1) /\ drift # {"participation"}
          /\ drift # {"outcome"} /\ drift # {"reason_evidence"}
      BY <1>2, <2>2
    <3> QED
      BY <1>2, <3>1, <3>2
  <2> QED
    BY <2>1, <2>3 DEF SemanticDrift
<1>3. CASE drift # {}
  <2>1. drift \subseteq {"outcome", "reason_evidence", "participation"}
    BY DEF SemanticDimensions
  <2>2. IsFiniteSet({"outcome", "reason_evidence", "participation"})
    <3>1. {"outcome", "reason_evidence", "participation"}
            = (({} \cup {"outcome"}) \cup {"reason_evidence"}) \cup {"participation"}
      OBVIOUS
    <3>2. IsFiniteSet({} \cup {"outcome"})
      BY FS_EmptySet, FS_AddElement
    <3>3. IsFiniteSet(({} \cup {"outcome"}) \cup {"reason_evidence"})
      BY <3>2, FS_AddElement
    <3>4. IsFiniteSet((({} \cup {"outcome"}) \cup {"reason_evidence"}) \cup {"participation"})
      BY <3>3, FS_AddElement
    <3> QED
      BY <3>1, <3>4
  <2>3. \/ drift = {"participation"} \/ drift = {"outcome"}
        \/ drift = {"reason_evidence"} \/ Cardinality(drift) > 1
    <3>1. CASE \E x \in drift : drift = {x}
      BY <2>1, <3>1
    <3>2. CASE ~ \E x \in drift : drift = {x}
      <4>1. IsFiniteSet(drift) /\ Cardinality(drift) \in Nat
        BY <2>1, <2>2, FS_Subset, FS_CardinalityType
      <4>2. Cardinality(drift) # 0 /\ Cardinality(drift) # 1
        <5> HIDE DEF drift
        <5>1. Cardinality(drift) # 0
          BY <1>3, <4>1, FS_EmptySet
        <5>2. Cardinality(drift) # 1
          BY <3>2, <4>1, FS_Singleton
        <5> QED
          BY <5>1, <5>2
      <4> QED
        BY <4>1, <4>2
    <3> QED
      BY <3>1, <3>2
  <2>4. Status(varying) \in {"COMPOUND_ORDER_DRIFT", "PARTICIPATION_ORDER_DRIFT",
                             "SEMANTIC_ORDER_DRIFT", "EVIDENCE_ORDER_DRIFT"}
    BY <1>3, <2>3 DEF Status
  <2> QED
    BY <2>4
<1> QED
  BY <1>2, <1>3

\* The result of every evaluation is the completed order's, so what holds of
\* all completed orders holds of all evaluations.
LEMMA NoDriftIsEarned ==
    ASSUME IInv, pc = "classify", ~SemanticDrift PROVE Earned
<1>1. DOMAIN observations = IdOrders
  BY DEF IInv, LoopPosition
<1>2. ASSUME NEW order \in IdOrders
      PROVE  Cardinality({i \in DOMAIN trace : trace[i].order = order}) = ORDER_REPEATS
  BY <1>1 DEF IInv, RunsAreCounted, Working, RunsOf, RunsDue
<1>3. ASSUME NEW i \in DOMAIN trace
      PROVE  /\ trace[i].order \in DOMAIN observations
             /\ trace[i].result = observations[trace[i].order]
  <2>1. trace[i].order \in IdOrders
    <3>1. trace \in Seq([order : IdOrders, result : Result])
      BY DEF IInv, TypeOK
    <3>2. trace[i] \in [order : IdOrders, result : Result]
      BY <3>1, ElementOfSequence
    <3> QED
      BY <3>2
  <2>2. CASE /\ trace[i].order \in DOMAIN observations
             /\ trace[i].result = observations[trace[i].order]
    BY <2>2
  <2>3. CASE \E j \in DOMAIN repeats : trace[i].result = repeats[j]
    <3>1. DOMAIN repeats = {}
      BY DEF IInv, LoopPosition
    <3> QED
      BY <2>3, <3>1
  <2> QED
    BY <2>2, <2>3 DEF IInv, TraceIsKept, Working
<1>4. ASSUME NEW i \in DOMAIN trace
      PROVE  /\ Meaning(trace[i].result) = Meaning(trace[1].result)
             /\ ReportedIds(trace[i].result) = RuleIds(request.policy)
  <2>1. 1 \in DOMAIN trace
    BY DEF IInv, TypeOK
  <2> QED
    BY <1>3, <2>1, NoDriftSameMeaning DEF IInv
<1> QED
  BY <1>2, <1>4 DEF Earned

\* A report is returned: it is bounded, or the call raises.
LEMMA ReturnKeeps ==
    ASSUME IInv, NEW candidate, Return(candidate),
           candidate.conforms_within_coverage \in {"true", "false", "none"},
           candidate.evaluator_runs \in Nat, candidate.orders_completed \in Nat,
           (\/ candidate.conforms_within_coverage = "true"
            \/ candidate.status \in {"NO_VARIANCE_OBSERVED", "PRESENTATION_ONLY_DRIFT"})
               => Earned
    PROVE  IInv'
<1>1. evaluator_runs' = evaluator_runs /\ trace' = trace
      /\ observed_result_bytes' = observed_result_bytes
  BY DEF Return
<1>2. CASE Raise("ORDER_CHECK_TOO_LARGE")
  BY <1>1, <1>2, RaiseKeeps DEF IInv, TypeOK
<1>3. CASE /\ pc' = "reported" /\ report' = candidate
           /\ UNCHANGED <<request, repeats, observations, error>>
  <2>1. IdOrders' = IdOrders
    BY <1>3 DEF IdOrders
  <2>2. TypeOK'
    BY <1>1, <1>3, <2>1 DEF IInv, TypeOK, ReportShape
  <2>3. LoopPosition' /\ ResultsAccepted'
    BY <1>3
    DEF IInv, LoopPosition, ResultsAccepted, Accepted, RowsAreDistinct, RowsAreDeclared
  <2>4. TraceIsKept' /\ RunsAreCounted'
    BY <1>3 DEF TraceIsKept, RunsAreCounted, Working
  <2>5. CleanReportIsEarned'
    BY <1>1, <1>3, <2>1 DEF CleanReportIsEarned, Earned
  <2> QED
    BY <2>2, <2>3, <2>4, <2>5 DEF IInv
<1> QED
  BY <1>2, <1>3 DEF Return

\* The repeats differ: the report is inconclusive, and claims nothing.
LEMMA CompareDifferingKeeps == ASSUME IInv, CompareDiffering PROVE IInv'
<1> DEFINE candidate == NondeterministicReport
<1>1. /\ candidate.conforms_within_coverage = "none"
      /\ candidate.status = "INCONCLUSIVE_NONDETERMINISTIC"
      /\ candidate.evaluator_runs = evaluator_runs
      /\ candidate.orders_completed = Cardinality(DOMAIN observations)
  BY DEF NondeterministicReport
<1>2. evaluator_runs \in Nat /\ Cardinality(DOMAIN observations) \in Nat
  BY FS_CardinalityType DEF IInv, TypeOK, LoopPosition
<1>3. Return(candidate)
  BY DEF CompareDiffering
<1> HIDE DEF candidate
<1> QED
  BY <1>1, <1>2, <1>3, ReturnKeeps

\* Every order is done: a report without drift is earned.
LEMMA ClassifyKeeps == ASSUME IInv, Classify PROVE IInv'
<1> DEFINE candidate == ExhaustiveReport
           varying == {dimension \in Range(Dimensions) : Varies(dimension)}
<1>1. /\ candidate.conforms_within_coverage = IF SemanticDrift THEN "false" ELSE "true"
      /\ candidate.status = Status(varying)
      /\ candidate.evaluator_runs = evaluator_runs
      /\ candidate.orders_completed = Cardinality(DOMAIN observations)
  BY DEF ExhaustiveReport
<1>2. evaluator_runs \in Nat /\ Cardinality(DOMAIN observations) \in Nat
  BY FS_CardinalityType DEF IInv, TypeOK, LoopPosition
<1>3. Return(candidate) /\ pc = "classify"
  BY DEF Classify
<1>4. (\/ candidate.conforms_within_coverage = "true"
       \/ candidate.status \in {"NO_VARIANCE_OBSERVED", "PRESENTATION_ONLY_DRIFT"})
         => ~SemanticDrift
  <2> HIDE DEF candidate, varying
  <2>1. candidate.conforms_within_coverage = "true" => ~SemanticDrift
    BY <1>1
  <2>2. candidate.status \in {"NO_VARIANCE_OBSERVED", "PRESENTATION_ONLY_DRIFT"}
          => ~SemanticDrift
    BY <1>1, CleanStatusMeansNoDrift DEF varying
  <2> QED
    BY <2>1, <2>2
<1>5. candidate.conforms_within_coverage \in {"true", "false", "none"}
  BY <1>1
<1> HIDE DEF candidate
<1> QED
  BY <1>1, <1>2, <1>3, <1>4, <1>5, NoDriftIsEarned, ReturnKeeps

\* Every step keeps the invariant.
LEMMA NextIInv == IInv /\ [Next]_vars => IInv'
<1> SUFFICES ASSUME IInv, [Next]_vars PROVE IInv'
  OBVIOUS
<1>1. CASE Enter
  BY <1>1, EnterKeeps
<1>2. CASE Refuse
  <2>1. EntryFault \in {"ORDER_CHECK_INVALID", "ORDER_CHECK_TOO_LARGE"}
    BY <1>2 DEF Refuse, EntryFault, NoError
  <2> QED
    BY <1>2, <2>1, RaiseKeeps DEF Refuse, IInv, TypeOK
<1>3. CASE RunBuiltin
  BY <1>3, RunBuiltinKeeps
<1>4. CASE CompareDiffering
  BY <1>4, CompareDifferingKeeps
<1>5. CASE CompleteOrder
  BY <1>5, CompleteOrderKeeps
<1>6. CASE Classify
  BY <1>6, ClassifyKeeps
<1>7. ASSUME NEW result \in Returns, RunEvaluator(result) PROVE IInv'
  BY <1>7, RunEvaluatorKeeps
<1>8. CASE UNCHANGED vars
  <2>1. IInv' = IInv
    BY <1>8 DEF vars, IInv, TypeOK, LoopPosition, ResultsAccepted, Accepted, TraceIsKept,
                RunsAreCounted, CleanReportIsEarned, ReportShape, Working, RunsOf, RunsDue,
                CurrentOrder, IdOrders, RowsAreDistinct, RowsAreDeclared
  <2> QED
    BY <2>1
<1> QED
  BY <1>1, <1>2, <1>3, <1>4, <1>5, <1>6, <1>7, <1>8 DEF Next, Internal, Terminating

\* The inductive invariant holds throughout.
LEMMA Invariance == Spec => []IInv
BY InitIInv, NextIInv, PTL DEF Spec

\* Type correctness of check_order_conformance, for every policy and every
\* evaluator: it only ever evaluates permutations of the declared rules, and
\* keeps only results that have the shape of one.
THEOREM TypeCorrect == Spec => []TypeOK
<1>1. IInv => TypeOK
  BY DEF IInv
<1> QED
  BY <1>1, Invariance, PTL

\* A clean report is earned, for every policy and every evaluator: all orders
\* were evaluated as often as promised, and every evaluation gave the same
\* complete answer, though the code never compares them pairwise.
THEOREM CleanMeansClean == Spec => []CleanReportIsEarned
<1>1. IInv => CleanReportIsEarned
  BY DEF IInv
<1> QED
  BY <1>1, Invariance, PTL

-----------------------------------------------------------------------------
(* What the reports say of the evaluations: the invariant, strengthened.   *)

\* The aggregate of every result kept follows from its rows.
AggregatesAreConsistent ==
    /\ \A order \in DOMAIN observations :
          PassedIsConsistent(observations[order], request.policy)
    /\ \A i \in DOMAIN repeats : PassedIsConsistent(repeats[i], request.policy)

\* The history ends with the repeats of the order in progress.
TraceEndsInRepeats ==
    Working =>
        /\ Len(repeats) <= Len(trace)
        /\ \A k \in 1..Len(repeats) :
              trace[Len(trace) - Len(repeats) + k]
                = [order |-> CurrentOrder, result |-> repeats[k]]

VerdictIsGiven ==
    pc = "reported" => report.conforms_within_coverage \in {"true", "false", "none"}

ReportsAreExact == VerdictIsGiven /\ InconclusiveIsExact /\ VarianceIsExact

Exact == AggregatesAreConsistent /\ TraceEndsInRepeats /\ ReportsAreExact

\* Only a report can be wrong.
LEMMA NothingReported == ASSUME pc' # "reported" PROVE ReportsAreExact'
BY DEF ReportsAreExact, VerdictIsGiven, InconclusiveIsExact, VarianceIsExact, Conclusive

\* check_order_conformance starts exact.
LEMMA InitExact == Init => Exact
<1> SUFFICES ASSUME Init PROVE Exact
  OBVIOUS
<1>1. DOMAIN observations = {} /\ DOMAIN repeats = {} /\ Len(repeats) = 0 /\ Len(trace) = 0
  BY DEF Init
<1>2. AggregatesAreConsistent /\ TraceEndsInRepeats
  BY <1>1 DEF AggregatesAreConsistent, TraceEndsInRepeats
<1>3. ReportsAreExact
  BY DEF Init, ReportsAreExact, VerdictIsGiven, InconclusiveIsExact, VarianceIsExact, Conclusive
<1> QED
  BY <1>2, <1>3 DEF Exact

\* An exception reports nothing.
LEMMA RaiseKeepsExact == ASSUME IInv, Exact, NEW code, Raise(code) PROVE Exact'
<1>1. /\ pc' = "raised" /\ request' = request /\ repeats' = repeats
      /\ observations' = observations
  BY DEF Raise
<1>2. AggregatesAreConsistent'
  BY <1>1 DEF Exact, AggregatesAreConsistent, PassedIsConsistent, ReportedIds
<1>3. TraceEndsInRepeats' /\ ReportsAreExact'
  BY <1>1, NothingReported DEF TraceEndsInRepeats, Working
<1> QED
  BY <1>2, <1>3 DEF Exact

\* One evaluation more: the history grows with the repeats.
LEMMA AccountKeepsExact ==
    ASSUME IInv, Exact, pc = "evaluate", NEW result \in Result,
           PassedIsConsistent(result, request.policy), Account(result)
    PROVE  Exact'
<1> DEFINE entry == [order |-> CurrentOrder, result |-> result]
<1>1. CASE Raise("ORDER_CHECK_TOO_LARGE")
  BY <1>1, RaiseKeepsExact
<1>2. CASE /\ repeats' = Append(repeats, result)
           /\ pc' = IF IsLastRepeat THEN "compare" ELSE "evaluate"
           /\ UNCHANGED <<request, observations, report, error>>
  <2>1. /\ CurrentOrder' = CurrentOrder /\ DOMAIN observations' = DOMAIN observations
        /\ trace' = Append(trace, entry) /\ pc' \in {"compare", "evaluate"}
    BY <1>2 DEF IdOrders, CurrentOrder, Account
  <2>2. /\ repeats \in Seq(Result) /\ Len(repeats) \in Nat /\ Len(trace) \in Nat
        /\ trace \in Seq([order : IdOrders, result : Result])
        /\ CurrentOrder \in IdOrders
    BY CurrentOrderIsLeft DEF IInv, TypeOK, LoopPosition
  <2>3. /\ Len(repeats') = Len(repeats) + 1
        /\ \A k \in 1..Len(repeats) : repeats'[k] = repeats[k]
        /\ repeats'[Len(repeats) + 1] = result
        /\ DOMAIN repeats' = DOMAIN repeats \cup {Len(repeats) + 1}
        /\ DOMAIN repeats = 1..Len(repeats)
    BY <1>2, <2>2
  <2>4. /\ Len(trace') = Len(trace) + 1
        /\ \A i \in 1..Len(trace) : trace'[i] = trace[i]
        /\ trace'[Len(trace) + 1] = entry
    <3>1. entry \in [order : IdOrders, result : Result]
      BY <2>2
    <3> HIDE DEF entry
    <3> QED
      BY <2>1, <2>2, <3>1
  <2>5. AggregatesAreConsistent'
    <3>1. \A i \in DOMAIN repeats' : PassedIsConsistent(repeats'[i], request.policy)
      BY <2>3 DEF Exact, AggregatesAreConsistent
    <3>2. /\ request' = request /\ observations' = observations
          /\ \A order \in DOMAIN observations :
                PassedIsConsistent(observations[order], request.policy)
      BY <1>2 DEF Exact, AggregatesAreConsistent
    <3> QED
      BY <3>1, <3>2 DEF AggregatesAreConsistent, PassedIsConsistent, ReportedIds
  <2>6. TraceEndsInRepeats'
    <3>1. /\ Len(repeats) <= Len(trace)
          /\ \A k \in 1..Len(repeats) :
                trace[Len(trace) - Len(repeats) + k]
                  = [order |-> CurrentOrder, result |-> repeats[k]]
      BY DEF Exact, TraceEndsInRepeats, Working
    <3>2. ASSUME NEW k \in 1..Len(repeats')
          PROVE  trace'[Len(trace') - Len(repeats') + k]
                    = [order |-> CurrentOrder, result |-> repeats'[k]]
      <4>1. Len(trace') - Len(repeats') + k = Len(trace) - Len(repeats) + k
        BY <2>2, <2>3, <2>4
      <4>2. CASE k \in 1..Len(repeats)
        <5>1. Len(trace) - Len(repeats) + k \in 1..Len(trace)
          BY <2>2, <3>1, <4>2
        <5> QED
          BY <2>3, <2>4, <3>1, <4>1, <4>2, <5>1
      <4>3. CASE k = Len(repeats) + 1
        <5>1. Len(trace) - Len(repeats) + k = Len(trace) + 1
          BY <2>2, <4>3
        <5> QED
          BY <2>3, <2>4, <4>1, <4>3, <5>1
      <4> QED
        BY <2>2, <2>3, <4>2, <4>3
    <3>3. Len(repeats') <= Len(trace')
      BY <2>2, <2>3, <2>4, <3>1
    <3> QED
      BY <2>1, <3>2, <3>3 DEF TraceEndsInRepeats
  <2>7. ReportsAreExact'
    BY <2>1, NothingReported
  <2> QED
    BY <2>5, <2>6, <2>7 DEF Exact
<1> QED
  BY <1>1, <1>2 DEF Account

\* The built-in evaluator computes the aggregate from the rows.
LEMMA BuiltinResultIsConsistent ==
    ASSUME TypeOK, NEW order \in IdOrders
    PROVE  PassedIsConsistent(BuiltinResult(order), request.policy)
<1> DEFINE result == BuiltinResult(order)
           passed == \A id \in RuleIds(request.policy) : request.verdict[id].passed
<1>1. /\ order \in [DOMAIN request.policy -> RuleIds(request.policy)]
      /\ RuleIds(request.policy) = Range(order)
  <2>1. order \in [DOMAIN request.policy -> RuleIds(request.policy)]
    BY DEF IdOrders, Orders
  <2>2. Range(order) \subseteq RuleIds(request.policy)
    BY <2>1 DEF Range
  <2> QED
    BY <2>1, <2>2, InjectiveOrderIsOnto DEF IdOrders
<1>2. /\ DOMAIN result.rows = DOMAIN order
      /\ \A i \in DOMAIN order : /\ result.rows[i].rule_id = order[i]
                                 /\ result.rows[i].passed = request.verdict[order[i]].passed
      /\ result.passed = passed
  BY DEF BuiltinResult
<1>3. ReportedIds(result) = RuleIds(request.policy)
  <2> HIDE DEF result
  <2>1. \A id : id \in ReportedIds(result) <=> \E i \in DOMAIN order : id = order[i]
    BY <1>2 DEF ReportedIds, Range
  <2> QED
    BY <1>1, <2>1 DEF Range
<1>4. (\A row \in Range(result.rows) : row.passed) <=> passed
  <2>1. (\A row \in Range(result.rows) : row.passed)
          <=> \A i \in DOMAIN order : request.verdict[order[i]].passed
    <3> HIDE DEF result
    <3>1. \A row : row \in Range(result.rows) <=> \E i \in DOMAIN order : row = result.rows[i]
      BY <1>2 DEF Range
    <3>2. (\A row \in Range(result.rows) : row.passed)
            <=> \A i \in DOMAIN order : result.rows[i].passed
      BY <3>1, Zenon
    <3>3. \A i \in DOMAIN order :
             result.rows[i].passed <=> request.verdict[order[i]].passed
      BY <1>2, Zenon
    <3> QED
      BY <3>2, <3>3, Zenon
  <2>2. passed <=> \A i \in DOMAIN order : request.verdict[order[i]].passed
    BY <1>1, Zenon DEF Range
  <2> QED
    BY <2>1, <2>2
<1> HIDE DEF result, passed
<1>5. result.passed = (ReportedIds(result) = RuleIds(request.policy)
                         /\ \A row \in Range(result.rows) : row.passed)
  BY <1>2, <1>3, <1>4, Zenon DEF passed
<1> QED
  BY <1>5 DEF PassedIsConsistent, result

-----------------------------------------------------------------------------
(* Neighbouring exchanges connect all the orders.                          *)

\* The exchange of two neighbours is an order again.
LEMMA SwapIsOrder ==
    ASSUME TypeOK, NEW order \in IdOrders, NEW k \in 1..(Len(request.policy) - 1)
    PROVE  /\ SwapAt(order, k) \in IdOrders
           /\ SwapAt(order, k)[k] = order[k + 1] /\ SwapAt(order, k)[k + 1] = order[k]
           /\ \A i \in 1..Len(request.policy) :
                 i \notin {k, k + 1} => SwapAt(order, k)[i] = order[i]
<1> DEFINE n == Len(request.policy)
           swapped == SwapAt(order, k)
<1>1. /\ n \in Nat /\ DOMAIN request.policy = 1..n
      /\ order \in [1..n -> RuleIds(request.policy)] /\ IsInjective(order)
  BY RequestFacts DEF IdOrders, Orders
<1>2. k \in 1..n /\ k + 1 \in 1..n /\ k # k + 1
  BY <1>1
<1>3. /\ swapped \in [1..n -> RuleIds(request.policy)]
      /\ swapped[k] = order[k + 1] /\ swapped[k + 1] = order[k]
      /\ \A i \in 1..n : i \notin {k, k + 1} => swapped[i] = order[i]
  BY <1>1, <1>2 DEF SwapAt
<1>4. IsInjective(swapped)
  <2>1. \A i, j \in 1..n : order[i] = order[j] => i = j
    BY <1>1 DEF IsInjective
  <2> HIDE DEF swapped, n
  <2>2. \A i, j \in 1..n : swapped[i] = swapped[j] => i = j
    BY <1>2, <1>3, <2>1
  <2>3. DOMAIN swapped = 1..n
    BY <1>3
  <2> QED
    BY <2>2, <2>3 DEF IsInjective
<1> QED
  BY <1>1, <1>3, <1>4 DEF IdOrders, Orders

\* What no exchange of neighbours changes is the same for every order: of two
\* orders that agree up to m, the rule that belongs at m + 1 moves there one
\* exchange at a time.
LEMMA NeighboursReachEverything ==
    ASSUME TypeOK, NEW f,
           \A order \in IdOrders : \A k \in 1..(Len(request.policy) - 1) :
               f[SwapAt(order, k)] = f[order]
    PROVE  \A a, b \in IdOrders : f[a] = f[b]
<1> DEFINE n == Len(request.policy)
           Same(a, b, m) == \A i \in 1..m : a[i] = b[i]
           Decided(m) == \A a, b \in IdOrders : Same(a, b, m) => f[a] = f[b]
<1>1. /\ n \in Nat /\ DOMAIN request.policy = 1..n
      /\ \A a \in IdOrders : /\ a \in [1..n -> RuleIds(request.policy)]
                             /\ \A i, j \in 1..n : a[i] = a[j] => i = j
  BY RequestFacts DEF IdOrders, Orders, IsInjective
<1>2. Decided(n)
  <2> SUFFICES ASSUME NEW a \in IdOrders, NEW b \in IdOrders, Same(a, b, n) PROVE a = b
    OBVIOUS
  <2>1. a \in [1..n -> RuleIds(request.policy)] /\ b \in [1..n -> RuleIds(request.policy)]
    BY <1>1
  <2> QED
    BY <2>1
<1>3. ASSUME NEW m \in 0..(n - 1), Decided(m + 1) PROVE Decided(m)
  <2> SUFFICES ASSUME NEW a0 \in IdOrders, NEW b0 \in IdOrders, Same(a0, b0, m), f[a0] # f[b0]
               PROVE  FALSE
    OBVIOUS
  <2> DEFINE T == {j \in 1..n : \E a, b \in IdOrders :
                       Same(a, b, m) /\ f[a] # f[b] /\ a[j] = b[m + 1]}
  <2>1. m \in Nat /\ m + 1 \in 1..n
    BY <1>1
  <2>2. T # {}
    <3>1. b0[m + 1] \in RuleIds(request.policy)
      BY <1>1, <2>1
    <3>2. RuleIds(request.policy) \subseteq Range(a0)
      BY InjectiveOrderIsOnto DEF IdOrders
    <3>3. PICK j \in DOMAIN a0 : a0[j] = b0[m + 1]
      BY <3>1, <3>2 DEF Range
    <3>4. j \in 1..n
      BY <1>1, <3>3
    <3>5. j \in T
      BY <3>3, <3>4
    <3> QED
      BY <3>5
  <2>3. PICK j \in T : \A k \in T : j <= k
    <3>1. T \in SUBSET Nat
      BY <1>1
    <3> HIDE DEF T
    <3> QED
      BY <2>2, <3>1, LeastNatural
  <2>4. PICK a \in IdOrders, b \in IdOrders :
            Same(a, b, m) /\ f[a] # f[b] /\ a[j] = b[m + 1]
    BY <2>3
  <2>5. j \in 1..n /\ j > m
    <3>1. j \in 1..n
      BY <2>3
    <3>2. CASE j \in 1..m
      <4>1. b[j] = b[m + 1]
        BY <2>4, <3>2
      <4>2. j = m + 1
        BY <1>1, <2>1, <3>1, <4>1
      <4> QED
        BY <2>1, <3>2, <4>2
    <3> QED
      BY <1>1, <2>1, <3>1, <3>2
  <2>6. CASE j = m + 1
    <3>1. Same(a, b, m + 1)
      <4>1. \A i \in 1..(m + 1) : i \in 1..m \/ i = m + 1
        BY <2>1
      <4> QED
        BY <2>4, <2>6, <4>1
    <3> QED
      BY <1>3, <2>4, <3>1
  <2>7. CASE j # m + 1
    <3> DEFINE c == SwapAt(a, j - 1)
    <3>1. /\ j - 1 \in 1..(n - 1) /\ (j - 1) + 1 = j /\ j - 1 > m
          /\ \A i \in 1..m : i \in 1..n /\ i \notin {j - 1, j}
      BY <1>1, <2>1, <2>5, <2>7
    <3>2. /\ c \in IdOrders /\ c[j - 1] = a[j]
          /\ \A i \in 1..n : i \notin {j - 1, j} => c[i] = a[i]
      BY <3>1, SwapIsOrder
    <3>3. f[c] = f[a]
      BY <3>1
    <3>4. Same(c, b, m)
      BY <2>4, <3>1, <3>2
    <3>5. j - 1 \in 1..n
      BY <1>1, <3>1
    <3>6. j - 1 \in T
      BY <2>4, <3>2, <3>3, <3>4, <3>5
    <3> HIDE DEF T
    <3> QED
      BY <2>3, <2>5, <3>6
  <2> QED
    BY <2>6, <2>7
<1>4. Decided(0)
  <2> DEFINE M == {m \in 0..n : Decided(m)}
  <2> HIDE DEF Decided
  <2>1. n \in M /\ M \in SUBSET Nat
    BY <1>1, <1>2
  <2>2. PICK m \in M : \A k \in M : m <= k
    <3> HIDE DEF M
    <3> QED
      BY <2>1, LeastNatural
  <2>3. CASE m = 0
    BY <2>2, <2>3
  <2>4. CASE m # 0
    <3>1. m - 1 \in 0..(n - 1) /\ (m - 1) + 1 = m /\ m - 1 \in 0..n
      BY <1>1, <2>2, <2>4
    <3>2. Decided(m - 1)
      BY <1>3, <2>2, <3>1
    <3>3. m - 1 \in M
      BY <3>1, <3>2
    <3> QED
      BY <2>2, <3>1, <3>3
  <2> QED
    BY <2>3, <2>4
<1> QED
  BY <1>4

-----------------------------------------------------------------------------
(* The variance found is the variance there is.                            *)

\* When all orders are done, the evaluations are the observations.
LEMMA EvaluationsAreTheOrders ==
    ASSUME IInv, pc = "classify"
    PROVE  /\ DOMAIN observations = IdOrders
           /\ \A i \in DOMAIN trace : /\ trace[i].order \in IdOrders
                                      /\ trace[i].result = observations[trace[i].order]
           /\ \A order \in IdOrders :
                 \E i \in DOMAIN trace : /\ trace[i].order = order
                                         /\ trace[i].result = observations[order]
<1>1. DOMAIN observations = IdOrders /\ DOMAIN repeats = {}
  BY DEF IInv, LoopPosition
<1>2. \A i \in DOMAIN trace : /\ trace[i].order \in IdOrders
                              /\ trace[i].result = observations[trace[i].order]
  BY <1>1 DEF IInv, TraceIsKept, Working
<1>3. ASSUME NEW order \in IdOrders PROVE \E i \in DOMAIN trace : trace[i].order = order
  <2>1. IsFiniteSet(RunsOf(order)) /\ Cardinality(RunsOf(order)) = ORDER_REPEATS
    BY <1>1 DEF IInv, RunsAreCounted, RunsDue, Working
  <2>2. RunsOf(order) # {}
    BY <2>1, FS_EmptySet, BoundsAssumption
  <2> QED
    BY <2>2 DEF RunsOf
<1> QED
  BY <1>1, <1>2, <1>3

\* Of the completed orders with some property, one comes first.
LEMMA FirstCompleted ==
    ASSUME TypeOK, NEW S \in SUBSET DOMAIN observations, S # {}
    PROVE  FirstOrder(request.policy, S) \in S
<1>1. S \in SUBSET Orders(request.policy)
  BY DEF TypeOK, IdOrders
<1> QED
  BY <1>1, RequestFacts, FirstOrderExists

\* The first order that reported a rule, and the first that reported a set.
LEMMA FirstReports ==
    ASSUME TypeOK, NEW order \in DOMAIN observations
    PROVE  /\ \A id \in ReportedIds(observations[order]) :
                 /\ FirstReporting(id) \in DOMAIN observations
                 /\ id \in ReportedIds(observations[FirstReporting(id)])
           /\ LET first == FirstWithParticipation(ReportedIds(observations[order]))
              IN /\ first \in DOMAIN observations
                 /\ ReportedIds(observations[first]) = ReportedIds(observations[order])
<1>1. ASSUME NEW id \in ReportedIds(observations[order])
      PROVE  /\ FirstReporting(id) \in DOMAIN observations
             /\ id \in ReportedIds(observations[FirstReporting(id)])
  <2> DEFINE S == {o \in DOMAIN observations : id \in ReportedIds(observations[o])}
  <2>1. S \in SUBSET DOMAIN observations /\ S # {}
    OBVIOUS
  <2>2. FirstOrder(request.policy, S) \in S
    BY <2>1, FirstCompleted
  <2>3. FirstReporting(id) = FirstOrder(request.policy, S)
    BY DEF FirstReporting
  <2> QED
    BY <2>2, <2>3
<1>2. /\ FirstWithParticipation(ReportedIds(observations[order])) \in DOMAIN observations
      /\ ReportedIds(observations[FirstWithParticipation(ReportedIds(observations[order]))])
           = ReportedIds(observations[order])
  <2> DEFINE ids == ReportedIds(observations[order])
             S == {o \in DOMAIN observations : ReportedIds(observations[o]) = ids}
  <2>1. S \in SUBSET DOMAIN observations /\ S # {}
    OBVIOUS
  <2>2. FirstOrder(request.policy, S) \in S
    BY <2>1, FirstCompleted
  <2>3. FirstWithParticipation(ids) = FirstOrder(request.policy, S)
    BY DEF FirstWithParticipation
  <2> QED
    BY <2>2, <2>3
<1> QED
  BY <1>1, <1>2

\* The scan finds a rule whose outcome differs from its first one exactly when
\* some two orders give the rule different outcomes; likewise for its reason,
\* and for the aggregate of orders that report the same rules.
LEMMA ScanFindsEveryDifference ==
    ASSUME TypeOK
    PROVE  /\ PassHits # {} <=>
                 \E a, b \in DOMAIN observations :
                     \E id \in ReportedIds(observations[a])
                                 \cap ReportedIds(observations[b]) :
                         RowOf(observations[a], id).passed # RowOf(observations[b], id).passed
           /\ ReasonHits # {} <=>
                 \E a, b \in DOMAIN observations :
                     \E id \in ReportedIds(observations[a])
                                 \cap ReportedIds(observations[b]) :
                         RowOf(observations[a], id).reason_code
                           # RowOf(observations[b], id).reason_code
           /\ AggregateHits # {} <=>
                 \E a, b \in DOMAIN observations :
                     /\ ReportedIds(observations[a]) = ReportedIds(observations[b])
                     /\ observations[a].passed # observations[b].passed
<1>1. ASSUME NEW a \in DOMAIN observations, a \in PassHits
      PROVE  \E b \in DOMAIN observations :
                 \E id \in ReportedIds(observations[a]) \cap ReportedIds(observations[b]) :
                     RowOf(observations[a], id).passed # RowOf(observations[b], id).passed
  <2>1. PICK id \in ReportedIds(observations[a]) :
            RowOf(observations[a], id).passed
              # RowOf(observations[FirstReporting(id)], id).passed
    BY <1>1 DEF PassHits, PassConflicts
  <2> QED
    BY <2>1, FirstReports
<1>2. ASSUME NEW a \in DOMAIN observations, a \in ReasonHits
      PROVE  \E b \in DOMAIN observations :
                 \E id \in ReportedIds(observations[a]) \cap ReportedIds(observations[b]) :
                     RowOf(observations[a], id).reason_code
                       # RowOf(observations[b], id).reason_code
  <2>1. PICK id \in ReportedIds(observations[a]) :
            RowOf(observations[a], id).reason_code
              # RowOf(observations[FirstReporting(id)], id).reason_code
    BY <1>2 DEF ReasonHits, ReasonConflicts
  <2> QED
    BY <2>1, FirstReports
<1>3. ASSUME NEW a \in DOMAIN observations, NEW b \in DOMAIN observations,
             NEW id \in ReportedIds(observations[a]) \cap ReportedIds(observations[b])
      PROVE  /\ RowOf(observations[a], id).passed # RowOf(observations[b], id).passed
                  => a \in PassHits \/ b \in PassHits
             /\ RowOf(observations[a], id).reason_code # RowOf(observations[b], id).reason_code
                  => a \in ReasonHits \/ b \in ReasonHits
  BY DEF PassHits, PassConflicts, ReasonHits, ReasonConflicts
<1>4. ASSUME NEW a \in DOMAIN observations, a \in AggregateHits
      PROVE  \E b \in DOMAIN observations :
                 /\ ReportedIds(observations[a]) = ReportedIds(observations[b])
                 /\ observations[a].passed # observations[b].passed
  BY <1>4, FirstReports DEF AggregateHits, AggregateConflict
<1>5. ASSUME NEW a \in DOMAIN observations, NEW b \in DOMAIN observations,
             ReportedIds(observations[a]) = ReportedIds(observations[b]),
             observations[a].passed # observations[b].passed
      PROVE  a \in AggregateHits \/ b \in AggregateHits
  BY <1>5 DEF AggregateHits, AggregateConflict
<1>6. /\ PassHits \subseteq DOMAIN observations /\ ReasonHits \subseteq DOMAIN observations
      /\ AggregateHits \subseteq DOMAIN observations
  BY DEF PassHits, ReasonHits, AggregateHits
<1>7. PassHits # {} <=>
        \E a, b \in DOMAIN observations :
            \E id \in ReportedIds(observations[a]) \cap ReportedIds(observations[b]) :
                RowOf(observations[a], id).passed # RowOf(observations[b], id).passed
  BY <1>1, <1>3, <1>6
<1>8. ReasonHits # {} <=>
        \E a, b \in DOMAIN observations :
            \E id \in ReportedIds(observations[a]) \cap ReportedIds(observations[b]) :
                RowOf(observations[a], id).reason_code # RowOf(observations[b], id).reason_code
  BY <1>2, <1>3, <1>6
<1>9. AggregateHits # {} <=>
        \E a, b \in DOMAIN observations :
            /\ ReportedIds(observations[a]) = ReportedIds(observations[b])
            /\ observations[a].passed # observations[b].passed
  BY <1>4, <1>5, <1>6
<1> QED
  BY <1>7, <1>8, <1>9

\* Neighbouring orders differ in what they report, or in how they present it,
\* exactly when some two orders do.
LEMMA NeighboursShowEveryDifference ==
    ASSUME TypeOK, DOMAIN observations = IdOrders
    PROVE  /\ AdjacentHits("participation") # {} <=>
                 \E a, b \in IdOrders :
                     ReportedIds(observations[a]) # ReportedIds(observations[b])
           /\ AdjacentHits("presentation") # {} <=>
                 \E a, b \in IdOrders :
                     Presentation(observations[a]) # Presentation(observations[b])
<1> DEFINE reported == [order \in IdOrders |-> ReportedIds(observations[order])]
           presented == [order \in IdOrders |-> Presentation(observations[order])]
<1>1. ASSUME NEW order \in IdOrders, NEW k \in 1..(Len(request.policy) - 1)
      PROVE  /\ SwapAt(order, k) \in IdOrders
             /\ AdjacentHits("participation") = {} =>
                  ReportedIds(observations[SwapAt(order, k)]) = ReportedIds(observations[order])
             /\ AdjacentHits("presentation") = {} =>
                  Presentation(observations[SwapAt(order, k)]) = Presentation(observations[order])
  <2>1. SwapAt(order, k) \in IdOrders
    BY SwapIsOrder
  <2>2. <<order, k>> \in (DOMAIN observations) \X (1..(Len(request.policy) - 1))
    OBVIOUS
  <2>3. ASSUME NEW dimension \in {"participation", "presentation"},
               AdjacentHits(dimension) = {}
        PROVE  ~ProjectionsDiffer(dimension, observations[order],
                                  observations[SwapAt(order, k)])
    BY <2>1, <2>2, <2>3 DEF AdjacentHits
  <2> QED
    BY <2>1, <2>3 DEF ProjectionsDiffer
<1>2. ASSUME AdjacentHits("participation") = {}, NEW a \in IdOrders, NEW b \in IdOrders
      PROVE  ReportedIds(observations[a]) = ReportedIds(observations[b])
  <2>1. \A order \in IdOrders : \A k \in 1..(Len(request.policy) - 1) :
            reported[SwapAt(order, k)] = reported[order]
    BY <1>1, <1>2
  <2>2. reported[a] = reported[b]
    <3> HIDE DEF reported
    <3> QED
      BY <2>1, NeighboursReachEverything
  <2> QED
    BY <2>2
<1>3. ASSUME AdjacentHits("presentation") = {}, NEW a \in IdOrders, NEW b \in IdOrders
      PROVE  Presentation(observations[a]) = Presentation(observations[b])
  <2>1. \A order \in IdOrders : \A k \in 1..(Len(request.policy) - 1) :
            presented[SwapAt(order, k)] = presented[order]
    BY <1>1, <1>3
  <2>2. presented[a] = presented[b]
    <3> HIDE DEF presented
    <3> QED
      BY <2>1, NeighboursReachEverything
  <2> QED
    BY <2>2
<1>4. ASSUME NEW dimension \in {"participation", "presentation"},
             AdjacentHits(dimension) # {}
      PROVE  \E a, b \in IdOrders :
                 ProjectionsDiffer(dimension, observations[a], observations[b])
  BY <1>4 DEF AdjacentHits
<1>5. AdjacentHits("participation") # {} =>
        \E a, b \in IdOrders :
            ReportedIds(observations[a]) # ReportedIds(observations[b])
  BY <1>4 DEF ProjectionsDiffer
<1>6. AdjacentHits("presentation") # {} =>
        \E a, b \in IdOrders :
            Presentation(observations[a]) # Presentation(observations[b])
  BY <1>4 DEF ProjectionsDiffer
<1> QED
  BY <1>2, <1>3, <1>5, <1>6

\* The dimensions that the report will name are those that truly vary.
LEMMA VarianceIsFound ==
    ASSUME IInv, pc = "classify"
    PROVE  {dimension \in Range(Dimensions) : Varies(dimension)} = TrueVariance
<1>1. TypeOK /\ DOMAIN observations = IdOrders
  BY EvaluationsAreTheOrders DEF IInv
<1>2. \A order \in IdOrders :
         ReportedIds(observations[order]) \subseteq RuleIds(request.policy)
  BY <1>1 DEF IInv, ResultsAccepted, Accepted, RowsAreDeclared, ReportedIds
<1>3. /\ \A i \in DOMAIN trace : /\ trace[i].order \in IdOrders
                                 /\ trace[i].result = observations[trace[i].order]
      /\ \A order \in IdOrders :
            \E i \in DOMAIN trace : trace[i].result = observations[order]
  BY EvaluationsAreTheOrders
<1>4. Varies("outcome") <=> "outcome" \in TrueVariance
  <2> DEFINE Differ(left, right) ==
                 \E id \in ReportedIds(left) \cap ReportedIds(right) :
                     RowOf(left, id).passed # RowOf(right, id).passed
  <2>1. Varies("outcome") <=>
           \/ \E a, b \in IdOrders : Differ(observations[a], observations[b])
           \/ \E a, b \in IdOrders :
                 /\ ReportedIds(observations[a]) = ReportedIds(observations[b])
                 /\ observations[a].passed # observations[b].passed
    <3>1. Varies("outcome") <=> PassHits # {} \/ AggregateHits # {}
      BY DEF Varies, GloballyVaries
    <3> QED
      BY <1>1, <3>1, ScanFindsEveryDifference
  <2>2. (\E id \in RuleIds(request.policy) :
            \E a, b \in ValuesOf(id, LAMBDA row : row.passed) : a # b)
        <=> \E i, j \in DOMAIN trace : Differ(trace[i].result, trace[j].result)
    <3>1. ASSUME NEW id, NEW a \in ValuesOf(id, LAMBDA row : row.passed),
                 NEW b \in ValuesOf(id, LAMBDA row : row.passed), a # b
          PROVE  \E i, j \in DOMAIN trace : Differ(trace[i].result, trace[j].result)
      <4>1. PICK i \in DOMAIN trace : /\ id \in ReportedIds(trace[i].result)
                                      /\ a = RowOf(trace[i].result, id).passed
        BY DEF ValuesOf
      <4>2. PICK j \in DOMAIN trace : /\ id \in ReportedIds(trace[j].result)
                                      /\ b = RowOf(trace[j].result, id).passed
        BY DEF ValuesOf
      <4> QED
        BY <3>1, <4>1, <4>2
    <3>2. ASSUME NEW i \in DOMAIN trace, NEW j \in DOMAIN trace,
                 Differ(trace[i].result, trace[j].result)
          PROVE  \E id \in RuleIds(request.policy) :
                     \E a, b \in ValuesOf(id, LAMBDA row : row.passed) : a # b
      <4>1. PICK id \in ReportedIds(trace[i].result) \cap ReportedIds(trace[j].result) :
                RowOf(trace[i].result, id).passed # RowOf(trace[j].result, id).passed
        BY <3>2
      <4>2. id \in RuleIds(request.policy)
        BY <1>2, <1>3
      <4>3. /\ RowOf(trace[i].result, id).passed \in ValuesOf(id, LAMBDA row : row.passed)
            /\ RowOf(trace[j].result, id).passed \in ValuesOf(id, LAMBDA row : row.passed)
        BY DEF ValuesOf
      <4> QED
        BY <4>1, <4>2, <4>3
    <3> QED
      BY <3>1, <3>2
  <2>3. "outcome" \in TrueVariance <=>
           \/ \E id \in RuleIds(request.policy) :
                 \E a, b \in ValuesOf(id, LAMBDA row : row.passed) : a # b
           \/ \E i, j \in DOMAIN trace :
                 /\ ReportedIds(trace[i].result) = ReportedIds(trace[j].result)
                 /\ trace[i].result.passed # trace[j].result.passed
    BY DEF TrueVariance, Dimensions, Range
  <2>4. (\E i, j \in DOMAIN trace : Differ(trace[i].result, trace[j].result))
          <=> \E a, b \in IdOrders : Differ(observations[a], observations[b])
    <3> HIDE DEF Differ
    <3> QED
      BY <1>3
  <2>5. (\E i, j \in DOMAIN trace :
            /\ ReportedIds(trace[i].result) = ReportedIds(trace[j].result)
            /\ trace[i].result.passed # trace[j].result.passed)
          <=> \E a, b \in IdOrders :
                 /\ ReportedIds(observations[a]) = ReportedIds(observations[b])
                 /\ observations[a].passed # observations[b].passed
    BY <1>3
  <2> HIDE DEF Differ
  <2> QED
    BY <2>1, <2>2, <2>3, <2>4, <2>5
<1>5. Varies("reason_evidence") <=> "reason_evidence" \in TrueVariance
  <2> DEFINE Differ(left, right) ==
                 \E id \in ReportedIds(left) \cap ReportedIds(right) :
                     RowOf(left, id).reason_code # RowOf(right, id).reason_code
  <2>1. Varies("reason_evidence") <=>
           \E a, b \in IdOrders : Differ(observations[a], observations[b])
    <3>1. Varies("reason_evidence") <=> ReasonHits # {}
      BY DEF Varies, GloballyVaries
    <3> QED
      BY <1>1, <3>1, ScanFindsEveryDifference
  <2>2. (\E id \in RuleIds(request.policy) :
            \E a, b \in ValuesOf(id, LAMBDA row : row.reason_code) : a # b)
        <=> \E i, j \in DOMAIN trace : Differ(trace[i].result, trace[j].result)
    <3>1. ASSUME NEW id, NEW a \in ValuesOf(id, LAMBDA row : row.reason_code),
                 NEW b \in ValuesOf(id, LAMBDA row : row.reason_code), a # b
          PROVE  \E i, j \in DOMAIN trace : Differ(trace[i].result, trace[j].result)
      <4>1. PICK i \in DOMAIN trace : /\ id \in ReportedIds(trace[i].result)
                                      /\ a = RowOf(trace[i].result, id).reason_code
        BY DEF ValuesOf
      <4>2. PICK j \in DOMAIN trace : /\ id \in ReportedIds(trace[j].result)
                                      /\ b = RowOf(trace[j].result, id).reason_code
        BY DEF ValuesOf
      <4> QED
        BY <3>1, <4>1, <4>2
    <3>2. ASSUME NEW i \in DOMAIN trace, NEW j \in DOMAIN trace,
                 Differ(trace[i].result, trace[j].result)
          PROVE  \E id \in RuleIds(request.policy) :
                     \E a, b \in ValuesOf(id, LAMBDA row : row.reason_code) : a # b
      <4>1. PICK id \in ReportedIds(trace[i].result) \cap ReportedIds(trace[j].result) :
                RowOf(trace[i].result, id).reason_code # RowOf(trace[j].result, id).reason_code
        BY <3>2
      <4>2. id \in RuleIds(request.policy)
        BY <1>2, <1>3
      <4>3. /\ RowOf(trace[i].result, id).reason_code \in ValuesOf(id, LAMBDA row : row.reason_code)
            /\ RowOf(trace[j].result, id).reason_code \in ValuesOf(id, LAMBDA row : row.reason_code)
        BY DEF ValuesOf
      <4> QED
        BY <4>1, <4>2, <4>3
    <3> QED
      BY <3>1, <3>2
  <2>3. "reason_evidence" \in TrueVariance <=>
           \E id \in RuleIds(request.policy) :
               \E a, b \in ValuesOf(id, LAMBDA row : row.reason_code) : a # b
    BY DEF TrueVariance, Dimensions, Range
  <2>4. (\E i, j \in DOMAIN trace : Differ(trace[i].result, trace[j].result))
          <=> \E a, b \in IdOrders : Differ(observations[a], observations[b])
    <3> HIDE DEF Differ
    <3> QED
      BY <1>3
  <2> HIDE DEF Differ
  <2> QED
    BY <2>1, <2>2, <2>3, <2>4
<1>6. Varies("participation") <=> "participation" \in TrueVariance
  <2>1. Varies("participation") <=>
           \E a, b \in IdOrders :
               ReportedIds(observations[a]) # ReportedIds(observations[b])
    BY <1>1, NeighboursShowEveryDifference DEF Varies
  <2>2. "participation" \in TrueVariance <=>
           \E i, j \in DOMAIN trace :
               ReportedIds(trace[i].result) # ReportedIds(trace[j].result)
    BY DEF TrueVariance, Dimensions, Range
  <2> QED
    BY <1>3, <2>1, <2>2
<1>7. Varies("presentation") <=> "presentation" \in TrueVariance
  <2>1. Varies("presentation") <=>
           \E a, b \in IdOrders :
               Presentation(observations[a]) # Presentation(observations[b])
    BY <1>1, NeighboursShowEveryDifference DEF Varies
  <2>2. "presentation" \in TrueVariance <=>
           \E i, j \in DOMAIN trace :
               Presentation(trace[i].result) # Presentation(trace[j].result)
    BY DEF TrueVariance, Dimensions, Range
  <2> QED
    BY <1>3, <2>1, <2>2
<1>8. /\ Range(Dimensions) = {"outcome", "reason_evidence", "participation", "presentation"}
      /\ TrueVariance \subseteq Range(Dimensions)
  <2>1. /\ DOMAIN Dimensions = {1, 2, 3, 4} /\ Dimensions[1] = "outcome"
        /\ Dimensions[2] = "reason_evidence" /\ Dimensions[3] = "participation"
        /\ Dimensions[4] = "presentation"
    BY DEF Dimensions
  <2> QED
    BY <2>1 DEF Range, TrueVariance
<1> QED
  BY <1>4, <1>5, <1>6, <1>7, <1>8

-----------------------------------------------------------------------------
(* Inconclusive exactly when the last order's repeats disagree.            *)

Agree(order) == \A i, j \in RunsOf(order) : trace[i].result = trace[j].result

Attempted == {trace[i].order : i \in DOMAIN trace}

LastRun == trace[Len(trace)]

\* The orders that were completed are told apart from the one in progress.
LEMMA CompletedOrdersAgree ==
    ASSUME IInv, Exact, pc \in {"compare", "classify"}
    PROVE  /\ \A order \in DOMAIN observations : order \in Attempted /\ Agree(order)
           /\ \A order \in Attempted :
                 order \in DOMAIN observations \/ (order = CurrentOrder /\ pc = "compare")
           /\ pc = "compare" => /\ CurrentOrder \in Attempted
                                /\ CurrentOrder \notin DOMAIN observations
                                /\ LastRun.order = CurrentOrder
           /\ pc = "classify" => LastRun.order \in Attempted
<1>1. /\ trace \in Seq([order : IdOrders, result : Result]) /\ repeats \in Seq(Result)
      /\ DOMAIN trace = 1..Len(trace) /\ Len(trace) \in Nat
      /\ DOMAIN repeats = 1..Len(repeats) /\ Len(repeats) \in Nat
      /\ DOMAIN observations \subseteq IdOrders
      /\ ORDER_REPEATS \in Nat \ {0}
  BY BoundsAssumption DEF IInv, TypeOK
<1>2. ASSUME NEW i \in DOMAIN trace
      PROVE  \/ /\ trace[i].order \in DOMAIN observations
                /\ trace[i].result = observations[trace[i].order]
             \/ trace[i].order = CurrentOrder /\ DOMAIN repeats # {}
  BY DEF IInv, TraceIsKept, Working
<1>3. pc = "classify" => DOMAIN repeats = {} /\ DOMAIN observations = IdOrders
  BY DEF IInv, LoopPosition
<1>4. ASSUME pc = "compare"
      PROVE  /\ CurrentOrder \notin DOMAIN observations
             /\ Len(trace) \in DOMAIN trace
             /\ LastRun.order = CurrentOrder
  <2>1. CurrentOrder \notin DOMAIN observations
    BY <1>4, CurrentOrderIsLeft DEF IInv, LoopPosition
  <2>2. Len(repeats) = ORDER_REPEATS /\ Len(repeats) <= Len(trace)
    BY <1>4 DEF IInv, LoopPosition, Exact, TraceEndsInRepeats, Working
  <2>3. Len(repeats) \in 1..Len(repeats) /\ Len(trace) \in DOMAIN trace
    BY <1>1, <2>2
  <2>4. trace[Len(trace) - Len(repeats) + Len(repeats)]
          = [order |-> CurrentOrder, result |-> repeats[Len(repeats)]]
    BY <1>4, <2>3 DEF Exact, TraceEndsInRepeats, Working
  <2>5. Len(trace) - Len(repeats) + Len(repeats) = Len(trace)
    BY <1>1
  <2> QED
    BY <2>1, <2>3, <2>4, <2>5 DEF LastRun
<1>5. ASSUME NEW order \in DOMAIN observations PROVE order \in Attempted /\ Agree(order)
  <2>1. IsFiniteSet(RunsOf(order)) /\ Cardinality(RunsOf(order)) = ORDER_REPEATS
    BY <1>1 DEF IInv, RunsAreCounted, RunsDue, Working
  <2>2. RunsOf(order) # {}
    BY <1>1, <2>1, FS_EmptySet
  <2>3. ASSUME NEW i \in RunsOf(order) PROVE trace[i].result = observations[order]
    <3>1. i \in DOMAIN trace /\ trace[i].order = order
      BY DEF RunsOf
    <3> QED
      BY <1>2, <1>3, <1>4, <3>1
  <2> QED
    BY <2>2, <2>3 DEF Attempted, Agree, RunsOf
<1>6. \A order \in Attempted :
         order \in DOMAIN observations \/ (order = CurrentOrder /\ pc = "compare")
  BY <1>2, <1>3 DEF Attempted
<1>7. pc = "compare" => CurrentOrder \in Attempted
  BY <1>4 DEF Attempted, LastRun
<1>8. pc = "classify" => LastRun.order \in Attempted
  <2> SUFFICES ASSUME pc = "classify" PROVE LastRun.order \in Attempted
    OBVIOUS
  <2>1. request.policy \in DOMAIN observations
    BY <1>3, RequestFacts DEF IInv
  <2>2. DOMAIN trace # {}
    BY <1>5, <2>1 DEF Attempted
  <2>3. Len(trace) \in DOMAIN trace
    BY <1>1, <2>2
  <2> QED
    BY <2>3 DEF Attempted, LastRun
<1> QED
  BY <1>4, <1>5, <1>6, <1>7, <1>8

\* The first repeat that differs from the first one.
LEMMA DifferingRepeatDiffers ==
    ASSUME TypeOK, RepeatsDiffer
    PROVE  /\ DifferingRepeat \in 2..Len(repeats)
           /\ repeats[DifferingRepeat] # repeats[1]
<1> DEFINE S == {i \in 2..Len(repeats) : repeats[i] # repeats[1]}
<1>1. S # {} /\ S \in SUBSET Nat
  BY DEF RepeatsDiffer, TypeOK
<1>2. PICK m \in S : \A k \in S : m <= k
  <2> HIDE DEF S
  <2> QED
    BY <1>1, LeastNatural
<1>3. \A j \in 2..(m - 1) : repeats[j] = repeats[1]
  <2> SUFFICES ASSUME NEW j \in 2..(m - 1), repeats[j] # repeats[1] PROVE FALSE
    OBVIOUS
  <2>1. Len(repeats) \in Nat /\ m \in 2..Len(repeats)
    BY <1>2 DEF TypeOK
  <2>2. j \in 2..Len(repeats) /\ ~ (m <= j)
    BY <2>1
  <2> QED
    BY <1>2, <2>2
<1> QED
  BY <1>2, <1>3 DEF DifferingRepeat

\* What the property says, of a report still to be given.
IsExactAbout(candidate) ==
    /\ candidate.mode = "incomplete" <=> ~Agree(LastRun.order)
    /\ \A order \in Attempted \ {LastRun.order} : Agree(order)
    /\ candidate.orders_attempted = Cardinality(Attempted)
    /\ candidate.orders_completed = Cardinality({order \in Attempted : Agree(order)})
    /\ candidate.mode = "incomplete" =>
         LET Repeat(k) == trace[Len(trace) - ORDER_REPEATS + k]
             witness == candidate.witnesses[1]
         IN /\ witness.order = LastRun.order
            /\ \A k \in 1..ORDER_REPEATS : Repeat(k).order = LastRun.order
            /\ {witness.left_repeat, witness.right_repeat} \subseteq 1..ORDER_REPEATS
            /\ Repeat(witness.left_repeat).result # Repeat(witness.right_repeat).result

\* An inconclusive report is about the order in progress.
LEMMA InconclusiveReportIsExact ==
    ASSUME IInv, Exact, pc = "compare", RepeatsDiffer
    PROVE  IsExactAbout(NondeterministicReport)
<1> DEFINE candidate == NondeterministicReport
           Repeat(k) == trace[Len(trace) - ORDER_REPEATS + k]
<1>1. /\ candidate.mode = "incomplete"
      /\ candidate.orders_attempted = Cardinality(DOMAIN observations) + 1
      /\ candidate.orders_completed = Cardinality(DOMAIN observations)
      /\ candidate.witnesses[1].order = CurrentOrder
      /\ candidate.witnesses[1].left_repeat = 1
      /\ candidate.witnesses[1].right_repeat = DifferingRepeat
  BY DEF NondeterministicReport
<1>2. /\ Len(repeats) = ORDER_REPEATS /\ ORDER_REPEATS \in Nat /\ Len(trace) \in Nat
      /\ Len(repeats) <= Len(trace) /\ DOMAIN trace = 1..Len(trace)
      /\ IsFiniteSet(DOMAIN observations)
  BY BoundsAssumption DEF IInv, TypeOK, LoopPosition, Exact, TraceEndsInRepeats, Working
<1>3. \A k \in 1..ORDER_REPEATS :
         /\ Repeat(k).order = CurrentOrder /\ Repeat(k).result = repeats[k]
         /\ Len(trace) - ORDER_REPEATS + k \in DOMAIN trace
  <2>1. \A k \in 1..ORDER_REPEATS :
           Repeat(k) = [order |-> CurrentOrder, result |-> repeats[k]]
    BY <1>2 DEF Exact, TraceEndsInRepeats, Working
  <2>2. \A k \in 1..ORDER_REPEATS : Len(trace) - ORDER_REPEATS + k \in DOMAIN trace
    BY <1>2
  <2> HIDE DEF Repeat
  <2>3. \A k \in 1..ORDER_REPEATS :
           Repeat(k).order = CurrentOrder /\ Repeat(k).result = repeats[k]
    BY <2>1
  <2> QED
    BY <2>2, <2>3 DEF Repeat
<1>4. DifferingRepeat \in 1..ORDER_REPEATS /\ 1 \in 1..ORDER_REPEATS
  BY <1>2, DifferingRepeatDiffers DEF IInv
<1>5. repeats[DifferingRepeat] # repeats[1]
  BY DifferingRepeatDiffers DEF IInv
<1>6. ~Agree(CurrentOrder)
  <2> DEFINE first == Len(trace) - ORDER_REPEATS + 1
             differing == Len(trace) - ORDER_REPEATS + DifferingRepeat
  <2>1. first \in RunsOf(CurrentOrder) /\ differing \in RunsOf(CurrentOrder)
    BY <1>3, <1>4 DEF RunsOf
  <2>2. trace[first].result # trace[differing].result
    BY <1>3, <1>4, <1>5
  <2> HIDE DEF first, differing
  <2> QED
    BY <2>1, <2>2 DEF Agree
<1>7. /\ LastRun.order = CurrentOrder /\ CurrentOrder \notin DOMAIN observations
      /\ Attempted = DOMAIN observations \cup {CurrentOrder}
      /\ \A order \in DOMAIN observations : Agree(order)
  BY CompletedOrdersAgree
<1>8. {order \in Attempted : Agree(order)} = DOMAIN observations
  BY <1>6, <1>7
<1>9. Cardinality(Attempted) = Cardinality(DOMAIN observations) + 1
  BY <1>2, <1>7, FS_AddElement
<1>10. Repeat(1).result # Repeat(DifferingRepeat).result
  BY <1>3, <1>4, <1>5
<1>11. \A order \in Attempted \ {LastRun.order} : Agree(order)
  BY <1>7
<1>12. \A k \in 1..ORDER_REPEATS : Repeat(k).order = LastRun.order
  BY <1>3, <1>7
<1> HIDE DEF candidate
<1>13. IsExactAbout(candidate)
  BY <1>1, <1>4, <1>6, <1>7, <1>8, <1>9, <1>10, <1>11, <1>12 DEF IsExactAbout
<1> QED
  BY <1>13 DEF candidate

\* A conclusive report is about every order.
LEMMA ConclusiveReportIsExact ==
    ASSUME IInv, Exact, pc = "classify"
    PROVE  IsExactAbout(ExhaustiveReport)
<1> DEFINE candidate == ExhaustiveReport
<1>1. /\ candidate.mode = "exhaustive"
      /\ candidate.orders_attempted = Cardinality(DOMAIN observations)
      /\ candidate.orders_completed = Cardinality(DOMAIN observations)
  BY DEF ExhaustiveReport
<1>2. /\ Attempted = DOMAIN observations /\ LastRun.order \in Attempted
      /\ \A order \in Attempted : Agree(order)
  BY CompletedOrdersAgree
<1>3. {order \in Attempted : Agree(order)} = DOMAIN observations
  BY <1>2
<1> HIDE DEF candidate
<1>4. IsExactAbout(candidate)
  BY <1>1, <1>2, <1>3 DEF IsExactAbout
<1> QED
  BY <1>4 DEF candidate

-----------------------------------------------------------------------------
(* Each action keeps the reports exact.                                    *)

\* A report is returned as it was classified, or it is too large.
LEMMA ReturnKeepsExact ==
    ASSUME IInv, Exact, pc \in {"compare", "classify"}, NEW candidate, Return(candidate),
           candidate.conforms_within_coverage \in {"true", "false", "none"},
           IsExactAbout(candidate),
           candidate.mode = "exhaustive" => candidate.variance = TrueVariance
    PROVE  Exact'
<1>1. CASE Raise("ORDER_CHECK_TOO_LARGE")
  BY <1>1, RaiseKeepsExact
<1>2. CASE /\ pc' = "reported" /\ report' = candidate
           /\ UNCHANGED <<request, repeats, observations, error>>
  <2>1. trace' = trace
    BY DEF Return
  <2>2. AggregatesAreConsistent' /\ TraceEndsInRepeats'
    BY <1>2 DEF Exact, AggregatesAreConsistent, PassedIsConsistent, ReportedIds,
                TraceEndsInRepeats, Working
  <2>3. VerdictIsGiven'
    BY <1>2 DEF VerdictIsGiven
  <2>4. InconclusiveIsExact'
    BY <1>2, <2>1
    DEF InconclusiveIsExact, IsExactAbout, Agree, Attempted, LastRun, RunsOf
  <2>5. VarianceIsExact'
    <3>1. TrueVariance' = TrueVariance
      BY <1>2, <2>1 DEF TrueVariance, ValuesOf, ReportedIds, RowOf, Presentation
    <3> QED
      BY <1>2, <3>1 DEF VarianceIsExact, Conclusive
  <2> QED
    BY <2>2, <2>3, <2>4, <2>5 DEF Exact, ReportsAreExact
<1> QED
  BY <1>1, <1>2 DEF Return

\* The repeats of an order differ.
LEMMA CompareDifferingKeepsExact == ASSUME IInv, Exact, CompareDiffering PROVE Exact'
<1> DEFINE candidate == NondeterministicReport
<1>1. candidate.mode = "incomplete" /\ candidate.conforms_within_coverage = "none"
  BY DEF NondeterministicReport
<1>2. Return(candidate) /\ pc = "compare" /\ IsExactAbout(candidate)
  BY InconclusiveReportIsExact DEF CompareDiffering
<1> HIDE DEF candidate
<1> QED
  BY <1>1, <1>2, ReturnKeepsExact

\* Every order is done.
LEMMA ClassifyKeepsExact == ASSUME IInv, Exact, Classify PROVE Exact'
<1> DEFINE candidate == ExhaustiveReport
<1>1. /\ candidate.mode = "exhaustive"
      /\ candidate.variance = {dimension \in Range(Dimensions) : Varies(dimension)}
      /\ candidate.conforms_within_coverage = IF SemanticDrift THEN "false" ELSE "true"
  BY DEF ExhaustiveReport
<1>2. Return(candidate) /\ pc = "classify" /\ IsExactAbout(candidate)
  BY ConclusiveReportIsExact DEF Classify
<1>3. candidate.variance = TrueVariance
  <2> HIDE DEF candidate
  <2> QED
    BY <1>1, <1>2, VarianceIsFound
<1>4. candidate.conforms_within_coverage \in {"true", "false", "none"}
  <2> HIDE DEF candidate
  <2> QED
    BY <1>1
<1> HIDE DEF candidate
<1> QED
  BY <1>1, <1>2, <1>3, <1>4, ReturnKeepsExact

\* The order in progress is completed.
LEMMA CompleteOrderKeepsExact == ASSUME IInv, Exact, CompleteOrder PROVE Exact'
<1>1. /\ pc = "compare" /\ pc' \in {"classify", "evaluate"}
      /\ observations' = WithCompleted(CurrentOrder, repeats[1])
      /\ repeats' = << >> /\ request' = request /\ trace' = trace
  BY DEF CompleteOrder
<1>2. 1 \in DOMAIN repeats
  BY <1>1, BoundsAssumption DEF IInv, TypeOK, LoopPosition
<1>3. AggregatesAreConsistent'
  <2>1. \A order \in DOMAIN observations' :
           PassedIsConsistent(observations'[order], request.policy)
    BY <1>1, <1>2 DEF WithCompleted, Exact, AggregatesAreConsistent
  <2>2. DOMAIN repeats' = {}
    BY <1>1
  <2> QED
    BY <1>1, <2>1, <2>2 DEF AggregatesAreConsistent, PassedIsConsistent, ReportedIds
<1>4. TraceEndsInRepeats'
  <2>1. Len(repeats') = 0 /\ Len(trace) \in Nat
    BY <1>1 DEF IInv, TypeOK
  <2> QED
    BY <1>1, <2>1 DEF TraceEndsInRepeats
<1>5. ReportsAreExact'
  BY <1>1, NothingReported
<1> QED
  BY <1>3, <1>4, <1>5 DEF Exact

\* Every step keeps the reports exact.
LEMMA NextExact == IInv /\ Exact /\ [Next]_vars => Exact'
<1> SUFFICES ASSUME IInv, Exact, [Next]_vars PROVE Exact'
  OBVIOUS
<1>1. CASE Enter
  <2>1. /\ pc = "enter" /\ pc' = "evaluate" /\ request' = request /\ repeats' = repeats
        /\ observations' = observations /\ trace' = trace
    BY <1>1 DEF Enter
  <2>2. AggregatesAreConsistent'
    BY <2>1 DEF Exact, AggregatesAreConsistent, PassedIsConsistent, ReportedIds
  <2>3. TraceEndsInRepeats'
    BY <2>1 DEF Exact, TraceEndsInRepeats, Working, CurrentOrder, IdOrders
  <2> QED
    BY <2>1, <2>2, <2>3, NothingReported DEF Exact
<1>2. CASE Refuse
  BY <1>2, RaiseKeepsExact DEF Refuse
<1>3. CASE RunBuiltin
  <2>1. CurrentOrder \in IdOrders /\ pc = "evaluate"
    BY <1>3, CurrentOrderIsLeft DEF IInv, LoopPosition, RunBuiltin
  <2>2. /\ BuiltinResult(CurrentOrder) \in Result
        /\ PassedIsConsistent(BuiltinResult(CurrentOrder), request.policy)
    BY <2>1, BuiltinResultIsAccepted, BuiltinResultIsConsistent DEF IInv
  <2> QED
    BY <1>3, <2>1, <2>2, AccountKeepsExact, RaiseKeepsExact
    DEF RunBuiltin, RaiseBeforeAccounting
<1>4. CASE CompareDiffering
  BY <1>4, CompareDifferingKeepsExact
<1>5. CASE CompleteOrder
  BY <1>5, CompleteOrderKeepsExact
<1>6. CASE Classify
  BY <1>6, ClassifyKeepsExact
<1>7. ASSUME NEW result \in Returns, RunEvaluator(result) PROVE Exact'
  <2> DEFINE fault == EvaluatorFault(result, request.policy)
  <2>1. result \in Result /\ pc = "evaluate"
    BY <1>7, ReturnsAssumption DEF RunEvaluator
  <2>2. CASE fault # NoError
    BY <1>7, <2>2, RaiseKeepsExact DEF RunEvaluator, RaiseBeforeAccounting
  <2>3. CASE fault = NoError
    <3>1. result.raised \in {"nothing", "testbench_error", "exception"}
      BY <2>1 DEF Result
    <3>2. PassedIsConsistent(result, request.policy)
      BY <2>3, <3>1 DEF EvaluatorFault, NoError, ContractHolds
    <3> QED
      BY <1>7, <2>1, <2>3, <3>2, AccountKeepsExact DEF RunEvaluator
  <2> QED
    BY <2>2, <2>3
<1>8. CASE UNCHANGED vars
  <2>1. /\ pc' = pc /\ request' = request /\ repeats' = repeats /\ report' = report
        /\ observations' = observations /\ trace' = trace
    BY <1>8 DEF vars
  <2>2. AggregatesAreConsistent' /\ TraceEndsInRepeats' /\ VerdictIsGiven'
    BY <2>1 DEF Exact, AggregatesAreConsistent, PassedIsConsistent, ReportedIds,
                TraceEndsInRepeats, Working, CurrentOrder, IdOrders,
                ReportsAreExact, VerdictIsGiven
  <2>3. InconclusiveIsExact'
    BY <2>1 DEF Exact, ReportsAreExact, InconclusiveIsExact
  <2>4. VarianceIsExact'
    <3>1. TrueVariance' = TrueVariance
      BY <2>1 DEF TrueVariance, ValuesOf, ReportedIds, RowOf, Presentation
    <3> QED
      BY <2>1, <3>1 DEF Exact, ReportsAreExact, VarianceIsExact, Conclusive
  <2> QED
    BY <2>2, <2>3, <2>4 DEF Exact, ReportsAreExact
<1> QED
  BY <1>1, <1>2, <1>3, <1>4, <1>5, <1>6, <1>7, <1>8 DEF Next, Internal, Terminating

\* The strengthened invariant holds throughout.
LEMMA ExactThroughout == Spec => [](IInv /\ Exact)
<1>1. Init => IInv /\ Exact
  BY InitIInv, InitExact
<1>2. (IInv /\ Exact) /\ [Next]_vars => (IInv /\ Exact)'
  BY NextIInv, NextExact
<1> QED
  BY <1>1, <1>2, PTL DEF Spec

\* INCONCLUSIVE is the report exactly when the repeats of the last attempted
\* order disagree, for every number of rules and repeats and every evaluator.
THEOREM InconclusiveMeansInconclusive == Spec => []InconclusiveIsExact
<1>1. IInv /\ Exact => InconclusiveIsExact
  BY DEF Exact, ReportsAreExact
<1> QED
  BY <1>1, ExactThroughout, PTL

\* The variance that a conclusive report names is the variance between any two
\* evaluations: comparing neighbours only, and scanning against the order first
\* seen only, misses nothing, however many rules there are.
THEOREM NoVarianceIsMissed == Spec => []VarianceIsExact
<1>1. IInv /\ Exact => VarianceIsExact
  BY DEF Exact, ReportsAreExact
<1> QED
  BY <1>1, ExactThroughout, PTL

-----------------------------------------------------------------------------
(* The check keeps the promise of OrderConformance.                        *)

\* Results that mean the same report the same rules, with the same rows.
LEMMA SameMeaningSameRows ==
    ASSUME NEW left, NEW right, RowsAreDistinct(left), RowsAreDistinct(right),
           Meaning(left) = Meaning(right)
    PROVE  /\ ReportedIds(left) \subseteq ReportedIds(right)
           /\ \A row \in Range(left.rows) :
                 \E other \in Range(right.rows) :
                     /\ other.rule_id = row.rule_id /\ other.passed = row.passed
                     /\ other.reason_code = row.reason_code
           /\ \A id \in ReportedIds(left) :
                 /\ RowOf(left, id).passed = RowOf(right, id).passed
                 /\ RowOf(left, id).reason_code = RowOf(right, id).reason_code
<1>1. ASSUME NEW row \in Range(left.rows)
      PROVE  \E other \in Range(right.rows) :
                 /\ other.rule_id = row.rule_id /\ other.passed = row.passed
                 /\ other.reason_code = row.reason_code
  <2> DEFINE said == [rule_id |-> row.rule_id, passed |-> row.passed,
                      reason_code |-> row.reason_code]
  <2>1. said \in Meaning(right)
    BY DEF Meaning
  <2>2. PICK other \in Range(right.rows) :
            said = [rule_id |-> other.rule_id, passed |-> other.passed,
                    reason_code |-> other.reason_code]
    BY <2>1 DEF Meaning
  <2>3. /\ said.rule_id = other.rule_id /\ said.passed = other.passed
        /\ said.reason_code = other.reason_code
    BY <2>2
  <2> QED
    BY <2>3
<1>2. ReportedIds(left) \subseteq ReportedIds(right)
  BY <1>1 DEF ReportedIds
<1>3. ASSUME NEW id \in ReportedIds(left)
      PROVE  /\ RowOf(left, id).passed = RowOf(right, id).passed
             /\ RowOf(left, id).reason_code = RowOf(right, id).reason_code
  <2>1. PICK row \in Range(left.rows) : row.rule_id = id
    BY DEF ReportedIds
  <2>2. PICK other \in Range(right.rows) :
            /\ other.rule_id = row.rule_id /\ other.passed = row.passed
            /\ other.reason_code = row.reason_code
    BY <1>1
  <2>3. RowOf(left, id) = row /\ RowOf(right, id) = other
    BY <2>1, <2>2, RowIsUnique
  <2> QED
    BY <2>2, <2>3
<1> QED
  BY <1>1, <1>2, <1>3

\* The aggregate of results that mean the same is the same: it follows from
\* the rows.
LEMMA SameMeaningSameAggregate ==
    ASSUME NEW left \in Result, NEW right \in Result, NEW policy,
           RowsAreDistinct(left), RowsAreDistinct(right), Meaning(left) = Meaning(right),
           PassedIsConsistent(left, policy), PassedIsConsistent(right, policy)
    PROVE  left.passed = right.passed
<1> DEFINE AllPass(result) == \A row \in Range(result.rows) : row.passed
           Complete(result) == ReportedIds(result) = RuleIds(policy)
<1>1. AllPass(left) <=> AllPass(right)
  <2>1. ASSUME NEW row \in Range(left.rows), AllPass(right) PROVE row.passed
    <3>1. PICK other \in Range(right.rows) : other.passed = row.passed
      BY SameMeaningSameRows
    <3>2. other.passed
      BY <2>1, Zenon
    <3> QED
      BY <3>1, <3>2, Zenon
  <2>2. ASSUME NEW row \in Range(right.rows), AllPass(left) PROVE row.passed
    <3>1. PICK other \in Range(left.rows) : other.passed = row.passed
      BY SameMeaningSameRows
    <3>2. other.passed
      BY <2>2, Zenon
    <3> QED
      BY <3>1, <3>2, Zenon
  <2> QED
    BY <2>1, <2>2, Zenon
<1>2. Complete(left) <=> Complete(right)
  <2>1. /\ ReportedIds(left) \subseteq ReportedIds(right)
        /\ ReportedIds(right) \subseteq ReportedIds(left)
    BY SameMeaningSameRows
  <2> QED
    BY <2>1
<1>3. left.passed = (Complete(left) /\ AllPass(left))
  BY Zenon DEF PassedIsConsistent
<1>4. right.passed = (Complete(right) /\ AllPass(right))
  BY Zenon DEF PassedIsConsistent
<1> HIDE DEF AllPass, Complete
<1>5. left.passed <=> right.passed
  BY <1>1, <1>2, <1>3, <1>4, Zenon
<1>6. left.passed \in BOOLEAN /\ right.passed \in BOOLEAN
  BY DEF Result
<1> QED
  BY <1>5, <1>6

\* The rules that an answer has rows for are those that its result reports.
LEMMA MeaningCovers ==
    ASSUME NEW result
    PROVE  {row.rule_id : row \in Meaning(result)} = ReportedIds(result)
<1>1. ASSUME NEW id \in ReportedIds(result)
      PROVE  \E row \in Meaning(result) : row.rule_id = id
  <2>1. PICK row \in Range(result.rows) : row.rule_id = id
    BY DEF ReportedIds
  <2> DEFINE said == [rule_id |-> row.rule_id, passed |-> row.passed,
                      reason_code |-> row.reason_code]
  <2>2. said \in Meaning(result) /\ said.rule_id = id
    BY <2>1 DEF Meaning
  <2> QED
    BY <2>2
<1>2. ASSUME NEW row \in Meaning(result) PROVE row.rule_id \in ReportedIds(result)
  BY DEF Meaning, ReportedIds
<1> QED
  BY <1>1, <1>2

\* The abstract answers, and what the instance of RuleOrders means there.
Answers == [order \in DOMAIN observations |-> Meaning(observations[order])]

\* The promise speaks of the same rules and the same orders.
LEMMA PromiseOrders ==
    /\ \A policy : Promise!RuleIds(policy) = RuleIds(policy)
    /\ Promise!Orders(request.policy) = IdOrders
<1>1. \A f : Promise!Range(f) = Range(f)
  BY DEF Promise!Range, Range
<1>2. \A policy : Promise!RuleIds(policy) = RuleIds(policy)
  BY <1>1 DEF Promise!RuleIds, RuleIds
<1>3. \A f : Promise!IsInjective(f) <=> IsInjective(f)
  BY DEF Promise!IsInjective, IsInjective
<1> QED
  BY <1>2, <1>3 DEF Promise!Orders, Orders, IdOrders

\* The code's drift is the promise's disagreement.
LEMMA DriftIsDisagreement ==
    ASSUME IInv, Exact, pc = "classify"
    PROVE  SemanticDrift <=> ~Promise!SameMeaningEverywhere
<1>1. /\ DOMAIN observations = IdOrders /\ TypeOK /\ ResultsAccepted
      /\ AggregatesAreConsistent
  BY EvaluationsAreTheOrders DEF IInv, Exact
<1>2. Promise!SameMeaningEverywhere <=>
        /\ \A a \in IdOrders : ReportedIds(observations[a]) = RuleIds(request.policy)
        /\ \A a, b \in IdOrders : Meaning(observations[a]) = Meaning(observations[b])
  BY <1>1, MeaningCovers, PromiseOrders DEF Promise!SameMeaningEverywhere, Promise!Covers
<1>3. ~SemanticDrift => Promise!SameMeaningEverywhere
  BY <1>1, <1>2, NoDriftSameMeaning
<1>4. ASSUME Promise!SameMeaningEverywhere PROVE ~SemanticDrift
  <2>1. \A a \in IdOrders : /\ RowsAreDistinct(observations[a])
                            /\ observations[a] \in Result
                            /\ PassedIsConsistent(observations[a], request.policy)
    BY <1>1 DEF TypeOK, ResultsAccepted, Accepted, AggregatesAreConsistent
  <2>2. IncompleteOrders = {}
    <3>1. \A a \in IdOrders : Range(a) = RuleIds(request.policy)
      <4>1. \A a \in IdOrders : Range(a) \subseteq RuleIds(request.policy)
        BY DEF IdOrders, Orders, Range
      <4>2. \A a \in IdOrders : RuleIds(request.policy) \subseteq Range(a)
        BY <1>1, InjectiveOrderIsOnto DEF IdOrders
      <4> QED
        BY <4>1, <4>2
    <3> QED
      BY <1>1, <1>2, <1>4, <3>1 DEF IncompleteOrders, ParticipationComplete
  <2>3. PassHits = {}
    <3>1. \A a, b \in IdOrders : \A id \in ReportedIds(observations[a]) :
             RowOf(observations[a], id).passed = RowOf(observations[b], id).passed
      BY <1>2, <1>4, <2>1, SameMeaningSameRows
    <3> QED
      BY <1>1, <3>1, ScanFindsEveryDifference
  <2>4. ReasonHits = {}
    <3>1. \A a, b \in IdOrders : \A id \in ReportedIds(observations[a]) :
             RowOf(observations[a], id).reason_code = RowOf(observations[b], id).reason_code
      BY <1>2, <1>4, <2>1, SameMeaningSameRows
    <3> QED
      BY <1>1, <3>1, ScanFindsEveryDifference
  <2>5. AggregateHits = {}
    <3>1. \A a, b \in IdOrders : observations[a].passed = observations[b].passed
      BY <1>2, <1>4, <2>1, SameMeaningSameAggregate
    <3> QED
      BY <1>1, <3>1, ScanFindsEveryDifference
  <2>6. AdjacentHits("participation") = {}
    BY <1>1, <1>2, <1>4, NeighboursShowEveryDifference
  <2>7. ~Varies("outcome") /\ ~Varies("reason_evidence") /\ ~Varies("participation")
    BY <2>3, <2>4, <2>5, <2>6 DEF Varies, GloballyVaries
  <2> QED
    BY <2>2, <2>7 DEF SemanticDrift, SemanticDimensions
<1> QED
  BY <1>3, <1>4

\* The verdict that the promise reads from the state of the code.
VerdictShown ==
    CASE pc = "raised" -> "refused"
      [] pc = "reported" /\ report.conforms_within_coverage = "true"  -> "conforms"
      [] pc = "reported" /\ report.conforms_within_coverage = "false" -> "drifts"
      [] pc = "reported" /\ report.conforms_within_coverage = "none"  -> "inconclusive"
      [] OTHER -> "pending"

\* Nothing is promised before the check ends.
LEMMA PendingWhileWorking == ASSUME Working PROVE VerdictShown = "pending"
BY DEF Working, VerdictShown

\* A step that asks nothing more, and ends nothing, is a stutter.
LEMMA QuietStep ==
    ASSUME Working, Working', request' = request, observations' = observations
    PROVE  UNCHANGED Promise!vars
<1>1. VerdictShown' = VerdictShown
  <2>1. VerdictShown = "pending" /\ VerdictShown' = "pending"
    BY DEF Working, VerdictShown
  <2> QED
    BY <2>1
<1>2. Answers' = Answers /\ request.policy' = request.policy
  BY DEF Answers, Meaning
<1> QED
  BY <1>1, <1>2 DEF Promise!vars, VerdictShown, Answers

\* An exception gives up.
LEMMA RaiseGivesUp ==
    ASSUME Working, NEW code, Raise(code) PROVE Promise!GiveUp
<1>1. VerdictShown = "pending"
  BY PendingWhileWorking
<1>2. VerdictShown' = "refused"
  BY DEF Raise, VerdictShown
<1>3. Answers' = Answers /\ request.policy' = request.policy
  BY DEF Raise, Answers, Meaning
<1> QED
  BY <1>1, <1>2, <1>3 DEF Promise!GiveUp, VerdictShown, Answers

\* One evaluation more is not an answer yet.
LEMMA AccountIsQuiet ==
    ASSUME pc = "evaluate", NEW result, Account(result)
    PROVE  Promise!GiveUp \/ UNCHANGED Promise!vars
<1>1. CASE Raise("ORDER_CHECK_TOO_LARGE")
  BY <1>1, RaiseGivesUp DEF Working
<1>2. CASE /\ repeats' = Append(repeats, result)
           /\ pc' = IF IsLastRepeat THEN "compare" ELSE "evaluate"
           /\ UNCHANGED <<request, observations, report, error>>
  <2>1. Working /\ Working' /\ request' = request /\ observations' = observations
    BY <1>2 DEF Working
  <2> QED
    BY <2>1, QuietStep
<1> QED
  BY <1>1, <1>2 DEF Account

\* A completed order is an answer.
LEMMA CompleteOrderAnswers ==
    ASSUME IInv, CompleteOrder
    PROVE  Promise!Answer(CurrentOrder) /\ CurrentOrder \in IdOrders
<1>1. /\ pc = "compare" /\ pc' \in {"classify", "evaluate"}
      /\ observations' = WithCompleted(CurrentOrder, repeats[1])
      /\ request' = request
  BY DEF CompleteOrder
<1>2. CurrentOrder \in IdOrders /\ CurrentOrder \notin DOMAIN observations
  BY <1>1, CurrentOrderIsLeft DEF IInv, LoopPosition
<1>3. VerdictShown = "pending" /\ VerdictShown' = "pending"
  BY <1>1 DEF VerdictShown
<1>4. repeats[1] \in Result
  BY <1>1, BoundsAssumption DEF IInv, TypeOK, LoopPosition
<1>5. /\ DOMAIN Answers = DOMAIN observations
      /\ DOMAIN Answers' = DOMAIN observations \cup {CurrentOrder}
      /\ Answers'[CurrentOrder] = Meaning(repeats[1])
      /\ \A done \in DOMAIN observations : Answers'[done] = Answers[done]
  BY <1>1, <1>2 DEF Answers, WithCompleted, Meaning
<1>6. Meaning(repeats[1]) \subseteq [rule_id : Nat, passed : BOOLEAN, reason_code : ReasonCodes]
  <2>1. \A row \in Range(repeats[1].rows) : row \in Row
    <3>1. repeats[1].rows \in Seq(Row)
      BY <1>4 DEF Result
    <3> QED
      BY <3>1, ElementOfSequence DEF Range
  <2> QED
    BY <2>1 DEF Meaning, Row
<1>7. request.policy' = request.policy
  BY <1>1
<1> QED
  BY <1>2, <1>3, <1>5, <1>6, <1>7 DEF Promise!Answer, VerdictShown, Answers

\* A report is a conclusion, or says that there is none.
LEMMA ReturnConcludes ==
    ASSUME IInv, Exact, pc \in {"compare", "classify"}, NEW candidate, Return(candidate),
           \/ candidate.conforms_within_coverage = "none"
           \/ /\ pc = "classify"
              /\ candidate.conforms_within_coverage = IF SemanticDrift THEN "false" ELSE "true"
    PROVE  Promise!GiveUp \/ Promise!Conclude
<1>1. CASE Raise("ORDER_CHECK_TOO_LARGE")
  BY <1>1, RaiseGivesUp DEF Working
<1>2. CASE /\ pc' = "reported" /\ report' = candidate
           /\ UNCHANGED <<request, repeats, observations, error>>
  <2>1. VerdictShown = "pending"
    BY DEF VerdictShown
  <2>2. Answers' = Answers /\ request.policy' = request.policy
    BY <1>2 DEF Answers, Meaning
  <2>3. CASE candidate.conforms_within_coverage = "none"
    <3>1. VerdictShown' = "inconclusive"
      BY <1>2, <2>3 DEF VerdictShown
    <3> QED
      BY <2>1, <2>2, <3>1 DEF Promise!GiveUp, VerdictShown, Answers
  <2>4. CASE /\ pc = "classify"
             /\ candidate.conforms_within_coverage = IF SemanticDrift THEN "false" ELSE "true"
    <3>1. VerdictShown' = IF SemanticDrift THEN "drifts" ELSE "conforms"
      BY <1>2, <2>4 DEF VerdictShown
    <3>2. SemanticDrift <=> ~Promise!SameMeaningEverywhere
      BY <2>4, DriftIsDisagreement
    <3>3. VerdictShown' = IF Promise!SameMeaningEverywhere THEN "conforms" ELSE "drifts"
      BY <3>1, <3>2
    <3>4. DOMAIN Answers = Promise!Orders(request.policy)
      BY <2>4, PromiseOrders DEF IInv, LoopPosition, Answers
    <3> QED
      BY <2>1, <2>2, <3>3, <3>4 DEF Promise!Conclude, VerdictShown, Answers
  <2> QED
    BY <2>3, <2>4
<1> QED
  BY <1>1, <1>2 DEF Return

\* The check, whatever its evaluator does and however many rules there are,
\* keeps the promise: it concludes only when every order has been answered,
\* "conforms" exactly when all answers are complete and the same.
THEOREM CheckKeepsItsPromise == Spec => ImplementsPromise
<1>1. Init => Promise!Init
  <2> SUFFICES ASSUME Init PROVE Promise!Init
    OBVIOUS
  <2>1. request \in Requests /\ observations = << >> /\ VerdictShown = "pending"
    BY DEF Init, VerdictShown
  <2>2. Answers = << >>
    BY <2>1 DEF Answers
  <2> QED
    BY <2>1, <2>2 DEF Promise!Init, VerdictShown, Answers
<1>2. (IInv /\ Exact) /\ [Next]_vars => [Promise!Next]_(Promise!vars)
  <2> SUFFICES ASSUME IInv, Exact, [Next]_vars PROVE [Promise!Next]_(Promise!vars)
    OBVIOUS
  <2>1. CASE Enter
    <3>1. Working /\ Working' /\ request' = request /\ observations' = observations
      BY <2>1 DEF Enter, Working
    <3> QED
      BY <3>1, QuietStep
  <2>2. CASE Refuse
    <3>1. Promise!GiveUp
      BY <2>2, RaiseGivesUp DEF Refuse, Working
    <3> QED
      BY <3>1 DEF Promise!Next
  <2>3. CASE RunBuiltin
    <3>1. Promise!GiveUp \/ UNCHANGED Promise!vars
      BY <2>3, AccountIsQuiet, RaiseGivesUp DEF RunBuiltin, RaiseBeforeAccounting, Working
    <3> QED
      BY <3>1 DEF Promise!Next
  <2>4. CASE CompareDiffering
    <3> DEFINE candidate == NondeterministicReport
    <3>1. candidate.conforms_within_coverage = "none"
      BY DEF NondeterministicReport
    <3>2. Return(candidate) /\ pc = "compare"
      BY <2>4 DEF CompareDiffering
    <3> HIDE DEF candidate
    <3>3. Promise!GiveUp \/ Promise!Conclude
      BY <3>1, <3>2, ReturnConcludes
    <3> QED
      BY <3>3 DEF Promise!Next
  <2>5. CASE CompleteOrder
    <3>1. Promise!Answer(CurrentOrder) /\ CurrentOrder \in Promise!Orders(request.policy)
      BY <2>5, CompleteOrderAnswers, PromiseOrders
    <3> QED
      BY <3>1 DEF Promise!Next
  <2>6. CASE Classify
    <3> DEFINE candidate == ExhaustiveReport
    <3>1. candidate.conforms_within_coverage = IF SemanticDrift THEN "false" ELSE "true"
      BY DEF ExhaustiveReport
    <3>2. Return(candidate) /\ pc = "classify"
      BY <2>6 DEF Classify
    <3> HIDE DEF candidate
    <3>3. Promise!GiveUp \/ Promise!Conclude
      BY <3>1, <3>2, ReturnConcludes
    <3> QED
      BY <3>3 DEF Promise!Next
  <2>7. ASSUME NEW result \in Returns, RunEvaluator(result)
        PROVE  Promise!GiveUp \/ UNCHANGED Promise!vars
    BY <2>7, AccountIsQuiet, RaiseGivesUp DEF RunEvaluator, RaiseBeforeAccounting, Working
  <2>8. CASE UNCHANGED vars
    <3>1. /\ pc' = pc /\ request' = request /\ report' = report
          /\ observations' = observations
      BY <2>8 DEF vars
    <3>2. VerdictShown' = VerdictShown /\ Answers' = Answers
      BY <3>1 DEF VerdictShown, Answers, Meaning
    <3> QED
      BY <3>1, <3>2 DEF Promise!vars, VerdictShown, Answers
  <2>9. ASSUME NEW result \in Returns, RunEvaluator(result)
        PROVE  [Promise!Next]_(Promise!vars)
    BY <2>7, <2>9 DEF Promise!Next
  <2> QED
    BY <2>1, <2>2, <2>3, <2>4, <2>5, <2>6, <2>8, <2>9 DEF Next, Internal, Terminating
<1> QED
  BY <1>1, <1>2, ExactThroughout, PTL DEF Spec, ImplementsPromise, Promise!Spec

-----------------------------------------------------------------------------
(* The path that an endpoint witness shows is a shortest one.              *)

\* Functions are equal if their values are.
LEMMA SameValuesSameFunction ==
    ASSUME NEW S, NEW T, NEW f \in [S -> T], NEW g \in [S -> T], \A x \in S : f[x] = g[x]
    PROVE  f = g
OBVIOUS

\* A function on an initial interval is a sequence.
LEMMA FunctionIsSequence ==
    ASSUME NEW S, NEW n \in Nat, NEW f \in [1..n -> S]
    PROVE  f \in Seq(S) /\ Len(f) = n
OBVIOUS

\* The concatenation of two sequences.
LEMMA JoinedSequences ==
    ASSUME NEW S, NEW s \in Seq(S), NEW t \in Seq(S)
    PROVE  s \o t \in Seq(S) /\ Len(s \o t) = Len(s) + Len(t)
OBVIOUS

\* An order has every rule once.
LEMMA OrderFacts ==
    ASSUME TypeOK, NEW order \in IdOrders
    PROVE  LET n == Len(request.policy) IN
           /\ n \in Nat /\ DOMAIN order = 1..n /\ order \in Seq(Nat) /\ Len(order) = n
           /\ order \in [1..n -> RuleIds(request.policy)]
           /\ Range(order) = RuleIds(request.policy)
           /\ \A i, j \in 1..n : order[i] = order[j] => i = j
           /\ \A i \in 1..n : IndexOf(order, order[i]) = i
           /\ \A id \in RuleIds(request.policy) :
                 IndexOf(order, id) \in 1..n /\ order[IndexOf(order, id)] = id
<1> DEFINE n == Len(request.policy)
<1>1. /\ n \in Nat /\ DOMAIN request.policy = 1..n
      /\ order \in [1..n -> RuleIds(request.policy)]
      /\ \A i, j \in 1..n : order[i] = order[j] => i = j
  BY RequestFacts DEF IdOrders, Orders, IsInjective
<1>2. RuleIds(request.policy) \subseteq Nat
  BY RequestFacts DEF RuleIds, Range
<1>3. RuleIds(request.policy) \subseteq Range(order)
  BY InjectiveOrderIsOnto DEF IdOrders
<1> HIDE DEF n
<1>4. order \in Seq(Nat) /\ Len(order) = n /\ DOMAIN order = 1..n
  BY <1>1, <1>2
<1>5. \A i \in 1..n : IndexOf(order, order[i]) = i
  BY <1>1, <1>4 DEF IndexOf
<1>6. Range(order) = RuleIds(request.policy)
  BY <1>1, <1>3, <1>4 DEF Range
<1>7. \A id \in RuleIds(request.policy) :
         IndexOf(order, id) \in 1..n /\ order[IndexOf(order, id)] = id
  BY <1>4, <1>5, <1>6 DEF Range
<1> QED
  BY <1>1, <1>4, <1>5, <1>6, <1>7 DEF n

\* Two neighbours that another order has the other way round change places.
Sorts(a, b, target) ==
    \E k \in 1..(Len(request.policy) - 1) :
        b = SwapAt(a, k) /\ IndexOf(target, a[k + 1]) < IndexOf(target, a[k])

\* Then there is one inversion less.
LEMMA SortingRemovesOne ==
    ASSUME TypeOK, NEW a \in IdOrders, NEW b, NEW target \in IdOrders, Sorts(a, b, target)
    PROVE  /\ b \in IdOrders
           /\ IsFiniteSet(Inversions(a, target)) /\ IsFiniteSet(Inversions(b, target))
           /\ Cardinality(Inversions(a, target)) = Cardinality(Inversions(b, target)) + 1
<1> DEFINE n == Len(request.policy)
           ids == RuleIds(request.policy)
<1>1. PICK k \in 1..(n - 1) :
          b = SwapAt(a, k) /\ IndexOf(target, a[k + 1]) < IndexOf(target, a[k])
  BY DEF Sorts
<1>2. /\ b \in IdOrders /\ b[k] = a[k + 1] /\ b[k + 1] = a[k]
      /\ \A i \in 1..n : i \notin {k, k + 1} => b[i] = a[i]
  BY <1>1, SwapIsOrder
<1>3. n \in Nat /\ k \in 1..n /\ k + 1 \in 1..n
  <2>1. n \in Nat
    BY OrderFacts
  <2> QED
    BY <1>1, <2>1
<1>4. /\ \A i \in 1..n : IndexOf(a, a[i]) = i /\ IndexOf(b, b[i]) = i
      /\ \A id \in ids : IndexOf(a, id) \in 1..n /\ a[IndexOf(a, id)] = id
      /\ \A i \in 1..n : a[i] \in ids
      /\ \A id \in ids : IndexOf(target, id) \in 1..n
      /\ Range(a) = ids /\ Range(b) = ids
  <2>1. /\ \A i \in 1..n : IndexOf(a, a[i]) = i
        /\ \A id \in ids : IndexOf(a, id) \in 1..n /\ a[IndexOf(a, id)] = id
        /\ a \in [1..n -> ids] /\ Range(a) = ids
    BY OrderFacts
  <2>2. (\A i \in 1..n : IndexOf(b, b[i]) = i) /\ Range(b) = ids
    BY <1>2, OrderFacts
  <2>3. \A id \in ids : IndexOf(target, id) \in 1..n
    BY OrderFacts
  <2> QED
    BY <2>1, <2>2, <2>3
<1> HIDE DEF n, ids
<1> DEFINE first == a[k]
           second == a[k + 1]
<1>5. \A id \in ids :
         IndexOf(b, id) = IF id = first THEN k + 1 ELSE IF id = second THEN k
                          ELSE IndexOf(a, id)
  BY <1>2, <1>3, <1>4
<1>6. /\ first \in ids /\ second \in ids
      /\ IndexOf(a, first) = k /\ IndexOf(a, second) = k + 1
      /\ \A id \in ids : id \notin {first, second} => IndexOf(a, id) \notin {k, k + 1}
  BY <1>3, <1>4
<1> HIDE DEF first, second
<1>7. \A x, y \in ids : <<x, y>> # <<first, second>> /\ <<x, y>> # <<second, first>> =>
         (IndexOf(a, x) < IndexOf(a, y) <=> IndexOf(b, x) < IndexOf(b, y))
  BY <1>3, <1>4, <1>5, <1>6
<1>8. IndexOf(target, second) < IndexOf(target, first)
  BY <1>1 DEF first, second
<1>9. <<first, second>> \in Inversions(a, target) /\ <<first, second>> \notin Inversions(b, target)
  BY <1>3, <1>4, <1>5, <1>6, <1>8 DEF Inversions
<1>10. \A x, y \in ids : <<x, y>> # <<first, second>> =>
          (<<x, y>> \in Inversions(a, target) <=> <<x, y>> \in Inversions(b, target))
  <2> SUFFICES ASSUME NEW x \in ids, NEW y \in ids, <<x, y>> # <<first, second>>
               PROVE  <<x, y>> \in Inversions(a, target) <=> <<x, y>> \in Inversions(b, target)
    OBVIOUS
  <2>1. CASE <<x, y>> = <<second, first>>
    <3>1. ~(IndexOf(target, x) > IndexOf(target, y))
      BY <1>4, <1>6, <1>8, <2>1
    <3> QED
      BY <3>1 DEF Inversions
  <2>2. CASE <<x, y>> # <<second, first>>
    BY <1>4, <1>7, <2>2 DEF Inversions
  <2> QED
    BY <2>1, <2>2
<1>11. Inversions(a, target) \subseteq ids \X ids /\ Inversions(b, target) \subseteq ids \X ids
  BY <1>4 DEF Inversions
<1>12. Inversions(a, target) = Inversions(b, target) \cup {<<first, second>>}
  BY <1>9, <1>10, <1>11
<1>13. IsFiniteSet(Inversions(b, target))
  <2>1. IsFiniteSet(ids)
    <3>1. a \in [1..n -> ids] /\ n \in Nat
      BY OrderFacts DEF n, ids
    <3>2. a \in Surjection(1..n, ids)
      BY <1>4, <3>1 DEF Surjection, Range
    <3> QED
      BY <3>1, <3>2, FS_Interval, FS_Surjection
  <2> QED
    BY <1>11, <2>1, FS_Product, FS_Subset
<1> QED
  BY <1>2, <1>9, <1>12, <1>13, FS_AddElement

\* A path of orders, each step of which sorts towards another order.
IsSortingPath(path, target) ==
    /\ path \in Seq(IdOrders) /\ path # << >>
    /\ \A i \in 1..(Len(path) - 1) : Sorts(path[i], path[i + 1], target)

\* Such a path takes as many steps as it removes inversions; when it arrives,
\* none is left.
LEMMA SortingPathIsShortest ==
    ASSUME TypeOK, NEW target \in IdOrders, NEW path, IsSortingPath(path, target),
           path[Len(path)] = target
    PROVE  Len(path) - 1 = Cardinality(Inversions(path[1], target))
<1> DEFINE size == Len(path)
           Due(i) == Cardinality(Inversions(path[size - i], target)) = i
           Bad == {i \in 0..(size - 1) : ~Due(i)}
<1>1. size \in Nat \ {0} /\ \A i \in 1..size : path[i] \in IdOrders
  BY DEF IsSortingPath
<1>2. Due(0)
  <2>1. Inversions(target, target) = {}
    <3>1. \A id \in Range(target) : IndexOf(target, id) \in Nat
      BY OrderFacts
    <3> QED
      BY <3>1 DEF Inversions
  <2>2. path[size - 0] = target
    BY <1>1
  <2> QED
    BY <2>1, <2>2, FS_EmptySet
<1>3. ASSUME NEW i \in 0..(size - 2), Due(i) PROVE Due(i + 1)
  <2> DEFINE j == size - (i + 1)
  <2>1. j \in 1..(size - 1) /\ j + 1 = size - i /\ j \in 1..size
    BY <1>1
  <2>2. Sorts(path[j], path[j + 1], target) /\ path[j] \in IdOrders
    BY <1>1, <2>1 DEF IsSortingPath
  <2>3. Cardinality(Inversions(path[j], target)) = Cardinality(Inversions(path[j + 1], target)) + 1
    BY <2>2, SortingRemovesOne
  <2> QED
    BY <1>3, <2>1, <2>3
<1>4. Bad = {}
  <2> SUFFICES ASSUME Bad # {} PROVE FALSE
    OBVIOUS
  <2>1. Bad \in SUBSET Nat
    OBVIOUS
  <2>2. PICK m \in Bad : \A k \in Bad : m <= k
    <3> HIDE DEF Bad
    <3> QED
      BY <2>1, LeastNatural
  <2>3. m # 0 /\ m \in 0..(size - 1)
    BY <1>2, <2>2
  <2>4. m - 1 \in 0..(size - 2) /\ m - 1 \in 0..(size - 1) /\ (m - 1) + 1 = m /\ ~(m <= m - 1)
    BY <1>1, <2>3
  <2>5. Due(m - 1)
    BY <2>2, <2>4
  <2>6. Due((m - 1) + 1)
    <3> HIDE DEF Due
    <3> QED
      BY <1>3, <2>4, <2>5
  <2> QED
    BY <2>2, <2>4, <2>6
<1>5. size - 1 \in 0..(size - 1) /\ size - (size - 1) = 1
  BY <1>1
<1>6. Due(size - 1)
  BY <1>4, <1>5
<1> QED
  BY <1>5, <1>6

\* Two orders agree on the first m rules.
AgreeUpTo(a, b, m) == \A i \in 1..m : a[i] = b[i]

\* The rule that comes next in the other order moves forward, one exchange of
\* neighbours at a time, each of which is a wrong pair.
LEMMA MovingForwardSorts ==
    ASSUME TypeOK, NEW order \in IdOrders, NEW target \in IdOrders,
           NEW m \in 1..Len(request.policy), AgreeUpTo(order, target, m - 1)
    PROVE  LET start == IndexOf(order, target[m]) IN
           /\ start \in m..Len(request.policy)
           /\ MoveForward(order, start, start) = order
           /\ \A t \in m..start : MoveForward(order, start, t) \in IdOrders
           /\ \A t \in m..(start - 1) :
                 Sorts(MoveForward(order, start, t + 1), MoveForward(order, start, t), target)
           /\ AgreeUpTo(MoveForward(order, start, m), target, m)
<1> DEFINE n == Len(request.policy)
           ids == RuleIds(request.policy)
           start == IndexOf(order, target[m])
           Moved(t) == MoveForward(order, start, t)
<1>1. /\ n \in Nat /\ DOMAIN order = 1..n /\ order \in [1..n -> ids] /\ target \in [1..n -> ids]
      /\ \A i, j \in 1..n : order[i] = order[j] => i = j
      /\ \A i, j \in 1..n : target[i] = target[j] => i = j
      /\ \A i \in 1..n : IndexOf(order, order[i]) = i
      /\ \A i \in 1..n : IndexOf(target, target[i]) = i
      /\ \A id \in ids : IndexOf(order, id) \in 1..n /\ order[IndexOf(order, id)] = id
      /\ \A id \in ids : IndexOf(target, id) \in 1..n /\ target[IndexOf(target, id)] = id
  BY OrderFacts
<1> HIDE DEF n, ids
<1>2. m \in 1..n /\ target[m] \in ids
  BY <1>1 DEF n
<1>3. start \in 1..n /\ order[start] = target[m]
  BY <1>1, <1>2
<1> HIDE DEF start
<1>4. start \in m..n
  <2> SUFFICES ASSUME start < m PROVE FALSE
    BY <1>1, <1>2, <1>3
  <2>1. start \in 1..(m - 1)
    BY <1>1, <1>2, <1>3
  <2>2. target[start] = target[m]
    BY <1>3, <2>1 DEF AgreeUpTo
  <2>3. start = m
    BY <1>1, <1>2, <1>3, <2>2
  <2> QED
    BY <1>1, <1>2, <2>1, <2>3
<1>5. ASSUME NEW t \in m..start
      PROVE  /\ Moved(t) \in [1..n -> ids]
             /\ Moved(t)[t] = target[m]
             /\ \A i \in 1..n : i > t /\ i <= start => Moved(t)[i] = order[i - 1]
             /\ \A i \in 1..n : i < t \/ i > start => Moved(t)[i] = order[i]
  <2>1. t \in 1..n /\ start <= n /\ t <= start /\ m >= 1
    BY <1>1, <1>2, <1>4
  <2>2. \A i \in 1..n : i > t /\ i <= start => i - 1 \in 1..n
    BY <1>1, <2>1
  <2>3. Moved(t) = [i \in 1..n |-> CASE i = t -> order[start]
                                     [] i > t /\ i <= start -> order[i - 1]
                                     [] i < t \/ i > start -> order[i]]
    BY <1>1 DEF MoveForward
  <2> HIDE DEF Moved
  <2>4. \A i \in 1..n : i = t \/ (i > t /\ i <= start) \/ i < t \/ i > start
    BY <1>1, <1>3, <2>1
  <2>5. /\ \A i \in 1..n : i = t => Moved(t)[i] = order[start]
        /\ \A i \in 1..n : i > t /\ i <= start => Moved(t)[i] = order[i - 1]
        /\ \A i \in 1..n : i < t \/ i > start => Moved(t)[i] = order[i]
    <3>1. ASSUME NEW i \in 1..n
          PROVE  /\ i = t => Moved(t)[i] = order[start]
                 /\ i > t /\ i <= start => Moved(t)[i] = order[i - 1]
                 /\ i < t \/ i > start => Moved(t)[i] = order[i]
      <4>1. Moved(t)[i] = CASE i = t -> order[start]
                            [] i > t /\ i <= start -> order[i - 1]
                            [] i < t \/ i > start -> order[i]
        BY <2>3
      <4>2. i \in Int /\ t \in Int /\ start \in Int
        BY <1>1, <1>3, <2>1
      <4>3. CASE i = t
        BY <2>1, <4>1, <4>2, <4>3
      <4>4. CASE i > t /\ i <= start
        BY <4>1, <4>2, <4>4
      <4>5. CASE i < t \/ i > start
        BY <2>1, <4>1, <4>2, <4>5
      <4> QED
        BY <2>4, <4>3, <4>4, <4>5
    <3> QED
      BY <3>1
  <2>6. \A i \in 1..n : Moved(t)[i] \in ids
    <3>1. \A i \in 1..n : order[i] \in ids
      BY <1>1
    <3> QED
      BY <1>3, <2>2, <2>4, <2>5, <3>1
  <2> QED
    BY <1>3, <2>1, <2>3, <2>5, <2>6
<1>6. ASSUME NEW t \in m..start PROVE Moved(t) \in IdOrders
  <2>1. /\ Moved(t) \in [1..n -> ids] /\ Moved(t)[t] = order[start]
        /\ \A i \in 1..n : i > t /\ i <= start => Moved(t)[i] = order[i - 1]
        /\ \A i \in 1..n : i < t \/ i > start => Moved(t)[i] = order[i]
    BY <1>3, <1>5
  <2>2. t \in 1..n /\ start \in 1..n /\ t <= start
    BY <1>1, <1>2, <1>3
  <2> HIDE DEF Moved
  <2> DEFINE from == [i \in 1..n |-> IF i = t THEN start
                                     ELSE IF i > t /\ i <= start THEN i - 1 ELSE i]
  <2>3. ASSUME NEW i \in 1..n PROVE from[i] \in 1..n /\ Moved(t)[i] = order[from[i]]
    <3>1. from[i] = IF i = t THEN start ELSE IF i > t /\ i <= start THEN i - 1 ELSE i
      OBVIOUS
    <3> HIDE DEF from
    <3>2. CASE i = t
      BY <2>1, <2>2, <3>1, <3>2
    <3>3. CASE i # t /\ i > t /\ i <= start
      BY <1>1, <2>1, <2>2, <3>1, <3>3
    <3>4. CASE i # t /\ ~(i > t /\ i <= start)
      <4>1. i < t \/ i > start
        BY <1>1, <2>2, <3>4
      <4> QED
        BY <2>1, <3>1, <3>4, <4>1
    <3> QED
      BY <3>2, <3>3, <3>4
  <2>4. \A i, j \in 1..n : from[i] = from[j] => i = j
    BY <1>1, <2>2
  <2> HIDE DEF from
  <2>5. \A i, j \in 1..n : Moved(t)[i] = Moved(t)[j] => i = j
    <3>1. \A i, j \in 1..n : order[i] = order[j] => i = j
      BY <1>1
    <3> QED
      BY <2>3, <2>4, <3>1
  <2>6. IsInjective(Moved(t)) /\ DOMAIN request.policy = 1..n
    BY <2>1, <2>5, RequestFacts DEF IsInjective, n
  <2> QED
    BY <2>1, <2>6 DEF IdOrders, Orders, ids
<1>7. Moved(start) = order
  <2>1. /\ Moved(start) \in [1..n -> ids] /\ Moved(start)[start] = order[start]
        /\ \A i \in 1..n : i < start \/ i > start => Moved(start)[i] = order[i]
    <3>1. start \in m..start
      BY <1>1, <1>4
    <3> QED
      BY <1>3, <1>5, <3>1
  <2> HIDE DEF Moved
  <2>2. \A i \in 1..n : Moved(start)[i] = order[i]
    BY <1>3, <2>1
  <2> QED
    BY <1>1, <2>1, <2>2
<1>8. ASSUME NEW t \in m..(start - 1)
      PROVE  Sorts(Moved(t + 1), Moved(t), target)
  <2>1. /\ t \in m..start /\ t + 1 \in m..start /\ t \in 1..(n - 1) /\ t \in 1..n /\ t + 1 \in 1..n
        /\ start \in 1..n
    BY <1>1, <1>2, <1>3
  <2> DEFINE a == Moved(t + 1)
             b == Moved(t)
  <2>2. /\ b \in [1..n -> ids] /\ b[t] = target[m]
        /\ \A i \in 1..n : i > t /\ i <= start => b[i] = order[i - 1]
        /\ \A i \in 1..n : i < t \/ i > start => b[i] = order[i]
    BY <1>5, <2>1
  <2>3. /\ a \in [1..n -> ids] /\ a[t + 1] = target[m]
        /\ \A i \in 1..n : i > t + 1 /\ i <= start => a[i] = order[i - 1]
        /\ \A i \in 1..n : i < t + 1 \/ i > start => a[i] = order[i]
    BY <1>5, <2>1
  <2>4. a \in IdOrders
    BY <1>6, <2>1
  <2> HIDE DEF a, b
  <2>5. /\ SwapAt(a, t) \in IdOrders
        /\ SwapAt(a, t)[t] = a[t + 1] /\ SwapAt(a, t)[t + 1] = a[t]
        /\ \A i \in 1..n : i \notin {t, t + 1} => SwapAt(a, t)[i] = a[i]
    BY <2>1, <2>4, SwapIsOrder DEF n
  <2>6. SwapAt(a, t) \in [1..n -> ids]
    BY <2>5, OrderFacts DEF n, ids
  <2>7. \A i \in 1..n : b[i] = SwapAt(a, t)[i]
    <3>1. b[t] = SwapAt(a, t)[t]
      BY <2>2, <2>3, <2>5
    <3>2. b[t + 1] = SwapAt(a, t)[t + 1]
      BY <2>1, <2>2, <2>3, <2>5
    <3>3. ASSUME NEW i \in 1..n, i \notin {t, t + 1} PROVE b[i] = SwapAt(a, t)[i]
      BY <2>1, <2>2, <2>3, <2>5, <3>3
    <3> QED
      BY <3>1, <3>2, <3>3
  <2>8. b = SwapAt(a, t)
    <3>1. \A f, g \in [1..n -> ids] : (\A i \in 1..n : f[i] = g[i]) => f = g
      BY SameValuesSameFunction
    <3>2. b \in [1..n -> ids]
      BY <2>2
    <3> QED
      BY <2>6, <2>7, <3>1, <3>2
  <2>9. IndexOf(target, a[t + 1]) < IndexOf(target, a[t])
    <3>1. a[t] = order[t] /\ a[t + 1] = target[m] /\ IndexOf(target, target[m]) = m
      BY <1>1, <1>2, <2>1, <2>3
    <3> DEFINE at == IndexOf(target, order[t])
    <3>2. at \in 1..n /\ target[at] = order[t]
      BY <1>1, <2>1
    <3> HIDE DEF at
    <3>3. at # m
      BY <1>1, <1>3, <2>1, <3>2
    <3>4. ~(at < m)
      <4> SUFFICES ASSUME at < m PROVE FALSE
        OBVIOUS
      <4>1. at \in 1..(m - 1)
        BY <1>2, <3>2
      <4>2. order[at] = target[at]
        BY <4>1 DEF AgreeUpTo
      <4>3. at = t
        BY <1>1, <2>1, <3>2, <4>2
      <4> QED
        BY <1>2, <2>1, <4>1, <4>3
    <3>5. m < at
      BY <1>2, <3>2, <3>3, <3>4
    <3> QED
      BY <3>1, <3>5 DEF at
  <2> QED
    BY <2>1, <2>8, <2>9 DEF Sorts, a, b, n
<1>9. AgreeUpTo(Moved(m), target, m)
  <2>1. m \in m..start
    BY <1>1, <1>2, <1>4
  <2>2. /\ Moved(m)[m] = target[m]
        /\ \A i \in 1..n : i < m => Moved(m)[i] = order[i]
    BY <1>5, <2>1
  <2> HIDE DEF Moved
  <2>3. \A i \in 1..m : i = m \/ (i \in 1..(m - 1) /\ i \in 1..n /\ i < m)
    BY <1>1, <1>2
  <2> QED
    BY <2>2, <2>3 DEF AgreeUpTo
<1> QED
  BY <1>4, <1>6, <1>7, <1>8, <1>9 DEF start, n

\* A round of _adjacent_swap_path goes on sorting, and puts one more rule in
\* its place.
LEMMA BubblingSorts ==
    ASSUME TypeOK, NEW target \in IdOrders, NEW m \in 1..Len(request.policy),
           NEW path, IsSortingPath(path, target), AgreeUpTo(path[Len(path)], target, m - 1)
    PROVE  LET longer == BubbleTo(path, target, m) IN
           /\ IsSortingPath(longer, target) /\ longer[1] = path[1]
           /\ AgreeUpTo(longer[Len(longer)], target, m)
<1> DEFINE n == Len(request.policy)
           size == Len(path)
           current == path[size]
           start == IndexOf(current, target[m])
           Moved(t) == MoveForward(current, start, t)
           moves == [k \in 1..(start - m) |-> Moved(start - k)]
           longer == BubbleTo(path, target, m)
<1>1. size \in Nat \ {0} /\ path \in Seq(IdOrders) /\ current \in IdOrders
  BY DEF IsSortingPath
<1>2. /\ start \in m..n /\ Moved(start) = current
      /\ \A t \in m..start : Moved(t) \in IdOrders
      /\ \A t \in m..(start - 1) : Sorts(Moved(t + 1), Moved(t), target)
      /\ AgreeUpTo(Moved(m), target, m)
  BY <1>1, MovingForwardSorts
<1>3. longer = path \o moves
  BY DEF BubbleTo, Last
<1>4. m \in Nat /\ n \in Nat /\ start \in Nat /\ start - m \in Nat
  <2>1. n \in Nat
    BY OrderFacts
  <2> HIDE DEF start
  <2> QED
    BY <1>2, <2>1
<1>5. moves \in Seq(IdOrders) /\ Len(moves) = start - m
  <2> HIDE DEF start, Moved
  <2>1. \A k \in 1..(start - m) : start - k \in m..start
    BY <1>4
  <2>2. moves \in [1..(start - m) -> IdOrders]
    BY <1>2, <2>1
  <2> QED
    BY <1>4, <2>2
<1>6. /\ longer \in Seq(IdOrders) /\ Len(longer) = size + (start - m)
      /\ \A i \in 1..size : longer[i] = path[i]
      /\ \A k \in 1..(start - m) : longer[size + k] = Moved(start - k)
  <2>1. \A k \in 1..(start - m) : moves[k] = Moved(start - k)
    OBVIOUS
  <2> HIDE DEF start, Moved, moves, longer, current
  <2>2. longer \in Seq(IdOrders) /\ Len(longer) = size + (start - m)
    BY <1>1, <1>3, <1>5, JoinedSequences
  <2>3. \A i \in 1..size : longer[i] = path[i]
    BY <1>1, <1>3, <1>4, <1>5
  <2>4. ASSUME NEW k \in 1..(start - m) PROVE longer[size + k] = moves[k]
    BY <1>1, <1>3, <1>4, <1>5
  <2> QED
    BY <2>1, <2>2, <2>3, <2>4
<1> HIDE DEF n, start, Moved, moves, longer
<1>7. ASSUME NEW k \in 0..(start - m) PROVE longer[size + k] = Moved(start - k)
  <2>1. CASE k = 0
    <3>1. size + k = size /\ start - k = start /\ size \in 1..size
      BY <1>1, <1>4, <2>1
    <3> QED
      BY <1>2, <1>6, <3>1
  <2>2. CASE k # 0
    <3>1. k \in 1..(start - m)
      BY <1>4, <2>2
    <3> QED
      BY <1>6, <3>1
  <2> QED
    BY <2>1, <2>2
<1>8. ASSUME NEW i \in 1..(Len(longer) - 1) PROVE Sorts(longer[i], longer[i + 1], target)
  <2>1. i \in Nat /\ i >= 1 /\ i < size + (start - m)
    BY <1>1, <1>4, <1>6
  <2>2. CASE i < size
    <3>1. i \in 1..(size - 1) /\ i \in 1..size /\ i + 1 \in 1..size
      BY <1>1, <2>1, <2>2
    <3>2. Sorts(path[i], path[i + 1], target)
      BY <3>1 DEF IsSortingPath
    <3> QED
      BY <1>6, <3>1, <3>2
  <2>3. CASE i >= size
    <3> DEFINE k == i - size
               t == start - (k + 1)
    <3>1. /\ k \in 0..(start - m) /\ k + 1 \in 0..(start - m) /\ size + k = i
          /\ size + (k + 1) = i + 1 /\ t \in m..(start - 1) /\ t + 1 = start - k
      BY <1>1, <1>4, <2>1, <2>3
    <3> HIDE DEF k
    <3>2. longer[i] = Moved(t + 1) /\ longer[i + 1] = Moved(t)
      BY <1>7, <3>1
    <3> QED
      BY <1>2, <3>1, <3>2
  <2> QED
    BY <1>1, <2>1, <2>2, <2>3
<1>9. longer # << >> /\ longer[1] = path[1]
  <2>1. 1 \in 1..size /\ Len(longer) # 0
    BY <1>1, <1>4, <1>6
  <2> QED
    BY <1>6, <2>1
<1>10. AgreeUpTo(longer[Len(longer)], target, m)
  <2>1. start - m \in 0..(start - m) /\ start - (start - m) = m
    BY <1>4
  <2> QED
    BY <1>2, <1>6, <1>7, <2>1
<1> QED
  BY <1>6, <1>8, <1>9, <1>10 DEF IsSortingPath, longer

\* The paths after the first m rounds.
ArePaths(left_order, right_order, m, f) ==
    f = [n \in 0..m |-> IF n = 0 THEN <<left_order>>
                        ELSE BubbleTo(f[n - 1], right_order, n)]

\* There are paths for any number of rounds.
LEMMA PathsExist ==
    ASSUME NEW left_order, NEW right_order, NEW size \in Nat
    PROVE  \E f : ArePaths(left_order, right_order, size, f)
<1> DEFINE Exist(m) == \E f : ArePaths(left_order, right_order, m, f)
           Bad == {m \in 0..size : ~Exist(m)}
<1>1. Exist(0)
  <2>1. ArePaths(left_order, right_order, 0, [n \in 0..0 |-> <<left_order>>])
    <3> DEFINE f == [n \in 0..0 |-> <<left_order>>]
    <3>1. \A n \in 0..0 : n = 0
      OBVIOUS
    <3>2. f = [n \in 0..0 |-> IF n = 0 THEN <<left_order>>
                              ELSE BubbleTo(f[n - 1], right_order, n)]
      BY <3>1
    <3> QED
      BY <3>2 DEF ArePaths
  <2> QED
    BY <2>1
<1>2. ASSUME NEW m \in 0..size, m # 0, Exist(m - 1) PROVE Exist(m)
  <2>1. PICK f : ArePaths(left_order, right_order, m - 1, f)
    BY <1>2
  <2> DEFINE Round(h, n) == IF n = 0 THEN <<left_order>> ELSE BubbleTo(h[n - 1], right_order, n)
             g == [n \in 0..m |-> IF n = m THEN BubbleTo(f[m - 1], right_order, m) ELSE f[n]]
  <2>2. f = [n \in 0..(m - 1) |-> Round(f, n)]
    BY <2>1 DEF ArePaths
  <2>3. m \in Nat /\ m > 0
    BY <1>2
  <2>4. ASSUME NEW n \in 0..m PROVE g[n] = Round(g, n)
    <3>1. CASE n = m
      <4>1. m - 1 \in 0..m /\ m - 1 # m
        BY <2>3
      <4> QED
        BY <2>3, <3>1, <4>1
    <3>2. CASE n # m
      <4>1. n \in 0..(m - 1) /\ (n # 0 => n - 1 \in 0..m /\ n - 1 # m)
        BY <2>3, <3>2
      <4>2. g[n] = f[n] /\ (n # 0 => g[n - 1] = f[n - 1])
        BY <3>2, <4>1
      <4> HIDE DEF g
      <4>3. f[n] = Round(f, n)
        BY <2>2, <4>1
      <4> QED
        BY <4>2, <4>3
    <3> QED
      BY <3>1, <3>2
  <2>5. g = [n \in 0..m |-> g[n]]
    OBVIOUS
  <2> HIDE DEF g
  <2>6. g = [n \in 0..m |-> Round(g, n)]
    BY <2>4, <2>5
  <2> QED
    BY <2>6 DEF ArePaths
<1>3. Bad = {}
  <2> SUFFICES ASSUME Bad # {} PROVE FALSE
    OBVIOUS
  <2>1. Bad \in SUBSET Nat
    OBVIOUS
  <2> HIDE DEF Exist
  <2>2. PICK m \in Bad : \A k \in Bad : m <= k
    <3> HIDE DEF Bad
    <3> QED
      BY <2>1, LeastNatural
  <2>3. m # 0 /\ m \in 0..size
    BY <1>1, <2>2
  <2>4. m - 1 \in 0..size /\ ~(m <= m - 1)
    BY <2>3
  <2>5. Exist(m - 1)
    BY <2>2, <2>4
  <2> QED
    BY <1>2, <2>2, <2>3, <2>5
<1> QED
  BY <1>3

\* _adjacent_swap_path of two orders is a shortest path of exchanges between
\* them: no path is shorter than the number of their inversions.
LEMMA SwapPathIsShortest ==
    ASSUME TypeOK, NEW left_order \in IdOrders, NEW right_order \in IdOrders
    PROVE  LET path == AdjacentSwapPath(left_order, right_order) IN
           /\ IsSortingPath(path, right_order)
           /\ IsSwapPath(path, left_order, right_order)
           /\ Len(path) - 1 = Cardinality(Inversions(left_order, right_order))
<1> DEFINE n == Len(request.policy)
           paths == CHOOSE f : ArePaths(left_order, right_order, n, f)
           Sorted(m) == /\ IsSortingPath(paths[m], right_order)
                        /\ paths[m][1] = left_order
                        /\ AgreeUpTo(paths[m][Len(paths[m])], right_order, m)
           Bad == {m \in 0..n : ~Sorted(m)}
<1>1. n \in Nat /\ Len(right_order) = n
  BY OrderFacts
<1>2. AdjacentSwapPath(left_order, right_order) = paths[n]
  BY <1>1 DEF AdjacentSwapPath, ArePaths
<1> HIDE DEF n
<1>3. ArePaths(left_order, right_order, n, paths)
  BY <1>1, PathsExist
<1> HIDE DEF paths
<1>4. paths = [m \in 0..n |-> IF m = 0 THEN <<left_order>>
                              ELSE BubbleTo(paths[m - 1], right_order, m)]
  BY <1>3 DEF ArePaths
<1>5. Sorted(0)
  <2>1. 0 \in 0..n
    BY <1>1
  <2>2. paths[0] = <<left_order>>
    BY <1>4, <2>1
  <2>3. <<left_order>> \in Seq(IdOrders) /\ Len(<<left_order>>) = 1 /\ <<left_order>> # << >>
    OBVIOUS
  <2> QED
    BY <2>2, <2>3 DEF IsSortingPath, AgreeUpTo
<1>6. ASSUME NEW m \in 0..n, m # 0, Sorted(m - 1) PROVE Sorted(m)
  <2>1. m \in 1..n
    BY <1>1, <1>6
  <2>2. paths[m] = BubbleTo(paths[m - 1], right_order, m)
    BY <1>4, <1>6
  <2> QED
    BY <1>6, <2>1, <2>2, BubblingSorts DEF n
<1>7. Bad = {}
  <2> SUFFICES ASSUME Bad # {} PROVE FALSE
    OBVIOUS
  <2>1. Bad \in SUBSET Nat
    OBVIOUS
  <2> HIDE DEF Sorted
  <2>2. PICK m \in Bad : \A k \in Bad : m <= k
    <3> HIDE DEF Bad
    <3> QED
      BY <2>1, LeastNatural
  <2>3. m # 0 /\ m \in 0..n
    BY <1>5, <2>2
  <2>4. m - 1 \in 0..n /\ ~(m <= m - 1)
    BY <1>1, <2>3
  <2>5. Sorted(m - 1)
    BY <2>2, <2>4
  <2> QED
    BY <1>6, <2>2, <2>3, <2>5
<1>8. n \in 0..n
  BY <1>1
<1>9. Sorted(n)
  BY <1>7, <1>8
<1> DEFINE path == paths[n]
<1>10. /\ IsSortingPath(path, right_order) /\ path[1] = left_order
       /\ AgreeUpTo(path[Len(path)], right_order, n)
  BY <1>9
<1> HIDE DEF path
<1>11. path[Len(path)] = right_order
  <2>1. path[Len(path)] \in IdOrders
    BY <1>10 DEF IsSortingPath
  <2>2. /\ path[Len(path)] \in [1..n -> RuleIds(request.policy)]
        /\ right_order \in [1..n -> RuleIds(request.policy)]
    BY <2>1, OrderFacts DEF n
  <2>3. \A f, g \in [1..n -> RuleIds(request.policy)] :
           (\A i \in 1..n : f[i] = g[i]) => f = g
    BY SameValuesSameFunction
  <2> QED
    BY <1>10, <2>2, <2>3 DEF AgreeUpTo
<1>12. ASSUME NEW i \in 1..(Len(path) - 1) PROVE Neighbours(path[i], path[i + 1])
  <2>1. Sorts(path[i], path[i + 1], right_order)
    BY <1>10 DEF IsSortingPath
  <2>2. path[i] \in IdOrders
    BY <1>10 DEF IsSortingPath
  <2>3. Len(path[i]) = n
    BY <2>2, OrderFacts DEF n
  <2> QED
    BY <2>1, <2>3 DEF Sorts, Neighbours, n
<1>13. IsSwapPath(path, left_order, right_order)
  BY <1>10, <1>11, <1>12 DEF IsSwapPath, IsSortingPath, Last
<1>14. Len(path) - 1 = Cardinality(Inversions(left_order, right_order))
  BY <1>10, <1>11, SortingPathIsShortest
<1> QED
  BY <1>2, <1>10, <1>13, <1>14 DEF path

-----------------------------------------------------------------------------
(* Each witness shows what it says.                                        *)

\* When all orders are done, the evaluation of an order is its observation.
LEMMA EvaluationIsObserved ==
    ASSUME IInv, pc = "classify", NEW order \in IdOrders
    PROVE  ResultOf(order) = observations[order]
<1>1. /\ \E i \in DOMAIN trace : trace[i].order = order
      /\ \A i \in DOMAIN trace : trace[i].result = observations[trace[i].order]
  BY EvaluationsAreTheOrders
<1> DEFINE i == CHOOSE j \in DOMAIN trace : trace[j].order = order
<1>2. i \in DOMAIN trace /\ trace[i].order = order
  BY <1>1
<1>3. ResultOf(order) = trace[i].result
  BY DEF ResultOf
<1> HIDE DEF i
<1> QED
  BY <1>1, <1>2, <1>3

\* The aggregate follows from the rows: when it differs, so does the outcome
\* of some rule that both orders report.
LEMMA AggregateFollowsFromRows ==
    ASSUME IInv, Exact, NEW a \in DOMAIN observations, NEW b \in DOMAIN observations,
           ProjectionsDiffer("outcome", observations[a], observations[b])
    PROVE  \E id \in ReportedIds(observations[a]) \cap ReportedIds(observations[b]) :
               RowOf(observations[a], id).passed # RowOf(observations[b], id).passed
<1> DEFINE left  == observations[a]
           right == observations[b]
<1> SUFFICES ASSUME \A id \in ReportedIds(left) \cap ReportedIds(right) :
                        RowOf(left, id).passed = RowOf(right, id).passed
             PROVE  FALSE
  OBVIOUS
<1>1. ReportedIds(left) = ReportedIds(right) /\ left.passed # right.passed
  BY DEF ProjectionsDiffer
<1>2. /\ PassedIsConsistent(left, request.policy) /\ PassedIsConsistent(right, request.policy)
      /\ RowsAreDistinct(left) /\ RowsAreDistinct(right)
  BY DEF Exact, AggregatesAreConsistent, IInv, ResultsAccepted, Accepted
<1> HIDE DEF left, right
<1>3. ASSUME NEW result, RowsAreDistinct(result)
      PROVE  (\A row \in Range(result.rows) : row.passed)
               <=> \A id \in ReportedIds(result) : RowOf(result, id).passed
  <2>1. \A row \in Range(result.rows) :
           row.rule_id \in ReportedIds(result) /\ RowOf(result, row.rule_id) = row
    BY <1>3, RowIsUnique DEF ReportedIds
  <2>2. \A id \in ReportedIds(result) : RowOf(result, id) \in Range(result.rows)
    BY DEF ReportedIds, RowOf
  <2> QED
    BY <2>1, <2>2
<1>4. (\A id \in ReportedIds(left) : RowOf(left, id).passed)
        <=> \A id \in ReportedIds(right) : RowOf(right, id).passed
  BY <1>1
<1>5. (\A row \in Range(left.rows) : row.passed) <=> \A row \in Range(right.rows) : row.passed
  BY <1>2, <1>3, <1>4
<1> QED
  BY <1>1, <1>2, <1>5, Zenon DEF PassedIsConsistent

\* What a witness says of its endpoints is said of their observations.
LEMMA EndpointsAreObserved ==
    ASSUME IInv, pc = "classify", NEW witness, witness.dimension \in Range(Dimensions),
           witness.left_order \in IdOrders, witness.right_order \in IdOrders,
           ProjectionsDiffer(witness.dimension, observations[witness.left_order],
                             observations[witness.right_order])
    PROVE  EndpointsDiffer(witness)
<1>1. /\ ResultOf(witness.left_order) = observations[witness.left_order]
      /\ ResultOf(witness.right_order) = observations[witness.right_order]
  BY EvaluationIsObserved
<1> QED
  BY <1>1 DEF EndpointsDiffer, ProjectionsDiffer

\* The names of the dimensions.
LEMMA DimensionNames ==
    Range(Dimensions) = {"outcome", "reason_evidence", "participation", "presentation"}
<1>1. /\ DOMAIN Dimensions = {1, 2, 3, 4} /\ Dimensions[1] = "outcome"
      /\ Dimensions[2] = "reason_evidence" /\ Dimensions[3] = "participation"
      /\ Dimensions[4] = "presentation"
  BY DEF Dimensions
<1> QED
  BY <1>1 DEF Range

\* A drift in the outcome shows in a rule.
LEMMA NeverTheAggregate ==
    ASSUME IInv, Exact, pc = "classify", NEW witness,
           witness.left_order \in IdOrders, witness.right_order \in IdOrders,
           ProjectionsDiffer(witness.dimension, observations[witness.left_order],
                             observations[witness.right_order]),
           witness.comparison = "endpoint_path" => witness.reason = "shared_rule_pass"
    PROVE  witness.dimension = "outcome" => AggregateAloneNeverDecides(witness)
<1> SUFFICES ASSUME witness.dimension = "outcome" PROVE AggregateAloneNeverDecides(witness)
  OBVIOUS
<1>1. /\ ResultOf(witness.left_order) = observations[witness.left_order]
      /\ ResultOf(witness.right_order) = observations[witness.right_order]
  BY EvaluationIsObserved
<1>2. DOMAIN observations = IdOrders
  BY EvaluationsAreTheOrders
<1>3. \E id \in ReportedIds(observations[witness.left_order])
                 \cap ReportedIds(observations[witness.right_order]) :
         RowOf(observations[witness.left_order], id).passed
           # RowOf(observations[witness.right_order], id).passed
  BY <1>2, AggregateFollowsFromRows
<1> QED
  BY <1>1, <1>3 DEF AggregateAloneNeverDecides

\* The search among neighbours: its first hit is one.
LEMMA AdjacentWitnessIsGenuine ==
    ASSUME IInv, Exact, pc = "classify", NEW dimension \in Range(Dimensions),
           AdjacentHits(dimension) # {}
    PROVE  LET witness == AdjacentWitness(dimension) IN
           /\ witness.dimension = dimension
           /\ EvidenceIsTrue(witness) /\ AggregateAloneNeverDecides(witness)
<1> DEFINE hits == AdjacentHits(dimension)
           lefts == {hit[1] : hit \in hits}
           left == FirstOrder(request.policy, lefts)
           range == 1..(Len(request.policy) - 1)
           index == CHOOSE k \in range :
                       <<left, k>> \in hits /\ \A j \in 1..(k - 1) : <<left, j>> \notin hits
           witness == AdjacentWitness(dimension)
<1>1. /\ witness.comparison = "adjacent_swap" /\ witness.dimension = dimension
      /\ witness.left_order = left /\ witness.right_order = SwapAt(left, index)
      /\ witness.swap_index = index
  BY DEF AdjacentWitness
<1>2. DOMAIN observations = IdOrders /\ Len(request.policy) \in Nat
  BY EvaluationsAreTheOrders, RequestFacts DEF IInv
<1>3. hits \subseteq IdOrders \X range
  BY <1>2 DEF AdjacentHits
<1>4. left \in lefts
  <2>1. lefts \in SUBSET DOMAIN observations /\ lefts # {}
    BY <1>2, <1>3
  <2> HIDE DEF lefts
  <2> QED
    BY <2>1, FirstCompleted DEF IInv
<1>5. <<left, index>> \in hits /\ index \in range
  <2> DEFINE at == {k \in range : <<left, k>> \in hits}
  <2> HIDE DEF hits, left
  <2>1. at # {} /\ at \in SUBSET Nat
    <3>1. PICK hit \in hits : hit[1] = left
      BY <1>4
    <3>2. hit = <<left, hit[2]>> /\ hit[2] \in range
      BY <1>3, <3>1
    <3> QED
      BY <3>1, <3>2
  <2>2. PICK m \in at : \A k \in at : m <= k
    <3> HIDE DEF at
    <3> QED
      BY <2>1, LeastNatural
  <2>3. \A j \in 1..(m - 1) : <<left, j>> \notin hits
    <3> SUFFICES ASSUME NEW j \in 1..(m - 1), <<left, j>> \in hits PROVE FALSE
      OBVIOUS
    <3>1. j \in range /\ ~(m <= j)
      BY <1>2, <2>2
    <3> QED
      BY <2>2, <3>1
  <2>4. m \in range /\ <<left, m>> \in hits
    BY <2>2
  <2> HIDE DEF at, range
  <2> QED
    BY <2>3, <2>4
<1> HIDE DEF left, index, witness, lefts
<1>6. /\ left \in IdOrders /\ SwapAt(left, index) \in IdOrders
      /\ ProjectionsDiffer(dimension, observations[left], observations[SwapAt(left, index)])
  BY <1>2, <1>3, <1>5 DEF AdjacentHits
<1>7. EndpointsDiffer(witness)
  BY <1>1, <1>6, EndpointsAreObserved
<1>8. dimension # "rule_coverage"
  BY DimensionNames
<1>9. EvidenceIsTrue(witness)
  BY <1>1, <1>7, <1>8 DEF EvidenceIsTrue
<1>10. AggregateAloneNeverDecides(witness)
  <2>1. dimension = "outcome" => AggregateAloneNeverDecides(witness)
    BY <1>1, <1>6, NeverTheAggregate
  <2> QED
    BY <1>1, <2>1 DEF AggregateAloneNeverDecides
<1> QED
  BY <1>1, <1>9, <1>10 DEF witness

\* Without a hit among neighbours, two orders that differ are more than one
\* exchange apart.
LEMMA EndpointPathIsGenuine ==
    ASSUME IInv, Exact, pc = "classify", NEW dimension \in Range(Dimensions),
           AdjacentHits(dimension) = {}, NEW left \in IdOrders, NEW right \in IdOrders,
           ProjectionsDiffer(dimension, observations[left], observations[right]),
           NEW reason
    PROVE  LET witness == EndpointPath(dimension, reason, left, right) IN
           /\ witness.dimension = dimension
           /\ EvidenceIsTrue(witness)
           /\ (dimension = "outcome" => reason = "shared_rule_pass")
                => AggregateAloneNeverDecides(witness)
<1> DEFINE witness == EndpointPath(dimension, reason, left, right)
           path == AdjacentSwapPath(left, right)
           n == Len(request.policy)
<1>1. /\ witness.comparison = "endpoint_path" /\ witness.dimension = dimension
      /\ witness.reason = reason /\ witness.left_order = left /\ witness.right_order = right
      /\ witness.adjacent_swap_path = path
  BY DEF EndpointPath
<1>2. /\ IsSortingPath(path, right) /\ IsSwapPath(path, left, right)
      /\ Len(path) - 1 = Cardinality(Inversions(left, right))
  BY SwapPathIsShortest DEF IInv
<1>3. DOMAIN observations = IdOrders
  BY EvaluationsAreTheOrders
<1> HIDE DEF witness, path
<1>4. path \in Seq(IdOrders) /\ Len(path) \in Nat \ {0} /\ path[1] = left /\ path[Len(path)] = right
  BY <1>2 DEF IsSortingPath, IsSwapPath, Last
<1>5. Len(path) # 1
  <2> SUFFICES ASSUME left = right PROVE FALSE
    BY <1>4
  <2> QED
    BY DimensionNames DEF ProjectionsDiffer
<1>6. Len(path) # 2
  <2> SUFFICES ASSUME Len(path) = 2 PROVE FALSE
    OBVIOUS
  <2>1. Sorts(path[1], path[1 + 1], right)
    BY <1>2 DEF IsSortingPath
  <2>2. Sorts(left, right, right)
    BY <1>4, <2>1
  <2>3. PICK k \in 1..(n - 1) : right = SwapAt(left, k)
    BY <2>2 DEF Sorts
  <2>4. <<left, k>> \in AdjacentHits(dimension)
    BY <1>3, <2>3 DEF AdjacentHits
  <2> QED
    BY <2>4
<1>7. Len(path) > 2
  <2> DEFINE length == Len(path)
  <2>1. length \in Nat /\ length # 0 /\ length # 1 /\ length # 2
    BY <1>4, <1>5, <1>6
  <2> HIDE DEF length
  <2>2. length > 2
    BY <2>1
  <2> QED
    BY <2>2 DEF length
<1>8. EndpointsDiffer(witness)
  BY <1>1, EndpointsAreObserved
<1>9. dimension # "rule_coverage"
  BY DimensionNames
<1>10. EvidenceIsTrue(witness)
  BY <1>1, <1>2, <1>7, <1>8, <1>9 DEF EvidenceIsTrue
<1>11. (dimension = "outcome" => reason = "shared_rule_pass") => AggregateAloneNeverDecides(witness)
  <2> SUFFICES ASSUME dimension = "outcome" => reason = "shared_rule_pass"
               PROVE  AggregateAloneNeverDecides(witness)
    OBVIOUS
  <2>1. dimension = "outcome" => AggregateAloneNeverDecides(witness)
    BY <1>1, NeverTheAggregate
  <2> QED
    BY <1>1, <2>1 DEF AggregateAloneNeverDecides
<1> QED
  BY <1>1, <1>10, <1>11 DEF witness

\* A rule on which two orders conflict: the first of the conflicting rules,
\* and the order that first reported it.
LEMMA IdentityWitnessIsEndpointPath ==
    ASSUME IInv, pc = "classify", NEW dimension, NEW reason, NEW right \in IdOrders,
           NEW conflicts \in SUBSET ReportedIds(observations[right]), conflicts # {}
    PROVE  \E id \in conflicts :
               /\ FirstReporting(id) \in IdOrders
               /\ id \in ReportedIds(observations[FirstReporting(id)])
               /\ IdentityWitness(dimension, reason, right, conflicts)
                    = EndpointPath(dimension, reason, FirstReporting(id), right)
<1> DEFINE id == CHOOSE a \in conflicts : \A b \in conflicts : a <= b
<1>1. DOMAIN observations = IdOrders
  BY EvaluationsAreTheOrders
<1>2. conflicts \in SUBSET Nat
  <2>1. ReportedIds(observations[right]) \subseteq RuleIds(request.policy)
    BY <1>1 DEF IInv, ResultsAccepted, Accepted, RowsAreDeclared, ReportedIds
  <2>2. RuleIds(request.policy) \subseteq Nat
    BY RequestFacts DEF IInv, RuleIds, Range
  <2> QED
    BY <2>1, <2>2
<1>3. id \in conflicts
  BY <1>2, LeastNatural
<1>4. IdentityWitness(dimension, reason, right, conflicts)
        = EndpointPath(dimension, reason, FirstReporting(id), right)
  BY DEF IdentityWitness
<1> HIDE DEF id
<1>5. /\ FirstReporting(id) \in DOMAIN observations
      /\ id \in ReportedIds(observations[FirstReporting(id)])
  BY <1>1, <1>3, FirstReports DEF IInv
<1> QED
  BY <1>1, <1>3, <1>4, <1>5

\* The scan against the order first seen: its first hit is a rule that the two
\* orders of the witness both report, never an aggregate.
LEMMA GlobalWitnessIsGenuine ==
    ASSUME IInv, Exact, pc = "classify", NEW dimension \in {"outcome", "reason_evidence"},
           AdjacentHits(dimension) = {}, GloballyVaries(dimension)
    PROVE  LET witness == GlobalIdentityWitness(dimension) IN
           /\ witness.dimension = dimension
           /\ EvidenceIsTrue(witness) /\ AggregateAloneNeverDecides(witness)
<1>1. DOMAIN observations = IdOrders /\ TypeOK
  BY EvaluationsAreTheOrders DEF IInv
<1>2. dimension \in Range(Dimensions)
  BY DimensionNames
<1>3. CASE dimension = "reason_evidence"
  <2> DEFINE right == FirstOrder(request.policy, ReasonHits)
  <2>1. ReasonHits # {} /\ ReasonHits \in SUBSET DOMAIN observations
    BY <1>3 DEF GloballyVaries, ReasonHits
  <2>2. right \in ReasonHits /\ right \in IdOrders
    BY <1>1, <2>1, FirstCompleted
  <2>3. GlobalIdentityWitness(dimension)
          = IdentityWitness(dimension, "shared_rule_evidence", right, ReasonConflicts(right))
    BY <1>3 DEF GlobalIdentityWitness
  <2> HIDE DEF right
  <2>4. ReasonConflicts(right) # {}
    BY <2>2 DEF ReasonHits
  <2>5. ReasonConflicts(right) \in SUBSET ReportedIds(observations[right])
    BY DEF ReasonConflicts
  <2>6. PICK id \in ReasonConflicts(right) :
            /\ FirstReporting(id) \in IdOrders
            /\ id \in ReportedIds(observations[FirstReporting(id)])
            /\ IdentityWitness(dimension, "shared_rule_evidence", right, ReasonConflicts(right))
                 = EndpointPath(dimension, "shared_rule_evidence", FirstReporting(id), right)
    BY <2>2, <2>4, <2>5, IdentityWitnessIsEndpointPath
  <2>7. /\ id \in ReportedIds(observations[right])
        /\ RowOf(observations[right], id).reason_code
             # RowOf(observations[FirstReporting(id)], id).reason_code
    BY <2>6 DEF ReasonConflicts
  <2>8. ProjectionsDiffer(dimension, observations[FirstReporting(id)], observations[right])
    BY <1>3, <2>6, <2>7 DEF ProjectionsDiffer
  <2> QED
    BY <1>2, <1>3, <2>2, <2>3, <2>6, <2>8, EndpointPathIsGenuine
<1>4. CASE dimension = "outcome"
  <2> DEFINE right == FirstOrder(request.policy, PassHits)
  <2>1. PassHits # {} /\ PassHits \in SUBSET DOMAIN observations
    <3>1. PassHits # {} \/ AggregateHits # {}
      BY <1>4 DEF GloballyVaries
    <3>2. AggregateHits # {} => PassHits # {}
      <4> SUFFICES ASSUME AggregateHits # {} PROVE PassHits # {}
        OBVIOUS
      <4>1. PICK a \in DOMAIN observations, b \in DOMAIN observations :
                /\ ReportedIds(observations[a]) = ReportedIds(observations[b])
                /\ observations[a].passed # observations[b].passed
        BY <1>1, ScanFindsEveryDifference
      <4>2. ProjectionsDiffer("outcome", observations[a], observations[b])
        BY <4>1 DEF ProjectionsDiffer
      <4>3. \E id \in ReportedIds(observations[a]) \cap ReportedIds(observations[b]) :
               RowOf(observations[a], id).passed # RowOf(observations[b], id).passed
        BY <4>2, AggregateFollowsFromRows
      <4> QED
        BY <1>1, <4>3, ScanFindsEveryDifference
    <3> QED
      BY <3>1, <3>2 DEF PassHits
  <2>2. right \in PassHits /\ right \in IdOrders
    BY <1>1, <2>1, FirstCompleted
  <2>3. GlobalIdentityWitness(dimension)
          = IdentityWitness(dimension, "shared_rule_pass", right, PassConflicts(right))
    BY <1>4, <2>1 DEF GlobalIdentityWitness
  <2> HIDE DEF right
  <2>4. PassConflicts(right) # {}
    BY <2>2 DEF PassHits
  <2>5. PassConflicts(right) \in SUBSET ReportedIds(observations[right])
    BY DEF PassConflicts
  <2>6. PICK id \in PassConflicts(right) :
            /\ FirstReporting(id) \in IdOrders
            /\ id \in ReportedIds(observations[FirstReporting(id)])
            /\ IdentityWitness(dimension, "shared_rule_pass", right, PassConflicts(right))
                 = EndpointPath(dimension, "shared_rule_pass", FirstReporting(id), right)
    BY <2>2, <2>4, <2>5, IdentityWitnessIsEndpointPath
  <2>7. /\ id \in ReportedIds(observations[right])
        /\ RowOf(observations[right], id).passed
             # RowOf(observations[FirstReporting(id)], id).passed
    BY <2>6 DEF PassConflicts
  <2>8. ProjectionsDiffer(dimension, observations[FirstReporting(id)], observations[right])
    BY <1>4, <2>6, <2>7 DEF ProjectionsDiffer
  <2> QED
    BY <1>2, <1>4, <2>2, <2>3, <2>6, <2>8, EndpointPathIsGenuine
<1> QED
  BY <1>3, <1>4

\* The witness of a dimension, however it was found.
LEMMA DimensionWitnessIsGenuine ==
    ASSUME IInv, Exact, pc = "classify", NEW dimension \in Range(Dimensions),
           HasWitness(dimension)
    PROVE  LET witness == DimensionWitness(dimension) IN
           /\ witness.dimension = dimension
           /\ EvidenceIsTrue(witness) /\ AggregateAloneNeverDecides(witness)
<1>1. CASE AdjacentHits(dimension) # {}
  BY <1>1, AdjacentWitnessIsGenuine DEF DimensionWitness
<1>2. CASE AdjacentHits(dimension) = {}
  <2>1. dimension \in {"outcome", "reason_evidence"} /\ GloballyVaries(dimension)
    BY <1>2 DEF HasWitness
  <2> QED
    BY <1>2, <2>1, GlobalWitnessIsGenuine DEF DimensionWitness
<1> QED
  BY <1>1, <1>2

\* The first order that left rules out, and those rules.
LEMMA CoverageWitnessIsGenuine ==
    ASSUME IInv, pc = "classify", IncompleteOrders # {}
    PROVE  /\ CoverageWitness.dimension = "rule_coverage"
           /\ EvidenceIsTrue(CoverageWitness) /\ AggregateAloneNeverDecides(CoverageWitness)
<1> DEFINE order == FirstOrder(request.policy, IncompleteOrders)
           missing == Range(order) \ ReportedIds(observations[order])
<1>1. /\ CoverageWitness.dimension = "rule_coverage" /\ CoverageWitness.order = order
      /\ CoverageWitness.missing_rule_ids = missing
  BY DEF CoverageWitness
<1>2. DOMAIN observations = IdOrders /\ TypeOK
  BY EvaluationsAreTheOrders DEF IInv
<1>3. order \in IncompleteOrders /\ order \in IdOrders
  <2>1. IncompleteOrders \in SUBSET DOMAIN observations
    BY DEF IncompleteOrders
  <2> QED
    BY <1>2, <2>1, FirstCompleted
<1> HIDE DEF order
<1>4. Range(order) = RuleIds(request.policy)
  BY <1>2, <1>3, OrderFacts
<1>5. ReportedIds(observations[order]) \subseteq RuleIds(request.policy)
  BY <1>2, <1>3 DEF IInv, ResultsAccepted, Accepted, RowsAreDeclared, ReportedIds
<1>6. ReportedIds(observations[order]) # Range(order)
  BY <1>3 DEF IncompleteOrders, ParticipationComplete
<1>7. ResultOf(order) = observations[order]
  BY <1>3, EvaluationIsObserved
<1>8. missing # {} /\ missing = RuleIds(request.policy) \ ReportedIds(ResultOf(order))
  BY <1>4, <1>5, <1>6, <1>7
<1> HIDE DEF missing
<1>9. EvidenceIsTrue(CoverageWitness)
  BY <1>1, <1>8 DEF EvidenceIsTrue
<1>10. AggregateAloneNeverDecides(CoverageWitness)
  BY <1>1 DEF AggregateAloneNeverDecides
<1> QED
  BY <1>1, <1>9, <1>10

\* There is a witness of exactly what varies.
LEMMA WitnessesAreForVariance ==
    ASSUME IInv, pc = "classify"
    PROVE  /\ \A dimension \in Range(Dimensions) :
                 HasWitness(dimension) <=> dimension \in TrueVariance
           /\ IncompleteOrders # {} <=>
                 \E i \in DOMAIN trace : ReportedIds(trace[i].result) # RuleIds(request.policy)
<1>1. DOMAIN observations = IdOrders /\ TypeOK
  BY EvaluationsAreTheOrders DEF IInv
<1>2. ASSUME NEW dimension \in {"outcome", "reason_evidence"}, AdjacentHits(dimension) # {}
      PROVE  GloballyVaries(dimension)
  <2>1. PICK a \in DOMAIN observations, b \in DOMAIN observations :
            ProjectionsDiffer(dimension, observations[a], observations[b])
    BY <1>2 DEF AdjacentHits
  <2>2. CASE dimension = "outcome"
    BY <1>1, <2>1, <2>2, ScanFindsEveryDifference DEF ProjectionsDiffer, GloballyVaries
  <2>3. CASE dimension = "reason_evidence"
    BY <1>1, <2>1, <2>3, ScanFindsEveryDifference DEF ProjectionsDiffer, GloballyVaries
  <2> QED
    BY <2>2, <2>3
<1>3. \A dimension \in Range(Dimensions) : HasWitness(dimension) <=> Varies(dimension)
  BY <1>2 DEF HasWitness, Varies
<1>4. \A dimension \in Range(Dimensions) : Varies(dimension) <=> dimension \in TrueVariance
  BY VarianceIsFound
<1>5. IncompleteOrders # {} <=>
        \E order \in IdOrders : ReportedIds(observations[order]) # RuleIds(request.policy)
  <2>1. \A order \in IdOrders : Range(order) = RuleIds(request.policy)
    BY <1>1, OrderFacts
  <2> QED
    BY <1>1, <2>1 DEF IncompleteOrders, ParticipationComplete
<1>6. (\E order \in IdOrders : ReportedIds(observations[order]) # RuleIds(request.policy))
        <=> \E i \in DOMAIN trace : ReportedIds(trace[i].result) # RuleIds(request.policy)
  <2>1. /\ \A i \in DOMAIN trace : /\ trace[i].order \in IdOrders
                                   /\ trace[i].result = observations[trace[i].order]
        /\ \A order \in IdOrders : \E i \in DOMAIN trace : trace[i].result = observations[order]
    BY EvaluationsAreTheOrders
  <2> QED
    BY <2>1
<1> QED
  BY <1>3, <1>4, <1>5, <1>6

-----------------------------------------------------------------------------
(* The list of witnesses.                                                  *)

\* What the witnesses of a list are about.
Names(list) == [i \in DOMAIN list |-> list[i].dimension]

\* A list of one witness, and the empty list.
LEMMA ShortLists ==
    ASSUME NEW S, NEW witness \in S
    PROVE  /\ <<witness>> \in Seq(S) /\ << >> \in Seq(S)
           /\ Names(<<witness>>) = <<witness.dimension>> /\ Names(<< >>) = << >>
           /\ Range(<<witness>>) = {witness} /\ Range(<< >>) = {}
<1>1. <<witness>> \in Seq(S) /\ << >> \in Seq(S)
  OBVIOUS
<1>2. Names(<<witness>>) = <<witness.dimension>> /\ Names(<< >>) = << >>
  BY DEF Names
<1>3. Range(<<witness>>) = {witness} /\ Range(<< >>) = {}
  BY DEF Range
<1> QED
  BY <1>1, <1>2, <1>3

\* One list after another.
LEMMA JoinedLists ==
    ASSUME NEW S, NEW s \in Seq(S), NEW t \in Seq(S)
    PROVE  /\ s \o t \in Seq(S)
           /\ Names(s \o t) = Names(s) \o Names(t)
           /\ Range(s \o t) \subseteq Range(s) \cup Range(t)
<1> DEFINE D == {witness.dimension : witness \in S}
<1>1. s \o t \in Seq(S) /\ Len(s \o t) = Len(s) + Len(t)
  BY JoinedSequences
<1>2. /\ Len(s) \in Nat /\ Len(t) \in Nat
      /\ DOMAIN s = 1..Len(s) /\ DOMAIN t = 1..Len(t)
      /\ DOMAIN (s \o t) = 1..(Len(s) + Len(t))
  BY <1>1
<1>3. \A i \in 1..(Len(s) + Len(t)) :
         (s \o t)[i] = IF i <= Len(s) THEN s[i] ELSE t[i - Len(s)]
  OBVIOUS
<1>4. /\ \A i \in 1..Len(s) : s[i] \in S
      /\ \A i \in 1..Len(t) : t[i] \in S
  BY ElementOfSequence, <1>2
<1>5. /\ Names(s) \in Seq(D) /\ Len(Names(s)) = Len(s)
      /\ Names(t) \in Seq(D) /\ Len(Names(t)) = Len(t)
      /\ \A i \in 1..Len(s) : Names(s)[i] = s[i].dimension
      /\ \A i \in 1..Len(t) : Names(t)[i] = t[i].dimension
  <2>1. /\ Names(s) \in [1..Len(s) -> D] /\ Names(t) \in [1..Len(t) -> D]
        /\ \A i \in 1..Len(s) : Names(s)[i] = s[i].dimension
        /\ \A i \in 1..Len(t) : Names(t)[i] = t[i].dimension
    BY <1>2, <1>4 DEF Names
  <2> HIDE DEF D
  <2> QED
    BY <1>2, <2>1, FunctionIsSequence
<1>6. Names(s \o t) = Names(s) \o Names(t)
  <2> DEFINE n == Len(s) + Len(t)
             I == 1..n
             front == Names(s)
             back == Names(t)
             left == Names(s \o t)
             right == front \o back
  <2>1. /\ left \in [1..n -> D]
        /\ \A i \in 1..n : left[i] = (s \o t)[i].dimension
    <3>1. \A i \in 1..n : (s \o t)[i] \in S
      BY <1>1, <1>2, ElementOfSequence
    <3> QED
      BY <1>2, <3>1 DEF Names
  <2> HIDE DEF D
  <2>2. right \in Seq(D) /\ Len(right) = n
    <3>1. front \in Seq(D) /\ back \in Seq(D) /\ Len(front) = Len(s) /\ Len(back) = Len(t)
      BY <1>5
    <3> HIDE DEF front, back, right, n
    <3>2. front \o back \in Seq(D) /\ Len(front \o back) = Len(front) + Len(back)
      BY <3>1
    <3> QED
      BY <3>1, <3>2 DEF right, n
  <2>3. right \in [1..n -> D]
    <3> HIDE DEF right
    <3> QED
      BY <2>2
  <2>4. \A i \in 1..n :
           right[i] = IF i <= Len(s) THEN Names(s)[i] ELSE Names(t)[i - Len(s)]
    BY <1>5
  <2>5. \A i \in 1..n : left[i] = right[i]
    <3> HIDE DEF left, right
    <3> SUFFICES ASSUME NEW i \in 1..n PROVE left[i] = right[i]
      OBVIOUS
    <3>1. CASE i <= Len(s)
      <4>1. i \in 1..Len(s)
        BY <1>2, <3>1
      <4> QED
        BY <1>3, <1>5, <2>1, <2>4, <3>1, <4>1
    <3>2. CASE ~(i <= Len(s))
      <4>1. i - Len(s) \in 1..Len(t)
        BY <1>2, <3>2
      <4> QED
        BY <1>3, <1>5, <2>1, <2>4, <3>2, <4>1
    <3> QED
      BY <3>1, <3>2
  <2> HIDE DEF left, right, n
  <2>6. left \in [I -> D] /\ right \in [I -> D] /\ \A i \in I : left[i] = right[i]
    BY <2>1, <2>3, <2>5
  <2> HIDE DEF I
  <2>7. left = right
    BY <2>6, SameValuesSameFunction
  <2> QED
    BY <2>7 DEF left, right, front, back
<1>7. Range(s \o t) \subseteq Range(s) \cup Range(t)
  <2> SUFFICES ASSUME NEW i \in 1..(Len(s) + Len(t))
               PROVE  (s \o t)[i] \in Range(s) \cup Range(t)
    BY <1>2 DEF Range
  <2>1. CASE i <= Len(s)
    <3>1. i \in DOMAIN s /\ (s \o t)[i] = s[i]
      BY <1>2, <1>3, <2>1
    <3> QED
      BY <3>1 DEF Range
  <2>2. CASE ~(i <= Len(s))
    <3>1. i - Len(s) \in DOMAIN t /\ (s \o t)[i] = t[i - Len(s)]
      BY <1>2, <1>3, <2>2
    <3> QED
      BY <3>1 DEF Range
  <2> QED
    BY <2>1, <2>2
<1> QED
  BY <1>1, <1>6, <1>7

\* A witness holds what its reader needs.
IsGenuine(witness) == EvidenceIsTrue(witness) /\ AggregateAloneNeverDecides(witness)

\* One list of such witnesses after another.
LEMMA JoinedGenuine ==
    ASSUME NEW S, NEW s \in Seq(S), NEW t \in Seq(S),
           \A witness \in Range(s) : IsGenuine(witness),
           \A witness \in Range(t) : IsGenuine(witness)
    PROVE  /\ s \o t \in Seq(S)
           /\ Names(s \o t) = Names(s) \o Names(t)
           /\ \A witness \in Range(s \o t) : IsGenuine(witness)
<1> DEFINE joined == s \o t
<1>1. /\ joined \in Seq(S) /\ Names(joined) = Names(s) \o Names(t)
      /\ Range(joined) \subseteq Range(s) \cup Range(t)
  BY JoinedLists
<1> HIDE DEF joined
<1>2. \A witness \in Range(joined) : IsGenuine(witness)
  BY <1>1
<1> QED
  BY <1>1, <1>2 DEF joined

\* The witnesses that check_order_conformance lists.
LEMMA ListedWitnessesAreGenuine ==
    ASSUME IInv, Exact, pc = "classify"
    PROVE  AreGenuine(Witnesses)
<1> DEFINE Shown(dimension) == Entry(HasWitness(dimension), DimensionWitness(dimension))
           Named(dimension) == Entry(dimension \in TrueVariance, dimension)
           incomplete == \E i \in DOMAIN trace :
                            ReportedIds(trace[i].result) # RuleIds(request.policy)
           coverage == Entry(IncompleteOrders # {}, CoverageWitness)
           S == {DimensionWitness(dimension) : dimension \in Range(Dimensions)}
                  \cup {CoverageWitness}
<1>1. ASSUME NEW dimension \in Range(Dimensions)
      PROVE  /\ Shown(dimension) \in Seq(S)
             /\ Names(Shown(dimension)) = Named(dimension)
             /\ \A witness \in Range(Shown(dimension)) : IsGenuine(witness)
  <2> DEFINE witness == DimensionWitness(dimension)
  <2>1. witness \in S
    OBVIOUS
  <2>2. HasWitness(dimension) <=> dimension \in TrueVariance
    BY WitnessesAreForVariance
  <2>3. HasWitness(dimension) => witness.dimension = dimension /\ IsGenuine(witness)
    BY DimensionWitnessIsGenuine DEF IsGenuine
  <2>4. Shown(dimension) = IF HasWitness(dimension) THEN <<witness>> ELSE << >>
    BY DEF Entry
  <2>5. Named(dimension) = IF HasWitness(dimension) THEN <<dimension>> ELSE << >>
    BY <2>2 DEF Entry
  <2> HIDE DEF Shown, Named, witness, S
  <2> QED
    BY <2>1, <2>3, <2>4, <2>5, ShortLists
<1>2. /\ coverage \in Seq(S)
      /\ Names(coverage) = Entry(incomplete, "rule_coverage")
      /\ \A witness \in Range(coverage) : IsGenuine(witness)
  <2> DEFINE witness == CoverageWitness
  <2>1. witness \in S
    OBVIOUS
  <2>2. IncompleteOrders # {} <=> incomplete
    BY WitnessesAreForVariance
  <2>3. IncompleteOrders # {} => witness.dimension = "rule_coverage" /\ IsGenuine(witness)
    BY CoverageWitnessIsGenuine DEF IsGenuine
  <2>4. coverage = IF IncompleteOrders # {} THEN <<witness>> ELSE << >>
    BY DEF Entry
  <2>5. Entry(incomplete, "rule_coverage")
          = IF IncompleteOrders # {} THEN <<"rule_coverage">> ELSE << >>
    BY <2>2 DEF Entry
  <2> HIDE DEF coverage, witness, S, incomplete
  <2> QED
    BY <2>1, <2>3, <2>4, <2>5, ShortLists
<1>3. /\ "outcome" \in Range(Dimensions) /\ "reason_evidence" \in Range(Dimensions)
      /\ "participation" \in Range(Dimensions) /\ "presentation" \in Range(Dimensions)
  BY DEF Dimensions, Range
<1>4. Witnesses = Shown("outcome") \o Shown("reason_evidence") \o Shown("participation")
                    \o Shown("presentation") \o coverage
  BY DEF Witnesses
<1> DEFINE outcome == Shown("outcome")
           reason == Shown("reason_evidence")
           participation == Shown("participation")
           presentation == Shown("presentation")
           two == outcome \o reason
           three == two \o participation
           four == three \o presentation
           five == four \o coverage
<1>5. /\ outcome \in Seq(S) /\ \A witness \in Range(outcome) : IsGenuine(witness)
      /\ reason \in Seq(S) /\ \A witness \in Range(reason) : IsGenuine(witness)
      /\ participation \in Seq(S) /\ \A witness \in Range(participation) : IsGenuine(witness)
      /\ presentation \in Seq(S) /\ \A witness \in Range(presentation) : IsGenuine(witness)
  BY <1>1, <1>3
<1>6. /\ Names(outcome) = Named("outcome")
      /\ Names(reason) = Named("reason_evidence")
      /\ Names(participation) = Named("participation")
      /\ Names(presentation) = Named("presentation")
  BY <1>1, <1>3
<1> HIDE DEF outcome, reason, participation, presentation, coverage, S
<1>7. /\ two \in Seq(S) /\ \A witness \in Range(two) : IsGenuine(witness)
      /\ Names(two) = Names(outcome) \o Names(reason)
  BY <1>5, JoinedGenuine
<1> HIDE DEF two
<1>8. /\ three \in Seq(S) /\ \A witness \in Range(three) : IsGenuine(witness)
      /\ Names(three) = Names(two) \o Names(participation)
  BY <1>5, <1>7, JoinedGenuine
<1> HIDE DEF three
<1>9. /\ four \in Seq(S) /\ \A witness \in Range(four) : IsGenuine(witness)
      /\ Names(four) = Names(three) \o Names(presentation)
  BY <1>5, <1>8, JoinedGenuine
<1> HIDE DEF four
<1>10. /\ Names(five) = Names(four) \o Names(coverage)
       /\ \A witness \in Range(five) : IsGenuine(witness)
  BY <1>2, <1>9, JoinedGenuine
<1>11. Witnesses = five
  BY <1>4 DEF two, three, four, outcome, reason, participation, presentation
<1> HIDE DEF five, Named, incomplete
<1>12. Names(Witnesses)
         = Named("outcome") \o Named("reason_evidence") \o Named("participation")
             \o Named("presentation") \o Entry(incomplete, "rule_coverage")
  BY <1>2, <1>6, <1>7, <1>8, <1>9, <1>10, <1>11
<1>13. WitnessesMatchVariance(Witnesses)
  BY <1>12 DEF WitnessesMatchVariance, Names, Named, incomplete
<1>14. \A i \in DOMAIN Witnesses :
          EvidenceIsTrue(Witnesses[i]) /\ AggregateAloneNeverDecides(Witnesses[i])
  <2>1. \A i \in DOMAIN Witnesses : Witnesses[i] \in Range(Witnesses)
    BY DEF Range
  <2> QED
    BY <1>10, <1>11, <2>1 DEF IsGenuine
<1> QED
  BY <1>13, <1>14 DEF AreGenuine

\* The history does not change once the report is made.
LEMMA GenuineForGood ==
    ASSUME request' = request, trace' = trace, NEW witnesses, AreGenuine(witnesses)
    PROVE  AreGenuine(witnesses)'
<1>1. TrueVariance' = TrueVariance
  BY DEF TrueVariance, ValuesOf, ReportedIds, RowOf, Presentation
<1>2. WitnessesMatchVariance(witnesses)'
  BY <1>1 DEF AreGenuine, WitnessesMatchVariance, ReportedIds
<1>3. ASSUME NEW i \in DOMAIN witnesses
      PROVE  EvidenceIsTrue(witnesses[i])' /\ AggregateAloneNeverDecides(witnesses[i])'
  <2> DEFINE witness == witnesses[i]
  <2>1. EvidenceIsTrue(witness) /\ AggregateAloneNeverDecides(witness)
    BY DEF AreGenuine
  <2>2. \A order : ResultOf(order)' = ResultOf(order)
    BY DEF ResultOf
  <2> HIDE DEF witness
  <2>3. EndpointsDiffer(witness)' <=> EndpointsDiffer(witness)
    <3> DEFINE left == ResultOf(witness.left_order)
               right == ResultOf(witness.right_order)
    <3>1. left' = left /\ right' = right
      BY <2>2
    <3> QED
      BY <3>1 DEF EndpointsDiffer, ReportedIds, RowOf, Presentation
  <2>4. EvidenceIsTrue(witness)'
    BY <2>1, <2>2, <2>3 DEF EvidenceIsTrue
  <2>5. AggregateAloneNeverDecides(witness)'
    BY <2>1, <2>2 DEF AggregateAloneNeverDecides
  <2> QED
    BY <2>4, <2>5 DEF witness
<1> QED
  BY <1>2, <1>3 DEF AreGenuine

\* Only a report shows witnesses.
LEMMA NextGenuine ==
    IInv /\ Exact /\ WitnessesAreGenuine /\ [Next]_vars => WitnessesAreGenuine'
<1> SUFFICES ASSUME IInv, Exact, WitnessesAreGenuine, [Next]_vars PROVE WitnessesAreGenuine'
  OBVIOUS
<1>1. ASSUME pc' # "reported" PROVE WitnessesAreGenuine'
  BY <1>1 DEF WitnessesAreGenuine, Conclusive
<1>2. CASE Enter
  BY <1>1, <1>2 DEF Enter
<1>3. CASE Refuse
  BY <1>1, <1>3 DEF Refuse, Raise
<1>4. CASE RunBuiltin
  BY <1>1, <1>4 DEF RunBuiltin, RaiseBeforeAccounting, Account, Raise
<1>5. CASE CompareDiffering
  <2> DEFINE candidate == NondeterministicReport
  <2>1. candidate.mode = "incomplete" /\ Return(candidate)
    BY <1>5 DEF CompareDiffering, NondeterministicReport
  <2> HIDE DEF candidate
  <2>2. pc' = "raised" \/ report' = candidate
    BY <2>1 DEF Return, Raise
  <2> QED
    BY <2>1, <2>2 DEF WitnessesAreGenuine, Conclusive
<1>6. CASE CompleteOrder
  BY <1>1, <1>6 DEF CompleteOrder
<1>7. CASE Classify
  <2> DEFINE candidate == ExhaustiveReport
             witnesses == Witnesses
  <2>1. Return(candidate) /\ AreGenuine(witnesses)
    BY <1>7, ListedWitnessesAreGenuine DEF Classify
  <2>2. candidate.witnesses = witnesses
    BY DEF ExhaustiveReport
  <2> HIDE DEF candidate, witnesses
  <2>3. CASE pc' = "raised"
    BY <1>1, <2>3
  <2>4. CASE report' = candidate /\ request' = request /\ trace' = trace
    <3>1. (report.witnesses)' = witnesses
      BY <2>2, <2>4
    <3>2. \A list : AreGenuine(list) => AreGenuine(list)'
      BY <2>4, GenuineForGood
    <3> QED
      BY <2>1, <3>1, <3>2 DEF WitnessesAreGenuine
  <2> QED
    BY <2>1, <2>3, <2>4 DEF Return, Raise
<1>8. ASSUME NEW result \in Returns, RunEvaluator(result) PROVE WitnessesAreGenuine'
  BY <1>1, <1>8 DEF RunEvaluator, RaiseBeforeAccounting, Account, Raise
<1>9. CASE UNCHANGED vars
  <2>1. request' = request /\ trace' = trace /\ report' = report /\ pc' = pc
    BY <1>9 DEF vars
  <2>2. AreGenuine(report.witnesses) => AreGenuine(report.witnesses)'
    BY <2>1, GenuineForGood
  <2> QED
    BY <2>1, <2>2 DEF WitnessesAreGenuine, Conclusive
<1> QED
  BY <1>2, <1>3, <1>4, <1>5, <1>6, <1>7, <1>8, <1>9 DEF Next, Internal, Terminating

\* Every witness of a conclusive report can be checked by its reader, however
\* many rules there are: the two orders it shows were evaluated and their
\* results differ as it says, in a rule both report if it is about outcomes,
\* and the path it shows is a shortest one; and there is a witness of each
\* dimension that varies and of no other.
THEOREM WitnessesCanBeChecked == Spec => []WitnessesAreGenuine
<1>1. Init => WitnessesAreGenuine
  BY DEF Init, WitnessesAreGenuine, Conclusive
<1>2. IInv /\ Exact /\ WitnessesAreGenuine /\ [Next]_vars => WitnessesAreGenuine'
  BY NextGenuine
<1> QED
  BY <1>1, <1>2, ExactThroughout, PTL DEF Spec

-----------------------------------------------------------------------------
(* The work that an order check can do.                                    *)

\* What holds of 0, and of each number up to m if of the one before, holds of all.
LEMMA UpToInduction ==
    ASSUME NEW m \in Nat, NEW S, 0 \in S, \A n \in 1..m : n - 1 \in S => n \in S
    PROVE  0..m \subseteq S
<1> DEFINE Bad == {n \in 0..m : n \notin S}
<1>1. Bad = {}
  <2> SUFFICES ASSUME Bad # {} PROVE FALSE
    OBVIOUS
  <2>1. Bad \in SUBSET Nat
    OBVIOUS
  <2>2. PICK n \in Bad : \A k \in Bad : n <= k
    <3> HIDE DEF Bad
    <3> QED
      BY <2>1, LeastNatural
  <2>3. n \in 1..m /\ n - 1 \in 0..m /\ ~(n <= n - 1)
    BY <2>2
  <2>4. n - 1 \in S
    BY <2>2, <2>3
  <2> QED
    BY <2>2, <2>3, <2>4
<1> QED
  BY <1>1

\* A function into V that starts with base, each value made from the one before.
Recurs(f, V, base, m, step) ==
    f \in [0..m -> V] /\ f[0] = base /\ \A n \in 1..m : f[n] = step[<<n, f[n - 1]>>]

\* There is one.
LEMMA RecursionExists ==
    ASSUME NEW V, NEW base \in V, NEW m \in Nat, NEW step \in [(1..m) \X V -> V]
    PROVE  \E f : Recurs(f, V, base, m, step)
<1> DEFINE Follows(f, k) == /\ f \in [0..k -> V] /\ f[0] = base
                            /\ \A n \in 1..k : f[n] = step[<<n, f[n - 1]>>]
           S == {k \in 0..m : \E f : Follows(f, k)}
<1>1. 0 \in S
  <2> DEFINE f == [n \in 0..0 |-> base]
  <2>1. Follows(f, 0)
    OBVIOUS
  <2> HIDE DEF f
  <2> QED
    BY <2>1
<1>2. ASSUME NEW k \in 1..m, k - 1 \in S PROVE k \in S
  <2>1. PICK f : Follows(f, k - 1)
    BY <1>2
  <2> DEFINE g == [n \in 0..k |-> IF n = k THEN step[<<k, f[k - 1]>>] ELSE f[n]]
  <2>2. k \in Nat /\ k > 0 /\ k \in 0..k /\ \A n \in 0..k : n # k => n \in 0..(k - 1)
    BY <1>2
  <2>3. k - 1 \in 0..(k - 1) /\ k - 1 \in 0..k /\ k - 1 # k /\ 0 \in 0..k /\ 0 # k
    BY <2>2
  <2>4. step[<<k, f[k - 1]>>] \in V
    BY <2>1, <2>3
  <2>5. g \in [0..k -> V]
    <3>1. \A n \in 0..k : n # k => f[n] \in V
      BY <2>1, <2>2
    <3> QED
      BY <2>4, <3>1
  <2>6. g[k] = step[<<k, f[k - 1]>>] /\ \A n \in 0..k : n # k => g[n] = f[n]
    BY <2>2
  <2> HIDE DEF g
  <2>7. ASSUME NEW n \in 1..k PROVE g[n] = step[<<n, g[n - 1]>>]
    <3>1. CASE n = k
      BY <2>3, <2>6, <3>1
    <3>2. CASE n # k
      <4>1. n \in 1..(k - 1) /\ n \in 0..k /\ n - 1 \in 0..k /\ n - 1 # k
        BY <2>2, <3>2
      <4> QED
        BY <2>1, <2>6, <3>2, <4>1
    <3> QED
      BY <3>1, <3>2
  <2>8. Follows(g, k)
    BY <2>1, <2>3, <2>5, <2>6, <2>7
  <2>9. k \in 0..m
    BY <1>2
  <2> HIDE DEF Follows
  <2> QED
    BY <2>8, <2>9
<1> HIDE DEF S
<1>3. 0..m \subseteq S
  BY <1>1, <1>2, UpToInduction
<1>4. m \in S
  BY <1>3
<1> QED
  BY <1>4 DEF S, Recurs

\* Two functions agree at first, and at each value if at the one before.
AgreeStepwise(f, g, m) ==
    f[0] = g[0] /\ \A n \in 1..m : f[n - 1] = g[n - 1] => f[n] = g[n]

\* They are the same.
LEMMA RecursionIsUnique ==
    ASSUME NEW m \in Nat, NEW f, NEW g, AgreeStepwise(f, g, m)
    PROVE  \A n \in 0..m : f[n] = g[n]
<1> DEFINE S == {n \in 0..m : f[n] = g[n]}
<1>1. 0 \in S
  BY DEF AgreeStepwise
<1>2. ASSUME NEW n \in 1..m, n - 1 \in S PROVE n \in S
  BY <1>2 DEF AgreeStepwise
<1> HIDE DEF S
<1>3. 0..m \subseteq S
  BY <1>1, <1>2, UpToInduction
<1> QED
  BY <1>3 DEF S

\* What math.factorial computes, as a function.
IsFactorial(f, m) == f = [k \in 0..m |-> IF k = 0 THEN 1 ELSE k * f[k - 1]]

LEMMA FactorialsExist ==
    ASSUME NEW m \in Nat
    PROVE  \E f : IsFactorial(f, m) /\ f \in [0..m -> Nat]
<1> DEFINE step == [x \in (1..m) \X Nat |-> x[1] * x[2]]
<1>1. step \in [(1..m) \X Nat -> Nat] /\ \A k \in 1..m, v \in Nat : step[<<k, v>>] = k * v
  OBVIOUS
<1> HIDE DEF step
<1>2. PICK f : Recurs(f, Nat, 1, m, step)
  BY <1>1, RecursionExists, Zenon
<1>3. ASSUME NEW k \in 0..m PROVE f[k] = IF k = 0 THEN 1 ELSE k * f[k - 1]
  <2>1. CASE k = 0
    BY <1>2, <2>1 DEF Recurs
  <2>2. CASE k # 0
    <3>1. k \in 1..m /\ k - 1 \in 0..m
      BY <2>2
    <3>2. f[k - 1] \in Nat
      BY <1>2, <3>1 DEF Recurs
    <3> QED
      BY <1>1, <1>2, <2>2, <3>1, <3>2 DEF Recurs
  <2> QED
    BY <2>1, <2>2
<1>4. f = [k \in 0..m |-> f[k]] /\ f \in [0..m -> Nat]
  BY <1>2 DEF Recurs
<1>5. f = [k \in 0..m |-> IF k = 0 THEN 1 ELSE k * f[k - 1]]
  BY <1>3, <1>4
<1> QED
  BY <1>4, <1>5 DEF IsFactorial

LEMMA FactorialIsLast ==
    ASSUME NEW m \in Nat
    PROVE  \E f : IsFactorial(f, m) /\ Factorial(m) = f[m]
<1> DEFINE F == CHOOSE f : IsFactorial(f, m)
<1>1. IsFactorial(F, m)
  BY FactorialsExist
<1>2. Factorial(m) = F[m]
  BY DEF Factorial, IsFactorial
<1> QED
  BY <1>1, <1>2

\* n! from the one before.
LEMMA FactorialSteps ==
    /\ Factorial(0) = 1
    /\ \A n \in Nat : Factorial(n) \in Nat /\ Factorial(n + 1) = (n + 1) * Factorial(n)
<1>1. ASSUME NEW f, NEW m \in Nat, IsFactorial(f, m), NEW k \in 0..m
      PROVE  f[k] = IF k = 0 THEN 1 ELSE k * f[k - 1]
  BY <1>1 DEF IsFactorial
<1>2. ASSUME NEW f, NEW g, NEW m \in Nat, NEW p \in Nat, m <= p,
             IsFactorial(f, m), IsFactorial(g, p)
      PROVE  f[m] = g[m]
  <2>1. ASSUME NEW n \in 1..m, f[n - 1] = g[n - 1] PROVE f[n] = g[n]
    <3>1. n \in 0..m /\ n \in 0..p /\ n # 0
      BY <1>2
    <3> QED
      BY <1>1, <1>2, <2>1, <3>1
  <2>2. f[0] = g[0]
    <3>1. 0 \in 0..m /\ 0 \in 0..p
      BY <1>2
    <3> QED
      BY <1>1, <1>2, <3>1
  <2>3. m \in 0..m /\ AgreeStepwise(f, g, m)
    BY <2>1, <2>2 DEF AgreeStepwise
  <2> QED
    BY <2>3, RecursionIsUnique
<1>3. Factorial(0) = 1
  <2>1. 0 \in 0..0 /\ 0 \in Nat
    OBVIOUS
  <2> QED
    BY <1>1, <2>1, FactorialIsLast
<1>4. ASSUME NEW n \in Nat PROVE Factorial(n) \in Nat
  <2>1. PICK f : IsFactorial(f, n) /\ Factorial(n) = f[n]
    BY FactorialIsLast
  <2>2. PICK g : IsFactorial(g, n) /\ g \in [0..n -> Nat]
    BY FactorialsExist
  <2>3. f[n] = g[n] /\ g[n] \in Nat
    BY <1>2, <2>1, <2>2
  <2> QED
    BY <2>1, <2>3
<1>5. ASSUME NEW n \in Nat PROVE Factorial(n + 1) = (n + 1) * Factorial(n)
  <2>1. PICK f : IsFactorial(f, n) /\ Factorial(n) = f[n]
    BY FactorialIsLast
  <2>2. PICK g : IsFactorial(g, n + 1) /\ Factorial(n + 1) = g[n + 1]
    BY FactorialIsLast
  <2>3. f[n] = g[n]
    BY <1>2, <2>1, <2>2
  <2>4. n + 1 \in 0..(n + 1) /\ n + 1 # 0 /\ (n + 1) - 1 = n /\ n + 1 \in Nat
    OBVIOUS
  <2>5. g[n + 1] = (n + 1) * g[n]
    BY <1>1, <2>2, <2>4
  <2> QED
    BY <2>1, <2>2, <2>3, <2>5
<1> QED
  BY <1>3, <1>4, <1>5

\* Products grow with their factors.
LEMMA LargerFactor ==
    ASSUME NEW a \in Nat, NEW b \in Nat, NEW c \in Nat, b <= c
    PROVE  a * b <= a * c /\ b * a <= c * a
<1>1. c - b \in Nat /\ c = b + (c - b)
  OBVIOUS
<1>2. PICK d \in Nat : c = b + d
  BY <1>1
<1>3. a * c = a * b + a * d /\ c * a = b * a + d * a
  BY <1>2
<1>4. a * d \in Nat /\ d * a \in Nat /\ a * b \in Nat /\ b * a \in Nat
  OBVIOUS
<1> QED
  BY <1>3, <1>4

\* The permutations of the first n numbers.
Rearrangements(n) == {f \in [1..n -> 1..n] : IsInjective(f)}

\* What is left of one when its last value is taken out.
Squeezed(f, n) == [i \in 1..n |-> IF f[i] < f[n + 1] THEN f[i] ELSE f[i] - 1]

\* It is a permutation, and it and the last value tell which one it came from.
LEMMA SqueezedPermutation ==
    ASSUME NEW n \in Nat, NEW f \in Rearrangements(n + 1)
    PROVE  /\ Squeezed(f, n) \in Rearrangements(n) /\ f[n + 1] \in 1..(n + 1)
           /\ \A g \in Rearrangements(n + 1) :
                 g[n + 1] = f[n + 1] /\ Squeezed(g, n) = Squeezed(f, n) => g = f
<1>1. ASSUME NEW h \in Rearrangements(n + 1)
      PROVE  /\ DOMAIN h = 1..(n + 1) /\ h[n + 1] \in 1..(n + 1)
             /\ \A i \in 1..n : h[i] \in 1..(n + 1) /\ h[i] # h[n + 1]
             /\ \A i, j \in 1..(n + 1) : h[i] = h[j] => i = j
  <2>1. h \in [1..(n + 1) -> 1..(n + 1)] /\ \A i, j \in 1..(n + 1) : h[i] = h[j] => i = j
    BY DEF Rearrangements, IsInjective
  <2>2. n + 1 \in 1..(n + 1) /\ \A i \in 1..n : i \in 1..(n + 1) /\ i # n + 1
    OBVIOUS
  <2> QED
    BY <2>1, <2>2
<1>2. ASSUME NEW h \in Rearrangements(n + 1), NEW i \in 1..n
      PROVE  /\ Squeezed(h, n)[i] = IF h[i] < h[n + 1] THEN h[i] ELSE h[i] - 1
             /\ Squeezed(h, n)[i] \in 1..n
  <2>1. Squeezed(h, n)[i] = IF h[i] < h[n + 1] THEN h[i] ELSE h[i] - 1
    BY DEF Squeezed
  <2>2. h[i] \in 1..(n + 1) /\ h[n + 1] \in 1..(n + 1) /\ h[i] # h[n + 1]
    BY <1>1
  <2> QED
    BY <2>1, <2>2
<1>3. Squeezed(f, n) \in [1..n -> 1..n]
  BY <1>2 DEF Squeezed
<1>4. ASSUME NEW i \in 1..n, NEW j \in 1..n, Squeezed(f, n)[i] = Squeezed(f, n)[j] PROVE i = j
  <2>1. /\ f[i] \in 1..(n + 1) /\ f[j] \in 1..(n + 1) /\ f[n + 1] \in 1..(n + 1)
        /\ f[i] # f[n + 1] /\ f[j] # f[n + 1] /\ (f[i] = f[j] => i = j)
    BY <1>1
  <2>2. f[i] = f[j]
    BY <1>2, <1>4, <2>1
  <2> QED
    BY <2>1, <2>2
<1>5. Squeezed(f, n) \in Rearrangements(n)
  BY <1>3, <1>4 DEF Rearrangements, IsInjective
<1>6. ASSUME NEW g \in Rearrangements(n + 1), g[n + 1] = f[n + 1], Squeezed(g, n) = Squeezed(f, n)
      PROVE  g = f
  <2>1. ASSUME NEW i \in 1..(n + 1) PROVE g[i] = f[i]
    <3>1. CASE i = n + 1
      BY <1>6, <3>1
    <3>2. CASE i # n + 1
      <4>1. i \in 1..n
        BY <3>2
      <4>2. /\ f[i] \in 1..(n + 1) /\ g[i] \in 1..(n + 1) /\ f[n + 1] \in 1..(n + 1)
            /\ f[i] # f[n + 1] /\ g[i] # f[n + 1]
        BY <1>1, <1>6, <4>1
      <4>3. (IF f[i] < f[n + 1] THEN f[i] ELSE f[i] - 1)
              = (IF g[i] < f[n + 1] THEN g[i] ELSE g[i] - 1)
        BY <1>2, <1>6, <4>1
      <4> QED
        BY <4>2, <4>3
    <3> QED
      BY <3>1, <3>2
  <2>2. f \in [1..(n + 1) -> 1..(n + 1)] /\ g \in [1..(n + 1) -> 1..(n + 1)]
    BY DEF Rearrangements
  <2> QED
    BY <2>1, <2>2, SameValuesSameFunction
<1> QED
  BY <1>1, <1>5, <1>6

\* There are no more than n! of them.
LEMMA RearrangementsAreCounted ==
    ASSUME NEW n \in Nat
    PROVE  IsFiniteSet(Rearrangements(n)) /\ Cardinality(Rearrangements(n)) <= Factorial(n)
<1> DEFINE Counted(m) == IsFiniteSet(Rearrangements(m)) /\ Cardinality(Rearrangements(m)) <= Factorial(m)
           Bad == {m \in Nat : ~Counted(m)}
<1>1. Counted(0)
  <2> DEFINE empty == [i \in 1..0 |-> 0]
  <2>1. Rearrangements(0) \in SUBSET {empty}
    <3>1. \A f \in [1..0 -> 1..0] : f = empty
      BY SMT
    <3> QED
      BY <3>1 DEF Rearrangements
  <2>2. IsFiniteSet({empty}) /\ Cardinality({empty}) = 1
    BY FS_Singleton
  <2> HIDE DEF empty
  <2> QED
    BY <2>1, <2>2, FS_Subset, FactorialSteps
<1>2. ASSUME NEW m \in Nat, Counted(m) PROVE Counted(m + 1)
  <2> DEFINE S == Rearrangements(m + 1)
             T == (1..(m + 1)) \X Rearrangements(m)
             F == [f \in S |-> <<f[m + 1], Squeezed(f, m)>>]
  <2>1. \A f \in S : f[m + 1] \in 1..(m + 1) /\ Squeezed(f, m) \in Rearrangements(m)
    BY SqueezedPermutation
  <2>2. F \in [S -> T]
    <3> HIDE DEF S
    <3> QED
      BY <2>1
  <2>3. ASSUME NEW f \in S, NEW g \in S, F[f] = F[g] PROVE f = g
    <3>1. f[m + 1] = g[m + 1] /\ Squeezed(f, m) = Squeezed(g, m)
      <4> HIDE DEF S
      <4> QED
        BY <2>3
    <3> QED
      BY <3>1, SqueezedPermutation
  <2>4. F \in Injection(S, T)
    <3> HIDE DEF S, T, F
    <3>1. DOMAIN F = S
      BY <2>2
    <3> QED
      BY <2>2, <2>3, <3>1 DEF Injection, IsInjective
  <2>5. /\ IsFiniteSet(1..(m + 1)) /\ Cardinality(1..(m + 1)) = m + 1
        /\ IsFiniteSet(T) /\ Cardinality(T) = (m + 1) * Cardinality(Rearrangements(m))
    <3>1. IsFiniteSet(1..(m + 1)) /\ Cardinality(1..(m + 1)) = m + 1
      BY FS_Interval
    <3> QED
      BY <1>2, <3>1, FS_Product
  <2>6. IsFiniteSet(S) /\ Cardinality(S) <= Cardinality(T)
    <3> HIDE DEF S, T, F
    <3> QED
      BY <2>4, <2>5, FS_Injection
  <2> DEFINE c == Cardinality(Rearrangements(m))
  <2>7. c \in Nat /\ c <= Factorial(m) /\ Factorial(m) \in Nat /\ m + 1 \in Nat
    BY <1>2, FS_CardinalityType, FactorialSteps
  <2>8. Cardinality(S) \in Nat /\ Cardinality(T) \in Nat /\ Cardinality(T) = (m + 1) * c
    BY <2>5, <2>6, FS_CardinalityType
  <2> HIDE DEF c, S, T
  <2>9. (m + 1) * c <= (m + 1) * Factorial(m) /\ (m + 1) * Factorial(m) = Factorial(m + 1)
    BY <2>7, LargerFactor, FactorialSteps
  <2>10. Factorial(m + 1) \in Nat
    BY <2>7, FactorialSteps
  <2>11. Cardinality(S) <= Factorial(m + 1)
    BY <2>6, <2>8, <2>9, <2>10
  <2> QED
    BY <2>6, <2>11 DEF S
<1>3. Bad = {}
  <2> SUFFICES ASSUME Bad # {} PROVE FALSE
    OBVIOUS
  <2> HIDE DEF Counted
  <2>1. Bad \in SUBSET Nat
    OBVIOUS
  <2>2. PICK m \in Bad : \A k \in Bad : m <= k
    <3> HIDE DEF Bad
    <3> QED
      BY <2>1, LeastNatural
  <2>3. m # 0 /\ m \in Nat
    BY <1>1, <2>2
  <2>4. m - 1 \in Nat /\ ~(m <= m - 1) /\ (m - 1) + 1 = m
    BY <2>3
  <2>5. Counted(m - 1)
    BY <2>2, <2>4
  <2>6. Counted((m - 1) + 1)
    BY <1>2, <2>4, <2>5
  <2> QED
    BY <2>2, <2>4, <2>6
<1> QED
  BY <1>3

\* So are the orders of a policy.
LEMMA OrdersAreCounted ==
    ASSUME TypeOK
    PROVE  IsFiniteSet(IdOrders) /\ Cardinality(IdOrders) <= Factorial(Len(request.policy))
<1> DEFINE n == Len(request.policy)
           policy == request.policy
           T == Rearrangements(n)
           F == [order \in IdOrders |-> [i \in 1..n |-> Position(policy, order[i])]]
<1>1. n \in Nat /\ DOMAIN policy = 1..n /\ policy \in Seq(Nat)
  BY RequestFacts
<1> HIDE DEF n, policy
<1>2. \A id \in RuleIds(policy) : Position(policy, id) \in 1..n /\ policy[Position(policy, id)] = id
  BY <1>1, PositionType
<1>3. \A order \in IdOrders : \A i \in 1..n : order[i] \in RuleIds(policy)
  BY OrderFacts DEF policy, n
<1>4. ASSUME NEW order \in IdOrders, NEW i \in 1..n
      PROVE  F[order][i] \in 1..n /\ policy[F[order][i]] = order[i]
  BY <1>2, <1>3
<1>5. ASSUME NEW order \in IdOrders PROVE F[order] \in T
  <2>1. F[order] \in [1..n -> 1..n]
    BY <1>2, <1>3
  <2>2. ASSUME NEW i \in 1..n, NEW j \in 1..n, F[order][i] = F[order][j] PROVE i = j
    <3>1. order[i] = order[j]
      <4> HIDE DEF F
      <4> QED
        BY <1>4, <2>2
    <3> QED
      BY <3>1, OrderFacts DEF n
  <2> HIDE DEF F
  <2> QED
    BY <2>1, <2>2 DEF Rearrangements, IsInjective
<1>6. ASSUME NEW a \in IdOrders, NEW b \in IdOrders, F[a] = F[b] PROVE a = b
  <2>1. \A i \in 1..n : a[i] = b[i]
    <3> HIDE DEF F
    <3> QED
      BY <1>4, <1>6
  <2> DEFINE I == 1..n
             V == RuleIds(policy)
  <2>2. a \in [I -> V] /\ b \in [I -> V]
    BY OrderFacts DEF n, policy
  <2>3. \A i \in I : a[i] = b[i]
    BY <2>1
  <2> HIDE DEF I, V
  <2> QED
    BY <2>2, <2>3, SameValuesSameFunction
<1>7. F \in Injection(IdOrders, T)
  <2>1. DOMAIN F = IdOrders /\ F = [order \in IdOrders |-> F[order]]
    OBVIOUS
  <2> HIDE DEF F, T
  <2>2. F \in [IdOrders -> T]
    BY <1>5, <2>1
  <2> QED
    BY <1>6, <2>1, <2>2 DEF Injection, IsInjective
<1>8. IsFiniteSet(T) /\ Cardinality(T) <= Factorial(n)
  BY <1>1, RearrangementsAreCounted
<1> HIDE DEF F, T
<1>9. IsFiniteSet(IdOrders) /\ Cardinality(IdOrders) <= Cardinality(T)
  BY <1>7, <1>8, FS_Injection
<1>10. Cardinality(IdOrders) \in Nat /\ Cardinality(T) \in Nat /\ Factorial(n) \in Nat
  BY <1>1, <1>8, <1>9, FS_CardinalityType, FactorialSteps
<1>11. Cardinality(IdOrders) <= Factorial(n)
  BY <1>8, <1>9, <1>10
<1> QED
  BY <1>9, <1>11 DEF n

\* What OutputBytes adds up, as a function.
IsOutputSum(f, runs) ==
    f = [n \in 0..Len(runs) |-> IF n = 0 THEN 0 ELSE f[n - 1] + runs[n].result.bytes]

LEMMA OutputSumsExist ==
    ASSUME NEW S, NEW runs \in Seq(S), \A run \in S : run.result.bytes \in Nat
    PROVE  \E f : IsOutputSum(f, runs) /\ f \in [0..Len(runs) -> Nat]
<1> DEFINE m == Len(runs)
           size(k) == runs[k].result.bytes
           step == [x \in (1..m) \X Nat |-> x[2] + size(x[1])]
<1>1. m \in Nat /\ \A k \in 1..m : size(k) \in Nat
  <2>1. m \in Nat /\ \A k \in 1..m : runs[k] \in S
    OBVIOUS
  <2> QED
    BY <2>1
<1> HIDE DEF m, size
<1>2. step \in [(1..m) \X Nat -> Nat] /\ \A k \in 1..m, v \in Nat : step[<<k, v>>] = v + size(k)
  BY <1>1
<1> HIDE DEF step
<1>3. PICK f : Recurs(f, Nat, 0, m, step)
  BY <1>1, <1>2, RecursionExists, Zenon
<1>4. ASSUME NEW k \in 0..m PROVE f[k] = IF k = 0 THEN 0 ELSE f[k - 1] + size(k)
  <2>1. CASE k = 0
    BY <1>3, <2>1 DEF Recurs
  <2>2. CASE k # 0
    <3>1. k \in 1..m /\ k - 1 \in 0..m
      BY <2>2, <1>1
    <3>2. f[k - 1] \in Nat
      BY <1>3, <3>1 DEF Recurs
    <3> QED
      BY <1>2, <1>3, <2>2, <3>1, <3>2 DEF Recurs
  <2> QED
    BY <2>1, <2>2
<1>5. f = [k \in 0..m |-> f[k]] /\ f \in [0..m -> Nat]
  BY <1>3 DEF Recurs
<1>6. f = [k \in 0..m |-> IF k = 0 THEN 0 ELSE f[k - 1] + size(k)]
  BY <1>4, <1>5
<1> QED
  BY <1>5, <1>6 DEF IsOutputSum, m, size

LEMMA OutputIsLast ==
    ASSUME NEW S, NEW runs \in Seq(S), \A run \in S : run.result.bytes \in Nat
    PROVE  \E f : IsOutputSum(f, runs) /\ OutputBytes(runs) = f[Len(runs)]
<1> DEFINE F == CHOOSE f : IsOutputSum(f, runs)
<1>1. IsOutputSum(F, runs)
  BY OutputSumsExist
<1>2. OutputBytes(runs) = F[Len(runs)]
  BY DEF OutputBytes, IsOutputSum
<1> QED
  BY <1>1, <1>2

\* Two sums agree as far as what they add up does.
LEMMA OutputSumsAgree ==
    ASSUME NEW f, NEW g, NEW runs, NEW more, NEW m \in Nat,
           IsOutputSum(f, runs), IsOutputSum(g, more),
           Len(runs) \in Nat, Len(more) \in Nat, m <= Len(runs), m <= Len(more),
           \A k \in 1..m : runs[k] = more[k]
    PROVE  f[m] = g[m]
<1>1. ASSUME NEW n \in 1..m, f[n - 1] = g[n - 1] PROVE f[n] = g[n]
  <2>1. n \in 0..Len(runs) /\ n \in 0..Len(more) /\ n # 0
    OBVIOUS
  <2>2. f[n] = f[n - 1] + runs[n].result.bytes /\ g[n] = g[n - 1] + more[n].result.bytes
    BY <2>1 DEF IsOutputSum
  <2> QED
    BY <1>1, <2>2
<1>2. f[0] = g[0]
  <2>1. 0 \in 0..Len(runs) /\ 0 \in 0..Len(more)
    OBVIOUS
  <2> QED
    BY <2>1 DEF IsOutputSum
<1>3. m \in 0..m /\ AgreeStepwise(f, g, m)
  BY <1>1, <1>2 DEF AgreeStepwise
<1> QED
  BY <1>3, RecursionIsUnique

\* The output of one evaluation more.
LEMMA OutputGrows ==
    ASSUME NEW S, \A run \in S : run.result.bytes \in Nat
    PROVE  /\ OutputBytes(<< >>) = 0
           /\ \A runs \in Seq(S) :
                 /\ OutputBytes(runs) \in Nat
                 /\ \A run \in S :
                       OutputBytes(Append(runs, run)) = OutputBytes(runs) + run.result.bytes
<1>1. OutputBytes(<< >>) = 0
  <2>1. << >> \in Seq(S) /\ Len(<< >>) = 0 /\ 0 \in 0..Len(<< >>)
    OBVIOUS
  <2>2. PICK f : IsOutputSum(f, << >>) /\ OutputBytes(<< >>) = f[Len(<< >>)]
    BY <2>1, OutputIsLast
  <2> QED
    BY <2>1, <2>2 DEF IsOutputSum
<1>2. ASSUME NEW runs \in Seq(S) PROVE OutputBytes(runs) \in Nat
  <2>1. PICK f : IsOutputSum(f, runs) /\ OutputBytes(runs) = f[Len(runs)]
    BY OutputIsLast
  <2>2. PICK g : IsOutputSum(g, runs) /\ g \in [0..Len(runs) -> Nat]
    BY OutputSumsExist
  <2>3. Len(runs) \in Nat /\ Len(runs) \in 0..Len(runs) /\ Len(runs) <= Len(runs)
    OBVIOUS
  <2>4. f[Len(runs)] = g[Len(runs)]
    BY <2>1, <2>2, <2>3, OutputSumsAgree
  <2> QED
    BY <2>1, <2>2, <2>3, <2>4
<1>3. ASSUME NEW runs \in Seq(S), NEW run \in S
      PROVE  OutputBytes(Append(runs, run)) = OutputBytes(runs) + run.result.bytes
  <2> DEFINE more == Append(runs, run)
             n == Len(runs)
  <2>1. /\ more \in Seq(S) /\ n \in Nat /\ Len(more) = n + 1 /\ more[n + 1] = run
        /\ \A k \in 1..n : runs[k] = more[k]
    OBVIOUS
  <2> HIDE DEF more
  <2>2. PICK f : IsOutputSum(f, runs) /\ OutputBytes(runs) = f[Len(runs)]
    BY OutputIsLast
  <2>3. PICK g : IsOutputSum(g, more) /\ OutputBytes(more) = g[Len(more)]
    BY <2>1, OutputIsLast
  <2>4. f[n] = g[n]
    <3>1. n <= Len(runs) /\ n <= Len(more) /\ Len(more) \in Nat
      BY <2>1
    <3> QED
      BY <2>1, <2>2, <2>3, <3>1, OutputSumsAgree
  <2>5. n + 1 \in 0..Len(more) /\ n + 1 # 0 /\ (n + 1) - 1 = n
    BY <2>1
  <2>6. g[n + 1] = g[n] + more[n + 1].result.bytes
    BY <2>3, <2>5 DEF IsOutputSum
  <2>7. OutputBytes(more) = OutputBytes(runs) + run.result.bytes
    BY <2>1, <2>2, <2>3, <2>4, <2>6
  <2> QED
    BY <2>7 DEF more
<1> QED
  BY <1>1, <1>2, <1>3

-----------------------------------------------------------------------------
(* The work charged is the work done, and it is bounded.                   *)

\* The evaluations made are those of the completed orders and of the one in
\* progress, and are all charged.
WorkIsCounted ==
    /\ evaluator_runs = Len(trace)
    /\ observed_result_bytes = OutputBytes(trace)
    /\ Len(trace) <= total_planned_runs
    /\ Working =>
          Len(trace) = Cardinality(DOMAIN observations) * ORDER_REPEATS + Len(repeats)

WorkIsCharged ==
    /\ charged_work_bytes <=
          MAX_EXHAUSTIVE_WORK_BYTES + serialized_input_bytes + MAX_EVALUATOR_RESULT_BYTES
    /\ pc # "raised" => charged_work_bytes <= MAX_EXHAUSTIVE_WORK_BYTES
    /\ pc = "reported" => report.charged_work_bytes = charged_work_bytes

\* The built-in evaluator gives the same result whenever it is asked the same.
BuiltinIsKnown ==
    request.evaluator = "builtin" =>
        /\ observed_result_bytes = Len(trace) * BuiltinResultBytes
        /\ \A order \in DOMAIN observations : observations[order] = BuiltinResult(order)
        /\ Working => \A i \in DOMAIN repeats : repeats[i] = BuiltinResult(CurrentOrder)

WorkInv ==
    /\ WorkIsCounted
    /\ WorkIsCharged
    /\ BuiltinIsKnown
    /\ BuiltinFitsTheBudgets => pc # "raised"

LEMMA WorkInvMeansBounded == ASSUME WorkInv PROVE WorkIsBounded
BY DEF WorkInv, WorkIsCounted, WorkIsCharged, WorkIsBounded, charged_work_bytes

\* check_order_conformance starts with no work done.
LEMMA InitWork == Init => WorkInv
<1> SUFFICES ASSUME Init PROVE WorkInv
  OBVIOUS
<1>1. TypeOK
  BY InitIInv DEF IInv
<1>2. /\ trace = << >> /\ Len(trace) = 0 /\ DOMAIN observations = {} /\ DOMAIN repeats = {}
      /\ Len(repeats) = 0 /\ evaluator_runs = 0 /\ observed_result_bytes = 0 /\ pc = "enter"
  BY DEF Init
<1>3. OutputBytes(trace) = 0
  <2>1. \A run \in {} : run.result.bytes \in Nat
    OBVIOUS
  <2> QED
    BY <1>2, <2>1, OutputGrows
<1>4. serialized_input_bytes \in Nat /\ total_planned_runs \in Nat /\ ORDER_REPEATS \in Nat
  <2>1. Len(request.policy) \in Nat
    BY <1>1, RequestFacts
  <2>2. Factorial(Len(request.policy)) \in Nat
    BY <2>1, FactorialSteps
  <2> QED
    BY <1>1, <2>2, RequestFacts, BoundsAssumption DEF total_planned_runs
<1>5. charged_work_bytes = 0
  BY <1>2, <1>4 DEF charged_work_bytes
<1>6. Cardinality({}) = 0
  BY FS_EmptySet
<1>7. WorkIsCounted
  BY <1>2, <1>3, <1>4, <1>6 DEF WorkIsCounted
<1>8. WorkIsCharged
  BY <1>2, <1>4, <1>5, BoundsAssumption DEF WorkIsCharged
<1>9. BuiltinIsKnown
  BY <1>2, BoundsAssumption DEF BuiltinIsKnown
<1> QED
  BY <1>2, <1>7, <1>8, <1>9 DEF WorkInv

\* While the orders are evaluated, another evaluation is within the plan: no
\* more than n! - 1 orders are completed, and the one in progress is not.
LEMMA OneMoreIsPlanned ==
    ASSUME IInv, WorkInv, pc = "evaluate"
    PROVE  Len(trace) + 1 <= total_planned_runs
<1> DEFINE done == Cardinality(DOMAIN observations)
           all == Factorial(Len(request.policy))
<1>1. TypeOK /\ DOMAIN observations # IdOrders /\ Len(repeats) < ORDER_REPEATS
  BY DEF IInv, LoopPosition
<1>2. IsFiniteSet(IdOrders) /\ Cardinality(IdOrders) <= all
  BY <1>1, OrdersAreCounted
<1>3. all \in Nat
  <2>1. Len(request.policy) \in Nat
    BY <1>1, RequestFacts
  <2> QED
    BY <2>1, FactorialSteps
<1>4. /\ DOMAIN observations \subseteq IdOrders
      /\ Cardinality(DOMAIN observations) \in Nat /\ Cardinality(IdOrders) \in Nat
      /\ Cardinality(DOMAIN observations) < Cardinality(IdOrders)
  <2>1. DOMAIN observations \subseteq IdOrders /\ IsFiniteSet(DOMAIN observations)
    BY <1>1 DEF TypeOK, IInv, LoopPosition
  <2>2. Cardinality(DOMAIN observations) \in Nat /\ Cardinality(IdOrders) \in Nat
    BY <1>2, <2>1, FS_CardinalityType
  <2>3. /\ Cardinality(DOMAIN observations) <= Cardinality(IdOrders)
        /\ Cardinality(DOMAIN observations) = Cardinality(IdOrders)
             => DOMAIN observations = IdOrders
    BY <1>2, <2>1, FS_Subset
  <2> QED
    BY <1>1, <2>1, <2>2, <2>3
<1>5. ORDER_REPEATS \in Nat /\ Len(repeats) \in Nat
  BY <1>1, BoundsAssumption DEF TypeOK
<1>6. Len(trace) = done * ORDER_REPEATS + Len(repeats)
  BY DEF WorkInv, WorkIsCounted, Working
<1>7. done \in Nat /\ done + 1 <= all
  BY <1>2, <1>3, <1>4
<1> HIDE DEF done, all
<1>8. /\ (done + 1) * ORDER_REPEATS <= all * ORDER_REPEATS
      /\ (done + 1) * ORDER_REPEATS = done * ORDER_REPEATS + ORDER_REPEATS
  BY <1>3, <1>5, <1>7, LargerFactor
<1>9. done * ORDER_REPEATS \in Nat /\ all * ORDER_REPEATS \in Nat
  BY <1>3, <1>5, <1>7
<1> QED
  BY <1>1, <1>5, <1>6, <1>8, <1>9 DEF total_planned_runs, all

\* What the built-in evaluator says of a rule, it says in every order.
LEMMA BuiltinRows ==
    ASSUME TypeOK, NEW order \in IdOrders
    PROVE  /\ ReportedIds(BuiltinResult(order)) = RuleIds(request.policy)
           /\ \A id \in RuleIds(request.policy) :
                 /\ RowOf(BuiltinResult(order), id).passed = request.verdict[id].passed
                 /\ RowOf(BuiltinResult(order), id).reason_code = request.verdict[id].reason_code
<1> DEFINE result == BuiltinResult(order)
<1>1. /\ DOMAIN result.rows = DOMAIN order
      /\ \A i \in DOMAIN order :
            /\ result.rows[i].rule_id = order[i]
            /\ result.rows[i].passed = request.verdict[order[i]].passed
            /\ result.rows[i].reason_code = request.verdict[order[i]].reason_code
  BY DEF BuiltinResult
<1> HIDE DEF result
<1>2. Range(order) = RuleIds(request.policy)
  BY OrderFacts
<1>3. ReportedIds(result) = RuleIds(request.policy)
  <2>1. \A id : id \in ReportedIds(result) <=> \E i \in DOMAIN order : id = order[i]
    BY <1>1 DEF ReportedIds, Range
  <2> QED
    BY <1>2, <2>1 DEF Range
<1>4. ASSUME NEW id \in RuleIds(request.policy)
      PROVE  /\ RowOf(result, id).passed = request.verdict[id].passed
             /\ RowOf(result, id).reason_code = request.verdict[id].reason_code
  <2>1. \E row \in Range(result.rows) : row.rule_id = id
    BY <1>3 DEF ReportedIds
  <2>2. RowOf(result, id) \in Range(result.rows) /\ RowOf(result, id).rule_id = id
    BY <2>1 DEF RowOf
  <2>3. PICK i \in DOMAIN order : result.rows[i] = RowOf(result, id)
    BY <1>1, <2>2 DEF Range
  <2> QED
    BY <1>1, <2>2, <2>3
<1> QED
  BY <1>3, <1>4 DEF result

\* Nothing but the presentation varies with it, so there is at most one witness.
LEMMA BuiltinNeedsOneWitness ==
    ASSUME IInv, BuiltinIsKnown, pc = "classify", request.evaluator = "builtin"
    PROVE  Len(Witnesses) \in {0, 1}
<1>1. TypeOK /\ DOMAIN observations = IdOrders
  BY DEF IInv, LoopPosition
<1>2. ASSUME NEW order \in IdOrders
      PROVE  /\ observations[order] = BuiltinResult(order)
             /\ ReportedIds(observations[order]) = RuleIds(request.policy)
             /\ \A id \in RuleIds(request.policy) :
                   /\ RowOf(observations[order], id).passed = request.verdict[id].passed
                   /\ RowOf(observations[order], id).reason_code
                        = request.verdict[id].reason_code
             /\ Range(order) = RuleIds(request.policy)
  <2>1. observations[order] = BuiltinResult(order)
    BY <1>1 DEF BuiltinIsKnown
  <2> QED
    BY <1>1, <2>1, BuiltinRows, OrderFacts
<1>3. \A a, b \in IdOrders : observations[a].passed = observations[b].passed
  <2> DEFINE passed == \A id \in RuleIds(request.policy) : request.verdict[id].passed
  <2>1. \A order \in IdOrders : BuiltinResult(order).passed = passed
    BY DEF BuiltinResult
  <2> HIDE DEF passed
  <2> QED
    BY <1>2, <2>1, Zenon
<1>4. PassHits = {} /\ ReasonHits = {} /\ AggregateHits = {}
  BY <1>1, <1>2, <1>3, ScanFindsEveryDifference
<1>5. AdjacentHits("participation") = {}
  BY <1>1, <1>2, NeighboursShowEveryDifference
<1>6. ~Varies("outcome") /\ ~Varies("reason_evidence") /\ ~Varies("participation")
  BY <1>4, <1>5 DEF Varies, GloballyVaries
<1>7. ~HasWitness("outcome") /\ ~HasWitness("reason_evidence") /\ ~HasWitness("participation")
  <2>1. {"outcome", "reason_evidence", "participation"} \subseteq Range(Dimensions)
    BY DEF Range, Dimensions
  <2>2. \A dimension \in Range(Dimensions) : HasWitness(dimension) <=> dimension \in TrueVariance
    BY WitnessesAreForVariance
  <2>3. \A dimension \in Range(Dimensions) : Varies(dimension) <=> dimension \in TrueVariance
    BY VarianceIsFound
  <2> QED
    BY <1>6, <2>1, <2>2, <2>3
<1>8. IncompleteOrders = {}
  BY <1>1, <1>2 DEF IncompleteOrders, ParticipationComplete
<1> DEFINE w == DimensionWitness("presentation")
<1>9. Witnesses = << >> \o << >> \o << >> \o Entry(HasWitness("presentation"), w) \o << >>
  BY <1>7, <1>8 DEF Witnesses, Entry
<1> HIDE DEF w
<1>10. CASE HasWitness("presentation")
  <2>1. Witnesses = << >> \o << >> \o << >> \o <<w>> \o << >>
    BY <1>9, <1>10 DEF Entry
  <2> QED
    BY <2>1
<1>11. CASE ~HasWitness("presentation")
  <2>1. Witnesses = << >> \o << >> \o << >> \o << >> \o << >>
    BY <1>9, <1>11 DEF Entry
  <2> QED
    BY <2>1
<1> QED
  BY <1>10, <1>11

\* Nothing but the step differs: the work stays what it was.
LEMMA WorkIsKept ==
    ASSUME WorkInv,
           UNCHANGED <<request, evaluator_runs, observed_result_bytes, trace>>
    PROVE  /\ charged_work_bytes' = charged_work_bytes
           /\ serialized_input_bytes' = serialized_input_bytes
           /\ total_planned_runs' = total_planned_runs
           /\ OutputBytes(trace)' = OutputBytes(trace)
           /\ BuiltinFitsTheBudgets' = BuiltinFitsTheBudgets
           /\ \A order : BuiltinResult(order)' = BuiltinResult(order)
<1>1. /\ serialized_input_bytes' = serialized_input_bytes
      /\ total_planned_runs' = total_planned_runs
      /\ OutputBytes(trace)' = OutputBytes(trace)
  BY DEF serialized_input_bytes, total_planned_runs, OutputBytes
<1>2. charged_work_bytes' = charged_work_bytes
  BY <1>1 DEF charged_work_bytes
<1>3. BuiltinFitsTheBudgets' = BuiltinFitsTheBudgets
  BY DEF BuiltinFitsTheBudgets, EntryFault, total_planned_runs, serialized_input_bytes,
         estimated_work_bytes, Factorial
<1>4. \A order : BuiltinResult(order)' = BuiltinResult(order)
  BY DEF BuiltinResult
<1> QED
  BY <1>1, <1>2, <1>3, <1>4

\* An exception that was not due to the built-in evaluator's own work.
LEMMA RaiseKeepsWork ==
    ASSUME IInv, WorkInv, NEW code, Raise(code), ~BuiltinFitsTheBudgets,
           UNCHANGED <<evaluator_runs, observed_result_bytes, trace>>
    PROVE  WorkInv'
<1>1. /\ pc' = "raised" /\ UNCHANGED <<request, repeats, observations, report>>
      /\ UNCHANGED <<request, evaluator_runs, observed_result_bytes, trace>>
  BY DEF Raise
<1>2. WorkIsCounted'
  BY <1>1, WorkIsKept DEF WorkInv, WorkIsCounted, Working
<1>3. WorkIsCharged'
  BY <1>1, WorkIsKept DEF WorkInv, WorkIsCharged
<1>4. BuiltinIsKnown'
  BY <1>1, WorkIsKept DEF WorkInv, BuiltinIsKnown, Working
<1> QED
  BY <1>1, <1>2, <1>3, <1>4, WorkIsKept DEF WorkInv

\* Of the built-in evaluator there is work enough for the whole plan.
LEMMA BuiltinWorkFits ==
    ASSUME IInv, WorkInv, BuiltinFitsTheBudgets, NEW n \in Nat, n <= total_planned_runs
    PROVE  n * serialized_input_bytes + n * BuiltinResultBytes <= MAX_EXHAUSTIVE_WORK_BYTES
<1>1. /\ serialized_input_bytes \in Nat /\ BuiltinResultBytes \in Nat
      /\ MAX_EXHAUSTIVE_WORK_BYTES \in Nat
  BY RequestFacts, BoundsAssumption DEF IInv
<1>2. total_planned_runs \in Nat
  <2>1. Len(request.policy) \in Nat
    BY RequestFacts DEF IInv
  <2>2. Factorial(Len(request.policy)) \in Nat
    BY <2>1, FactorialSteps
  <2> QED
    BY <2>2, BoundsAssumption DEF total_planned_runs
<1> DEFINE unit == serialized_input_bytes + BuiltinResultBytes
<1>3. unit \in Nat /\ n * unit = n * serialized_input_bytes + n * BuiltinResultBytes
  BY <1>1
<1>4. total_planned_runs * unit <= MAX_EXHAUSTIVE_WORK_BYTES
  BY DEF BuiltinFitsTheBudgets
<1> HIDE DEF unit
<1>5. n * unit <= total_planned_runs * unit
  BY <1>2, <1>3, LargerFactor
<1>6. n * unit \in Nat /\ total_planned_runs * unit \in Nat
  BY <1>2, <1>3
<1> QED
  BY <1>1, <1>3, <1>4, <1>5, <1>6

\* One evaluation more is charged, and only the last may overrun the budget.
LEMMA AccountKeepsWork ==
    ASSUME IInv, WorkInv, pc = "evaluate", NEW result \in Result,
           result.bytes <= MAX_EVALUATOR_RESULT_BYTES,
           request.evaluator = "builtin" => result = BuiltinResult(CurrentOrder),
           Account(result)
    PROVE  WorkInv'
<1> DEFINE entry == [order |-> CurrentOrder, result |-> result]
           input == serialized_input_bytes
           S == [order : IdOrders, result : Result]
<1>1. /\ evaluator_runs' = evaluator_runs + 1
      /\ observed_result_bytes' = observed_result_bytes + result.bytes
      /\ trace' = Append(trace, entry)
      /\ result.bytes \in Nat
  BY DEF Account, Result
<1>2. /\ request' = request /\ observations' = observations /\ report' = report
      /\ \/ pc' = "raised" /\ repeats' = repeats
         \/ /\ repeats' = Append(repeats, result) /\ pc' \in {"compare", "evaluate"}
            /\ ~(charged_work_bytes + input + result.bytes > MAX_EXHAUSTIVE_WORK_BYTES)
      /\ pc' = "raised" => charged_work_bytes + input + result.bytes > MAX_EXHAUSTIVE_WORK_BYTES
  BY DEF Account, Raise
<1>3. entry \in S /\ CurrentOrder \in IdOrders
  BY CurrentOrderIsLeft DEF IInv, LoopPosition
<1>4. /\ trace \in Seq(S) /\ Len(trace) \in Nat /\ Len(trace') = Len(trace) + 1
      /\ \A run \in S : run.result.bytes \in Nat
  <2>1. trace \in Seq(S)
    BY DEF IInv, TypeOK
  <2>2. \A run \in S : run.result.bytes \in Nat
    BY DEF Result
  <2> HIDE DEF S, entry
  <2> QED
    BY <1>1, <1>3, <2>1, <2>2
<1>5. /\ input \in Nat /\ MAX_EXHAUSTIVE_WORK_BYTES \in Nat
      /\ MAX_EVALUATOR_RESULT_BYTES \in Nat /\ BuiltinResultBytes \in Nat
      /\ evaluator_runs \in Nat /\ observed_result_bytes \in Nat
  BY RequestFacts, BoundsAssumption DEF IInv, TypeOK
<1>6. /\ serialized_input_bytes' = input /\ total_planned_runs' = total_planned_runs
      /\ CurrentOrder' = CurrentOrder
      /\ \A order : BuiltinResult(order)' = BuiltinResult(order)
  BY <1>2 DEF serialized_input_bytes, total_planned_runs, BuiltinResult, CurrentOrder, IdOrders
<1>7. BuiltinFitsTheBudgets' = BuiltinFitsTheBudgets
  BY <1>2 DEF BuiltinFitsTheBudgets, EntryFault, total_planned_runs, serialized_input_bytes,
              estimated_work_bytes, Factorial
<1> HIDE DEF entry, S, input
<1>8. OutputBytes(trace') = OutputBytes(trace) + result.bytes
  <2>1. entry.result = result
    BY DEF entry
  <2> QED
    BY <1>1, <1>3, <1>4, <2>1, OutputGrows
<1>9. charged_work_bytes' = charged_work_bytes + input + result.bytes
  <2>1. (evaluator_runs + 1) * input = evaluator_runs * input + input
    BY <1>5
  <2>2. evaluator_runs * input \in Nat
    BY <1>5
  <2> QED
    BY <1>1, <1>5, <1>6, <2>1, <2>2 DEF charged_work_bytes, input
<1>10. WorkIsCounted'
  <2>1. Len(trace') <= total_planned_runs'
    BY <1>4, <1>6, OneMoreIsPlanned
  <2>2. evaluator_runs' = Len(trace') /\ observed_result_bytes' = OutputBytes(trace')
    BY <1>1, <1>4, <1>8 DEF WorkInv, WorkIsCounted
  <2>3. Working' =>
          Len(trace') = Cardinality(DOMAIN observations') * ORDER_REPEATS + Len(repeats')
    <3>1. SUFFICES ASSUME Working'
                   PROVE  Len(trace') = Cardinality(DOMAIN observations) * ORDER_REPEATS
                                          + Len(repeats')
      BY <1>2
    <3>2. Len(repeats') = Len(repeats) + 1 /\ Len(repeats) \in Nat
      BY <1>2, <3>1 DEF Working, IInv, TypeOK
    <3>3. Cardinality(DOMAIN observations) * ORDER_REPEATS \in Nat
      BY FS_CardinalityType, BoundsAssumption DEF IInv, LoopPosition
    <3>4. Len(trace) = Cardinality(DOMAIN observations) * ORDER_REPEATS + Len(repeats)
      BY DEF WorkInv, WorkIsCounted, Working
    <3> QED
      BY <1>4, <3>2, <3>3, <3>4
  <2> QED
    BY <2>1, <2>2, <2>3 DEF WorkIsCounted
<1>11. charged_work_bytes \in Nat /\ charged_work_bytes <= MAX_EXHAUSTIVE_WORK_BYTES
  <2>1. evaluator_runs * input \in Nat
    BY <1>5
  <2> QED
    BY <1>5, <2>1 DEF WorkInv, WorkIsCharged, charged_work_bytes, input
<1>12. WorkIsCharged'
  <2>1. charged_work_bytes' <= MAX_EXHAUSTIVE_WORK_BYTES + input + MAX_EVALUATOR_RESULT_BYTES
    BY <1>1, <1>5, <1>9, <1>11
  <2>2. pc' # "raised" => charged_work_bytes' <= MAX_EXHAUSTIVE_WORK_BYTES
    BY <1>1, <1>2, <1>5, <1>9, <1>11
  <2> QED
    BY <1>2, <1>6, <2>1, <2>2 DEF WorkIsCharged
<1>13. BuiltinIsKnown'
  <2>1. SUFFICES ASSUME request.evaluator = "builtin" PROVE BuiltinIsKnown'
    BY <1>2 DEF BuiltinIsKnown
  <2>2. result = BuiltinResult(CurrentOrder) /\ result.bytes = BuiltinResultBytes
    BY <2>1 DEF BuiltinResult
  <2>3. observed_result_bytes' = Len(trace') * BuiltinResultBytes
    <3>1. observed_result_bytes = Len(trace) * BuiltinResultBytes
      BY <2>1 DEF WorkInv, BuiltinIsKnown
    <3>2. (Len(trace) + 1) * BuiltinResultBytes = Len(trace) * BuiltinResultBytes + BuiltinResultBytes
      BY <1>4, <1>5
    <3> QED
      BY <1>1, <1>4, <2>2, <3>1, <3>2
  <2>4. \A i \in DOMAIN repeats' : repeats'[i] = BuiltinResult(CurrentOrder)
    <3>1. repeats \in Seq(Result) /\ \A i \in DOMAIN repeats : repeats[i] = BuiltinResult(CurrentOrder)
      BY <2>1 DEF IInv, TypeOK, WorkInv, BuiltinIsKnown, Working
    <3> QED
      BY <1>2, <2>2, <3>1
  <2> QED
    BY <1>2, <1>6, <2>1, <2>3, <2>4 DEF WorkInv, BuiltinIsKnown
<1>14. BuiltinFitsTheBudgets => pc' # "raised"
  <2>1. SUFFICES ASSUME BuiltinFitsTheBudgets
                 PROVE  charged_work_bytes' <= MAX_EXHAUSTIVE_WORK_BYTES
    BY <1>1, <1>2, <1>5, <1>9, <1>11
  <2>2. request.evaluator = "builtin"
    BY <2>1 DEF BuiltinFitsTheBudgets
  <2>3. /\ observed_result_bytes' = Len(trace') * BuiltinResultBytes
        /\ evaluator_runs' = Len(trace')
    BY <1>2, <1>10, <1>13, <2>2 DEF BuiltinIsKnown, WorkIsCounted
  <2>4. Len(trace') \in Nat /\ Len(trace') <= total_planned_runs
    BY <1>4, OneMoreIsPlanned
  <2>5. Len(trace') * input + Len(trace') * BuiltinResultBytes <= MAX_EXHAUSTIVE_WORK_BYTES
    BY <2>1, <2>4, BuiltinWorkFits DEF input
  <2> QED
    BY <1>6, <2>3, <2>5 DEF charged_work_bytes
<1> QED
  BY <1>7, <1>10, <1>12, <1>13, <1>14 DEF WorkInv

\* The order is done: its repeats are counted with it.
LEMMA CompleteOrderKeepsWork == ASSUME IInv, WorkInv, CompleteOrder PROVE WorkInv'
<1>1. /\ pc = "compare" /\ pc' \in {"classify", "evaluate"}
      /\ observations' = WithCompleted(CurrentOrder, repeats[1]) /\ repeats' = << >>
      /\ UNCHANGED <<request, evaluator_runs, observed_result_bytes, trace>>
      /\ report' = report
  BY DEF CompleteOrder
<1>2. /\ CurrentOrder \in IdOrders /\ CurrentOrder \notin DOMAIN observations
      /\ IsFiniteSet(DOMAIN observations) /\ Len(repeats) = ORDER_REPEATS
      /\ repeats \in Seq(Result)
  BY <1>1, CurrentOrderIsLeft DEF IInv, LoopPosition, TypeOK
<1>3. /\ DOMAIN observations' = DOMAIN observations \cup {CurrentOrder}
      /\ observations'[CurrentOrder] = repeats[1]
      /\ \A order \in DOMAIN observations : observations'[order] = observations[order]
  BY <1>1, <1>2 DEF WithCompleted
<1>4. WorkIsCounted'
  <2> DEFINE done == Cardinality(DOMAIN observations)
  <2>1. Cardinality(DOMAIN observations') = done + 1 /\ done \in Nat
    BY <1>2, <1>3, FS_AddElement, FS_CardinalityType
  <2>2. Len(trace) = done * ORDER_REPEATS + ORDER_REPEATS
    BY <1>1, <1>2 DEF WorkInv, WorkIsCounted, Working
  <2> HIDE DEF done
  <2>3. (done + 1) * ORDER_REPEATS = done * ORDER_REPEATS + ORDER_REPEATS
        /\ done * ORDER_REPEATS \in Nat /\ ORDER_REPEATS \in Nat
    BY <2>1, BoundsAssumption
  <2>4. Len(trace') = Cardinality(DOMAIN observations') * ORDER_REPEATS + Len(repeats')
    BY <1>1, <2>1, <2>2, <2>3
  <2> QED
    BY <1>1, <2>4, WorkIsKept DEF WorkInv, WorkIsCounted
<1>5. WorkIsCharged'
  BY <1>1, WorkIsKept DEF WorkInv, WorkIsCharged
<1>6. BuiltinIsKnown'
  <2>1. SUFFICES ASSUME request.evaluator = "builtin" PROVE BuiltinIsKnown'
    BY <1>1 DEF BuiltinIsKnown
  <2>2. 1 \in DOMAIN repeats
    BY <1>2, BoundsAssumption
  <2>3. repeats[1] = BuiltinResult(CurrentOrder)
    BY <1>1, <2>1, <2>2 DEF WorkInv, BuiltinIsKnown, Working
  <2>4. \A order \in DOMAIN observations' : observations'[order] = BuiltinResult(order)
    BY <1>3, <2>1, <2>3 DEF WorkInv, BuiltinIsKnown
  <2>5. DOMAIN repeats' = {}
    BY <1>1
  <2> QED
    BY <1>1, <2>1, <2>4, <2>5, WorkIsKept DEF WorkInv, BuiltinIsKnown
<1> QED
  BY <1>1, <1>4, <1>5, <1>6, WorkIsKept DEF WorkInv

\* A report says what was charged, and is not too large where one witness fits.
LEMMA ReturnKeepsWork ==
    ASSUME IInv, WorkInv, pc # "raised", NEW candidate, Return(candidate),
           candidate.charged_work_bytes = charged_work_bytes,
           BuiltinFitsTheBudgets => Len(candidate.witnesses) \in {0, 1}
    PROVE  WorkInv'
<1>1. UNCHANGED <<request, evaluator_runs, observed_result_bytes, trace>>
      /\ repeats' = repeats /\ observations' = observations
  BY DEF Return, Raise
<1>2. CASE ReportBytes + WitnessBytes * Len(candidate.witnesses) > MAX_REPORT_BYTES
  <2>1. Raise("ORDER_CHECK_TOO_LARGE")
    BY <1>2 DEF Return
  <2>2. ~BuiltinFitsTheBudgets
    <3>1. SUFFICES ASSUME BuiltinFitsTheBudgets PROVE FALSE
      OBVIOUS
    <3>2. ReportBytes + WitnessBytes <= MAX_REPORT_BYTES
      BY <3>1 DEF BuiltinFitsTheBudgets
    <3>3. CASE Len(candidate.witnesses) = 0
      BY <1>2, <3>2, <3>3, BoundsAssumption
    <3>4. CASE Len(candidate.witnesses) = 1
      BY <1>2, <3>2, <3>4, BoundsAssumption
    <3> QED
      BY <3>1, <3>3, <3>4
  <2> QED
    BY <1>1, <2>1, <2>2, RaiseKeepsWork
<1>3. CASE ~(ReportBytes + WitnessBytes * Len(candidate.witnesses) > MAX_REPORT_BYTES)
  <2>1. pc' = "reported" /\ report' = candidate
    BY <1>3 DEF Return
  <2>2. WorkIsCounted'
    BY <1>1, <2>1, WorkIsKept DEF WorkInv, WorkIsCounted, Working
  <2>3. WorkIsCharged'
    BY <1>1, <2>1, WorkIsKept DEF WorkInv, WorkIsCharged
  <2>4. BuiltinIsKnown'
    BY <1>1, <2>1, WorkIsKept DEF WorkInv, BuiltinIsKnown, Working
  <2> QED
    BY <1>1, <2>1, <2>2, <2>3, <2>4, WorkIsKept DEF WorkInv
<1> QED
  BY <1>2, <1>3

\* Every step keeps the account.
LEMMA NextWork == IInv /\ WorkInv /\ [Next]_vars => WorkInv'
<1> SUFFICES ASSUME IInv, WorkInv, [Next]_vars PROVE WorkInv'
  OBVIOUS
<1>1. CASE Enter
  <2>1. /\ pc = "enter" /\ pc' = "evaluate" /\ repeats' = repeats /\ observations' = observations
        /\ UNCHANGED <<request, evaluator_runs, observed_result_bytes, trace>>
    BY <1>1 DEF Enter
  <2>2. CurrentOrder' = CurrentOrder
    BY <2>1 DEF CurrentOrder, IdOrders
  <2>3. WorkIsCounted' /\ WorkIsCharged' /\ BuiltinIsKnown'
    BY <2>1, <2>2, WorkIsKept
    DEF WorkInv, WorkIsCounted, WorkIsCharged, BuiltinIsKnown, Working
  <2> QED
    BY <2>1, <2>3 DEF WorkInv
<1>2. CASE Refuse
  <2>1. ~BuiltinFitsTheBudgets
    BY <1>2 DEF Refuse, BuiltinFitsTheBudgets
  <2> QED
    BY <1>2, <2>1, RaiseKeepsWork DEF Refuse
<1>3. CASE RunBuiltin
  <2>1. CASE BuiltinResultBytes > MAX_EVALUATOR_RESULT_BYTES
    <3>1. ~BuiltinFitsTheBudgets
      BY <2>1, BoundsAssumption DEF BuiltinFitsTheBudgets
    <3> QED
      BY <1>3, <2>1, <3>1, RaiseKeepsWork DEF RunBuiltin, RaiseBeforeAccounting
  <2>2. CASE ~(BuiltinResultBytes > MAX_EVALUATOR_RESULT_BYTES)
    <3>1. CurrentOrder \in IdOrders /\ pc = "evaluate"
      BY <1>3, CurrentOrderIsLeft DEF IInv, LoopPosition, RunBuiltin
    <3>2. /\ BuiltinResult(CurrentOrder) \in Result
          /\ BuiltinResult(CurrentOrder).bytes = BuiltinResultBytes
      BY <3>1, BuiltinResultIsAccepted DEF IInv, BuiltinResult
    <3>3. BuiltinResult(CurrentOrder).bytes <= MAX_EVALUATOR_RESULT_BYTES
      BY <2>2, <3>2, BoundsAssumption
    <3>4. Account(BuiltinResult(CurrentOrder))
      BY <1>3, <2>2 DEF RunBuiltin
    <3> QED
      BY <3>1, <3>2, <3>3, <3>4, AccountKeepsWork
  <2> QED
    BY <2>1, <2>2
<1>4. CASE CompareDiffering
  <2>1. pc = "compare" /\ RepeatsDiffer /\ Return(NondeterministicReport)
    BY <1>4 DEF CompareDiffering
  <2>2. NondeterministicReport.charged_work_bytes = charged_work_bytes
    BY DEF NondeterministicReport
  <2>3. ~BuiltinFitsTheBudgets
    <3>1. SUFFICES ASSUME request.evaluator = "builtin" PROVE FALSE
      BY DEF BuiltinFitsTheBudgets
    <3>2. \A i \in DOMAIN repeats : repeats[i] = BuiltinResult(CurrentOrder)
      BY <2>1, <3>1 DEF WorkInv, BuiltinIsKnown, Working
    <3>3. repeats \in Seq(Result) /\ DOMAIN repeats = 1..Len(repeats)
      BY DEF IInv, TypeOK
    <3>4. PICK i \in 2..Len(repeats) : repeats[i] # repeats[1]
      BY <2>1 DEF RepeatsDiffer
    <3> QED
      BY <3>2, <3>3, <3>4
  <2> QED
    BY <2>1, <2>2, <2>3, ReturnKeepsWork
<1>5. CASE CompleteOrder
  BY <1>5, CompleteOrderKeepsWork
<1>6. CASE Classify
  <2>1. pc = "classify" /\ Return(ExhaustiveReport)
    BY <1>6 DEF Classify
  <2>2. /\ ExhaustiveReport.charged_work_bytes = charged_work_bytes
        /\ ExhaustiveReport.witnesses = Witnesses
    BY DEF ExhaustiveReport
  <2>3. BuiltinFitsTheBudgets => Len(Witnesses) \in {0, 1}
    BY <2>1, BuiltinNeedsOneWitness DEF BuiltinFitsTheBudgets, WorkInv
  <2> QED
    BY <2>1, <2>2, <2>3, ReturnKeepsWork
<1>7. ASSUME NEW result \in Returns, RunEvaluator(result) PROVE WorkInv'
  <2> DEFINE fault == EvaluatorFault(result, request.policy)
  <2>1. result \in Result /\ pc = "evaluate" /\ request.evaluator = "custom"
    BY <1>7, ReturnsAssumption DEF RunEvaluator
  <2>2. ~BuiltinFitsTheBudgets
    BY <2>1 DEF BuiltinFitsTheBudgets
  <2>3. CASE fault # NoError
    BY <1>7, <2>2, <2>3, RaiseKeepsWork DEF RunEvaluator, RaiseBeforeAccounting
  <2>4. CASE fault = NoError
    <3>1. result.raised \in {"nothing", "testbench_error", "exception"} /\ result.bytes \in Nat
      BY <2>1 DEF Result
    <3>2. ~(result.bytes > MAX_EVALUATOR_RESULT_BYTES)
      BY <2>4, <3>1 DEF EvaluatorFault, NoError
    <3>3. result.bytes <= MAX_EVALUATOR_RESULT_BYTES
      BY <3>1, <3>2, BoundsAssumption
    <3> QED
      BY <1>7, <2>1, <2>4, <3>3, AccountKeepsWork DEF RunEvaluator
  <2> QED
    BY <2>3, <2>4
<1>8. CASE UNCHANGED vars
  <2>1. /\ UNCHANGED <<request, evaluator_runs, observed_result_bytes, trace>>
        /\ UNCHANGED <<pc, repeats, observations, report>>
    BY <1>8 DEF vars
  <2>2. CurrentOrder' = CurrentOrder
    BY <2>1 DEF CurrentOrder, IdOrders
  <2>3. WorkIsCounted' /\ WorkIsCharged' /\ BuiltinIsKnown'
    BY <2>1, <2>2, WorkIsKept
    DEF WorkInv, WorkIsCounted, WorkIsCharged, BuiltinIsKnown, Working
  <2> QED
    BY <2>1, <2>3, WorkIsKept DEF WorkInv
<1> QED
  BY <1>1, <1>2, <1>3, <1>4, <1>5, <1>6, <1>7, <1>8 DEF Next, Internal, Terminating

\* The budget of an order check, for every policy and every evaluator: all the
\* work is charged, no more evaluations are made than planned, only the last
\* can overrun the budget and then nothing is reported, and the built-in
\* evaluator is never refused when its planned work fits.
THEOREM BudgetIsKept == Spec => []WorkIsBounded
<1>1. Spec => []WorkInv
  BY InitWork, NextWork, Invariance, PTL DEF Spec
<1>2. WorkInv => WorkIsBounded
  BY WorkInvMeansBounded
<1> QED
  BY <1>1, <1>2, PTL
=============================================================================
