----------------------------- MODULE Precedence -----------------------------
(***************************************************************************)
(* check_order_conformance of precedence.py: every permutation of a        *)
(* policy's rules is evaluated ORDER_REPEATS times, by the built-in        *)
(* evaluator or by a caller's callable, and the results are classified.    *)
(*                                                                         *)
(* The callable is the environment: each call may raise, return a value    *)
(* that breaks the result contract, or return any contract-abiding result, *)
(* a different one each time, unless DeterministicEvaluator restricts it.  *)
(* Everything else is sequential, one action per step of the function.     *)
(*                                                                         *)
(* Abstracted: kind and path of a rule result are a flag (the code accepts *)
(* only the declared ones), reason codes are members of a small set, and   *)
(* a size in bytes is a number carried with the value it measures.         *)
(***************************************************************************)
EXTENDS RuleOrders, FiniteSets

CONSTANTS
    Requests,                \* the calls: policy, response, evaluator
    Returns,                 \* what one call of a custom evaluator may do
    ReasonCodes,             \* what a rule result gives as its reason
    DeterministicEvaluator,  \* TRUE: repeats of an order never disagree
    ORDER_REPEATS,           \* 3 in the code
    MIN_EXHAUSTIVE_RULES,    \* 2
    MAX_EXHAUSTIVE_RULES,    \* 7
    MAX_EXHAUSTIVE_WORK_BYTES,
    MAX_EVALUATOR_RESULT_BYTES,
    MAX_JSON_INPUT_BYTES,
    MAX_REPORT_BYTES,
    BuiltinResultBytes,      \* size of a result of the built-in evaluator
    ReportBytes,             \* size of a report without witnesses
    WitnessBytes             \* size of one witness in a report

Verdicts == [passed : BOOLEAN, reason_code : ReasonCodes]

Row == [rule_id : Nat, as_declared : BOOLEAN, passed : BOOLEAN,
        reason_code : ReasonCodes]

\* What a call of an evaluator does: raise, or return a value.  `contract`
\* says whether the value has the exact shape of a result, fields and types.
Result == [raised : {"nothing", "testbench_error", "exception"},
           contract : BOOLEAN, own_policy : BOOLEAN, passed : BOOLEAN,
           rows : Seq(Row), bytes : Nat]

\* A request: the rules in declared order, whether validate_policy accepts
\* them, the response's shape, both sizes, the evaluator, and what the
\* built-in evaluator finds for each rule, a function of rule and response.
IsRequest(request) ==
    /\ request \in [policy : Seq(Nat), policy_valid : BOOLEAN,
                    response : {"object", "not_object", "not_strict_json"},
                    policy_bytes : Nat, response_bytes : Nat,
                    evaluator : {"builtin", "custom"},
                    verdict : [RuleIds(request.policy) -> Verdicts]]
    /\ IsInjective(request.policy)

ASSUME RequestsAssumption == \A request \in Requests : IsRequest(request)
ASSUME ReturnsAssumption == Returns \subseteq Result
ASSUME DeterministicAssumption == DeterministicEvaluator \in BOOLEAN
ASSUME BoundsAssumption ==
    /\ ORDER_REPEATS \in Nat \ {0}
    /\ MIN_EXHAUSTIVE_RULES \in Nat
    /\ MAX_EXHAUSTIVE_RULES \in Nat
    /\ MAX_EXHAUSTIVE_WORK_BYTES \in Nat
    /\ MAX_EVALUATOR_RESULT_BYTES \in Nat
    /\ MAX_JSON_INPUT_BYTES \in Nat
    /\ MAX_REPORT_BYTES \in Nat
    /\ BuiltinResultBytes \in Nat
    /\ ReportBytes \in Nat
    /\ WitnessBytes \in Nat

VARIABLES
    request,                 \* the arguments of the call
    pc,                      \* enter, evaluate, compare, classify, reported, raised
    repeats,                 \* repeated_results: of the order in progress
    observations,            \* the completed orders, each with its result
    evaluator_runs,
    observed_result_bytes,
    report,                  \* the returned report, once pc = "reported"
    error,                   \* the code of the exception, once pc = "raised"
    trace                    \* history: every accepted result with its order

vars == <<request, pc, repeats, observations, evaluator_runs,
          observed_result_bytes, report, error, trace>>

NoError == "none"
NoReport == [status |-> "none"]

-----------------------------------------------------------------------------
(* Bounds, and the guards at the entry of the function.                    *)

\* math.factorial
Factorial(n) ==
    LET Product[k \in 0..n] == IF k = 0 THEN 1 ELSE k * Product[k - 1] IN Product[n]

serialized_input_bytes == request.policy_bytes + request.response_bytes

total_planned_runs == Factorial(Len(request.policy)) * ORDER_REPEATS

estimated_work_bytes == serialized_input_bytes * total_planned_runs

\* The exception with which the checks before the loop end the call.
EntryFault ==
    IF \/ ~request.policy_valid
       \/ Len(request.policy) < MIN_EXHAUSTIVE_RULES
    THEN "ORDER_CHECK_INVALID"
    ELSE IF Len(request.policy) > MAX_EXHAUSTIVE_RULES
    THEN "ORDER_CHECK_TOO_LARGE"
    ELSE IF \/ request.response # "object"
            \/ request.response_bytes > MAX_JSON_INPUT_BYTES
            \/ request.policy_bytes > MAX_JSON_INPUT_BYTES
    THEN "ORDER_CHECK_INVALID"
    ELSE IF estimated_work_bytes > MAX_EXHAUSTIVE_WORK_BYTES
    THEN "ORDER_CHECK_TOO_LARGE"
    ELSE NoError

IdOrders == Orders(request.policy)

\* The loop variable order_ids: the first order not yet completed.
CurrentOrder == FirstOrder(request.policy, IdOrders \ DOMAIN observations)

-----------------------------------------------------------------------------
(* The contract of a custom evaluator's result.                            *)

ReportedIds(result) == {row.rule_id : row \in Range(result.rows)}

RowsAreDeclared(result, policy) ==
    \A row \in Range(result.rows) :
        row.rule_id \in RuleIds(policy) /\ row.as_declared

RowsAreDistinct(result) ==
    \A i, j \in DOMAIN result.rows :
        result.rows[i].rule_id = result.rows[j].rule_id => i = j

\* Mutant: passed is checked against the coverage only.
BugPassedNeedsCoverage(result, policy) ==
    result.passed => ReportedIds(result) = RuleIds(policy)

PassedIsConsistent(result, policy) ==
    result.passed = /\ ReportedIds(result) = RuleIds(policy)
                    /\ \A row \in Range(result.rows) : row.passed

ContractHolds(result, policy) ==
    /\ result.contract
    /\ RowsAreDeclared(result, policy)
    /\ RowsAreDistinct(result)
    /\ PassedIsConsistent(result, policy)

\* What _run_evaluator raises for one call; the size is checked before the
\* policy id, so a result wrong in both ways is too large.
EvaluatorFault(result, policy) ==
    CASE result.raised = "testbench_error" -> "propagated"
      [] result.raised = "exception" -> "ORDER_CHECK_INVALID"
      [] result.raised = "nothing" ->
            IF ~ContractHolds(result, policy) THEN "ORDER_CHECK_INVALID"
            ELSE IF result.bytes > MAX_EVALUATOR_RESULT_BYTES
            THEN "ORDER_CHECK_TOO_LARGE"
            ELSE IF ~result.own_policy THEN "ORDER_CHECK_INVALID" ELSE NoError

\* The built-in evaluator: one row per rule, in the requested order.
BuiltinResult(order) ==
    [raised |-> "nothing", contract |-> TRUE, own_policy |-> TRUE,
     passed |-> \A id \in RuleIds(request.policy) : request.verdict[id].passed,
     rows |-> [i \in DOMAIN order |->
                  [rule_id |-> order[i], as_declared |-> TRUE,
                   passed |-> request.verdict[order[i]].passed,
                   reason_code |-> request.verdict[order[i]].reason_code]],
     bytes |-> BuiltinResultBytes]

-----------------------------------------------------------------------------
(* Projections of a result, and what varies between two of them.           *)

RowOf(result, id) == CHOOSE row \in Range(result.rows) : row.rule_id = id

Presentation(result) ==
    [i \in DOMAIN result.rows |-> result.rows[i].rule_id]

FollowsRequestedOrder(result, order) ==
    \A i, j \in DOMAIN result.rows :
        i < j => IndexOf(order, result.rows[i].rule_id)
                   < IndexOf(order, result.rows[j].rule_id)

ParticipationComplete(result, order) == ReportedIds(result) = Range(order)

Dimensions == <<"outcome", "reason_evidence", "participation", "presentation">>

\* _dimension_projection_pair followed by _different.
ProjectionsDiffer(dimension, left, right) ==
    CASE dimension = "outcome" ->
            \/ \E id \in ReportedIds(left) \cap ReportedIds(right) :
                    RowOf(left, id).passed # RowOf(right, id).passed
            \/ /\ ReportedIds(left) = ReportedIds(right)
               /\ left.passed # right.passed
      [] dimension = "reason_evidence" ->
            \E id \in ReportedIds(left) \cap ReportedIds(right) :
                RowOf(left, id).reason_code # RowOf(right, id).reason_code
      [] dimension = "participation" -> ReportedIds(left) # ReportedIds(right)
      [] dimension = "presentation" -> Presentation(left) # Presentation(right)

-----------------------------------------------------------------------------
(* Witnesses: the searches of _adjacent_witness and                        *)
(* _global_identity_witness, each taking the first hit of its loops.       *)

\* The pairs <<left order, swap index>> whose two results differ.
AdjacentHits(dimension) ==
    {hit \in (DOMAIN observations) \X (1..(Len(request.policy) - 1)) :
        LET right == SwapAt(hit[1], hit[2])
        IN /\ right \in DOMAIN observations
           /\ ProjectionsDiffer(dimension, observations[hit[1]],
                                observations[right])}

AdjacentWitness(dimension) ==
    LET left  == FirstOrder(request.policy,
                            {hit[1] : hit \in AdjacentHits(dimension)})
        index == CHOOSE k \in 1..(Len(request.policy) - 1) :
                    /\ <<left, k>> \in AdjacentHits(dimension)
                    /\ \A j \in 1..(k - 1) :
                            <<left, j>> \notin AdjacentHits(dimension)
    IN [comparison |-> "adjacent_swap", dimension |-> dimension,
        left_order |-> left, right_order |-> SwapAt(left, index),
        swap_index |-> index]

\* The order in which the scan first sees a rule, or a set of rules, reported.
FirstReporting(id) ==
    FirstOrder(request.policy,
               {order \in DOMAIN observations :
                    id \in ReportedIds(observations[order])})

FirstWithParticipation(ids) ==
    FirstOrder(request.policy,
               {order \in DOMAIN observations :
                    ReportedIds(observations[order]) = ids})

PassConflicts(order) ==
    {id \in ReportedIds(observations[order]) :
        RowOf(observations[order], id).passed
          # RowOf(observations[FirstReporting(id)], id).passed}

ReasonConflicts(order) ==
    {id \in ReportedIds(observations[order]) :
        RowOf(observations[order], id).reason_code
          # RowOf(observations[FirstReporting(id)], id).reason_code}

\* An aggregate that differs although the same rules were reported.
AggregateConflict(order) ==
    observations[order].passed
      # observations[FirstWithParticipation(
                        ReportedIds(observations[order]))].passed

PassHits == {order \in DOMAIN observations : PassConflicts(order) # {}}
ReasonHits == {order \in DOMAIN observations : ReasonConflicts(order) # {}}
AggregateHits == {order \in DOMAIN observations : AggregateConflict(order)}

EndpointPath(dimension, reason, left, right) ==
    [comparison |-> "endpoint_path", dimension |-> dimension,
     reason |-> reason, left_order |-> left, right_order |-> right,
     adjacent_swap_path |-> AdjacentSwapPath(left, right)]

\* The conflict of an order with the first order that reported the same rule;
\* of several conflicting rules, the one that sorts first.
IdentityWitness(dimension, reason, right, conflicts) ==
    LET id == CHOOSE a \in conflicts : \A b \in conflicts : a <= b
    IN EndpointPath(dimension, reason, FirstReporting(id), right)

GlobalIdentityWitness(dimension) ==
    IF dimension = "reason_evidence"
    THEN LET right == FirstOrder(request.policy, ReasonHits)
         IN IdentityWitness(dimension, "shared_rule_evidence", right,
                            ReasonConflicts(right))
    ELSE IF PassHits # {}
    THEN LET right == FirstOrder(request.policy, PassHits)
         IN IdentityWitness(dimension, "shared_rule_pass", right,
                            PassConflicts(right))
    ELSE LET right == FirstOrder(request.policy, AggregateHits)
         IN EndpointPath(dimension, "aggregate_with_equal_participation",
                         FirstWithParticipation(
                             ReportedIds(observations[right])), right)

-----------------------------------------------------------------------------
(* Classification.                                                         *)

GloballyVaries(dimension) ==
    IF dimension = "reason_evidence" THEN ReasonHits # {}
                                     ELSE PassHits \cup AggregateHits # {}

\* Mutant: every dimension is searched among neighbours only.
BugNeighboursOnly(dimension) == AdjacentHits(dimension) # {}

\* The dictionary `variance`: identity drift is found by the global scan,
\* participation and presentation by comparing neighbouring orders only.
Varies(dimension) ==
    IF dimension \in {"outcome", "reason_evidence"}
    THEN GloballyVaries(dimension)
    ELSE AdjacentHits(dimension) # {}

\* Mutant: endpoint evidence is never used.
BugNoEndpointWitness(dimension) == AdjacentHits(dimension) # {}

HasWitness(dimension) ==
    \/ AdjacentHits(dimension) # {}
    \/ dimension \in {"outcome", "reason_evidence"} /\ GloballyVaries(dimension)

DimensionWitness(dimension) ==
    IF AdjacentHits(dimension) # {} THEN AdjacentWitness(dimension)
                                    ELSE GlobalIdentityWitness(dimension)

IncompleteOrders ==
    {order \in DOMAIN observations :
        ~ParticipationComplete(observations[order], order)}

CoverageWitness ==
    LET order == FirstOrder(request.policy, IncompleteOrders)
    IN [dimension |-> "rule_coverage", order |-> order,
        missing_rule_ids |-> Range(order) \ ReportedIds(observations[order])]

\* Mutant: a changed reason does not count as semantic drift.
BugReasonIsNotSemantic == {"outcome", "participation"}

SemanticDimensions == {"outcome", "reason_evidence", "participation"}

\* Mutant: a rule left out by every order does not count as drift.
BugOmissionConforms == \E dimension \in SemanticDimensions : Varies(dimension)

SemanticDrift ==
    IncompleteOrders # {} \/ \E dimension \in SemanticDimensions : Varies(dimension)

\* Mutant: incomplete coverage has no status of its own.
BugNoIncompleteStatus(varying) ==
    CASE Cardinality(varying \cap SemanticDimensions) > 1 -> "COMPOUND_ORDER_DRIFT"
      [] varying \cap SemanticDimensions = {"participation"} -> "PARTICIPATION_ORDER_DRIFT"
      [] varying \cap SemanticDimensions = {"outcome"} -> "SEMANTIC_ORDER_DRIFT"
      [] varying \cap SemanticDimensions = {"reason_evidence"} -> "EVIDENCE_ORDER_DRIFT"
      [] varying \cap SemanticDimensions = {} ->
            IF "presentation" \in varying THEN "PRESENTATION_ONLY_DRIFT"
                                          ELSE "NO_VARIANCE_OBSERVED"

Status(varying) ==
    CASE Cardinality(varying \cap SemanticDimensions) > 1 -> "COMPOUND_ORDER_DRIFT"
      [] varying \cap SemanticDimensions = {"participation"} -> "PARTICIPATION_ORDER_DRIFT"
      [] varying \cap SemanticDimensions = {"outcome"} -> "SEMANTIC_ORDER_DRIFT"
      [] varying \cap SemanticDimensions = {"reason_evidence"} -> "EVIDENCE_ORDER_DRIFT"
      [] varying \cap SemanticDimensions = {} ->
            IF IncompleteOrders # {} THEN "INCOMPLETE_RULE_COVERAGE"
            ELSE IF "presentation" \in varying THEN "PRESENTATION_ONLY_DRIFT"
            ELSE "NO_VARIANCE_OBSERVED"

\* An element that a list has or not.
Entry(shown, value) == IF shown THEN <<value>> ELSE << >>

Witnesses ==
    LET Shown(dimension) == Entry(HasWitness(dimension), DimensionWitness(dimension))
    IN Shown("outcome") \o Shown("reason_evidence") \o Shown("participation")
         \o Shown("presentation") \o Entry(IncompleteOrders # {}, CoverageWitness)

\* Mutant: the evaluator's output is not charged.
BugOutputIsFree == evaluator_runs * serialized_input_bytes

charged_work_bytes ==
    evaluator_runs * serialized_input_bytes + observed_result_bytes

ExhaustiveReport ==
    LET varying == {dimension \in Range(Dimensions) : Varies(dimension)}
    IN [mode |-> "exhaustive",
        status |-> Status(varying),
        conforms_within_coverage |-> IF SemanticDrift THEN "false" ELSE "true",
        variance |-> varying,
        witnesses |-> Witnesses,
        presentation_follows_requested_order |->
            \A order \in DOMAIN observations :
                FollowsRequestedOrder(observations[order], order),
        orders_completed |-> Cardinality(DOMAIN observations),
        orders_attempted |-> Cardinality(DOMAIN observations),
        evaluator_runs |-> evaluator_runs,
        charged_work_bytes |-> charged_work_bytes]

\* The first repeat that differs from repeat 1.
DifferingRepeat ==
    CHOOSE i \in 2..Len(repeats) :
        /\ repeats[i] # repeats[1]
        /\ \A j \in 2..(i - 1) : repeats[j] = repeats[1]

NondeterministicReport ==
    [mode |-> "incomplete",
     status |-> "INCONCLUSIVE_NONDETERMINISTIC",
     conforms_within_coverage |-> "none",
     variance |-> {},
     witnesses |-> <<[dimension |-> "evaluator_result", order |-> CurrentOrder,
                      left_repeat |-> 1, right_repeat |-> DifferingRepeat]>>,
     presentation_follows_requested_order |-> FALSE,
     orders_completed |-> Cardinality(DOMAIN observations),
     orders_attempted |-> Cardinality(DOMAIN observations) + 1,
     evaluator_runs |-> evaluator_runs,
     charged_work_bytes |-> charged_work_bytes]

-----------------------------------------------------------------------------
(* The steps of check_order_conformance.                                   *)

Init ==
    /\ request \in Requests
    /\ pc = "enter"
    /\ repeats = << >>
    /\ observations = << >>
    /\ evaluator_runs = 0
    /\ observed_result_bytes = 0
    /\ report = NoReport
    /\ error = NoError
    /\ trace = << >>

Raise(code) ==
    /\ pc' = "raised"
    /\ error' = code
    /\ UNCHANGED <<request, repeats, observations, report>>

Enter ==
    /\ pc = "enter"
    /\ EntryFault = NoError
    /\ pc' = "evaluate"
    /\ UNCHANGED <<request, repeats, observations, evaluator_runs,
                   observed_result_bytes, report, error, trace>>

Refuse ==
    /\ pc = "enter"
    /\ EntryFault # NoError
    /\ Raise(EntryFault)
    /\ UNCHANGED <<evaluator_runs, observed_result_bytes, trace>>

\* Mutant: one evaluation too many.
BugOneRepeatMore == Len(repeats) = ORDER_REPEATS

\* The evaluation about to be recorded is the order's last.
IsLastRepeat == Len(repeats) + 1 = ORDER_REPEATS

\* The rest of the inner loop, once an evaluation gave a valid result.  The
\* work is charged after the fact, so the last result may overrun the budget.
Account(result) ==
    /\ evaluator_runs' = evaluator_runs + 1
    /\ observed_result_bytes' = observed_result_bytes + result.bytes
    /\ trace' = Append(trace, [order |-> CurrentOrder, result |-> result])
    /\ IF charged_work_bytes + serialized_input_bytes + result.bytes
            > MAX_EXHAUSTIVE_WORK_BYTES
       THEN Raise("ORDER_CHECK_TOO_LARGE")
       ELSE /\ repeats' = Append(repeats, result)
            /\ pc' = IF IsLastRepeat THEN "compare" ELSE "evaluate"
            /\ UNCHANGED <<request, observations, report, error>>

RaiseBeforeAccounting(code) ==
    /\ Raise(code)
    /\ UNCHANGED <<evaluator_runs, observed_result_bytes, trace>>

RunBuiltin ==
    /\ pc = "evaluate"
    /\ request.evaluator = "builtin"
    /\ IF BuiltinResultBytes > MAX_EVALUATOR_RESULT_BYTES
       THEN RaiseBeforeAccounting("ORDER_CHECK_TOO_LARGE")
       ELSE Account(BuiltinResult(CurrentOrder))

RunEvaluator(result) ==
    /\ pc = "evaluate"
    /\ request.evaluator = "custom"
    /\ DeterministicEvaluator /\ repeats # << >> => result = repeats[1]
    /\ LET fault == EvaluatorFault(result, request.policy)
       IN IF fault # NoError THEN RaiseBeforeAccounting(fault)
                             ELSE Account(result)

\* Mutant: a report over the limit is neither returned nor refused.
BugReportTooLargeIsIgnored(candidate) ==
    IF ReportBytes + WitnessBytes * Len(candidate.witnesses) > MAX_REPORT_BYTES
    THEN UNCHANGED vars
    ELSE /\ pc' = "reported"
         /\ report' = candidate
         /\ UNCHANGED <<request, repeats, observations, error, evaluator_runs,
                        observed_result_bytes, trace>>

\* `return _bounded_report(...)`
Return(candidate) ==
    /\ IF ReportBytes + WitnessBytes * Len(candidate.witnesses) > MAX_REPORT_BYTES
       THEN Raise("ORDER_CHECK_TOO_LARGE")
       ELSE /\ pc' = "reported"
            /\ report' = candidate
            /\ UNCHANGED <<request, repeats, observations, error>>
    /\ UNCHANGED <<evaluator_runs, observed_result_bytes, trace>>

\* Mutant: only the last repeat is compared with the first.
BugLastRepeatOnly == repeats[Len(repeats)] # repeats[1]

RepeatsDiffer == \E i \in 2..Len(repeats) : repeats[i] # repeats[1]

CompareDiffering ==
    /\ pc = "compare"
    /\ RepeatsDiffer
    /\ Return(NondeterministicReport)

\* observations[order_ids] = repeated_results[0]
WithCompleted(completed, result) ==
    [order \in DOMAIN observations \cup {completed} |->
        IF order = completed THEN result ELSE observations[order]]

\* The order is done; the loop goes on with the next one, if there is one.
CompleteOrder ==
    /\ pc = "compare"
    /\ ~RepeatsDiffer
    /\ observations' = WithCompleted(CurrentOrder, repeats[1])
    /\ repeats' = << >>
    /\ pc' = IF DOMAIN observations' = IdOrders THEN "classify" ELSE "evaluate"
    /\ UNCHANGED <<request, evaluator_runs, observed_result_bytes,
                   report, error, trace>>

Classify ==
    /\ pc = "classify"
    /\ Return(ExhaustiveReport)

Ended == pc \in {"reported", "raised"}

Terminating == Ended /\ UNCHANGED vars

Internal == Enter \/ Refuse \/ RunBuiltin \/ CompareDiffering \/ CompleteOrder \/ Classify

Next ==
    \/ Internal
    \/ \E result \in Returns : RunEvaluator(result)
    \/ Terminating

Spec == Init /\ [][Next]_vars

\* The interpreter goes on with its own steps; a caller's evaluator may
\* take forever ("does not sandbox, time-limit, or roll back that callable").
FairSpec == Spec /\ WF_vars(Internal)

-----------------------------------------------------------------------------
(* Properties.                                                             *)

ReportShape ==
    \/ report = NoReport
    \/ /\ report.conforms_within_coverage \in {"true", "false", "none"}
       /\ report.evaluator_runs \in Nat
       /\ report.orders_completed \in Nat

\* Every variable has its type, completed orders are orders of the policy
\* and carry results that pass the contract, and a call that has neither
\* returned nor raised has neither report nor error.
TypeOK ==
    /\ request \in Requests
    /\ pc \in {"enter", "evaluate", "compare", "classify", "reported", "raised"}
    /\ repeats \in Seq(Result)
    /\ Len(repeats) <= ORDER_REPEATS
    /\ DOMAIN observations \subseteq IdOrders
    /\ \A order \in DOMAIN observations : observations[order] \in Result
    /\ evaluator_runs \in Nat
    /\ observed_result_bytes \in Nat
    /\ ReportShape
    /\ trace \in Seq([order : IdOrders, result : Result])
    /\ error \in {NoError, "ORDER_CHECK_INVALID", "ORDER_CHECK_TOO_LARGE", "propagated"}

\* What a result says about the rules, whatever the order of its rows.
Meaning(result) ==
    {[rule_id |-> row.rule_id, passed |-> row.passed,
      reason_code |-> row.reason_code] : row \in Range(result.rows)}

Conclusive == pc = "reported" /\ report.mode = "exhaustive"

\* A clean report, by its flag or by its status, is earned: every order was
\* evaluated ORDER_REPEATS times, and all of those evaluations, whatever the
\* order and the repeat, said the same about every declared rule and left no
\* rule out.
CleanReportIsEarned ==
    /\ pc = "reported"
    /\ \/ report.conforms_within_coverage = "true"
       \/ report.status \in {"NO_VARIANCE_OBSERVED", "PRESENTATION_ONLY_DRIFT"}
    =>
        /\ \A order \in IdOrders :
              Cardinality({i \in DOMAIN trace : trace[i].order = order}) = ORDER_REPEATS
        /\ \A i \in DOMAIN trace :
              /\ Meaning(trace[i].result) = Meaning(trace[1].result)
              /\ ReportedIds(trace[i].result) = RuleIds(request.policy)

\* The values a rule's field took over the exhaustive evaluation.
ValuesOf(id, Field(_)) ==
    {Field(RowOf(trace[i].result, id)) :
        i \in {j \in DOMAIN trace : id \in ReportedIds(trace[j].result)}}

\* The dimensions that vary, by README's definitions over all evaluations.
TrueVariance ==
    {dimension \in Range(Dimensions) :
        CASE dimension = "outcome" ->
                \/ \E id \in RuleIds(request.policy) :
                        \E a, b \in ValuesOf(id, LAMBDA row : row.passed) : a # b
                \/ \E i, j \in DOMAIN trace :
                        /\ ReportedIds(trace[i].result) = ReportedIds(trace[j].result)
                        /\ trace[i].result.passed # trace[j].result.passed
          [] dimension = "reason_evidence" ->
                \E id \in RuleIds(request.policy) :
                    \E a, b \in ValuesOf(id, LAMBDA row : row.reason_code) : a # b
          [] dimension = "participation" ->
                \E i, j \in DOMAIN trace :
                    ReportedIds(trace[i].result) # ReportedIds(trace[j].result)
          [] dimension = "presentation" ->
                \E i, j \in DOMAIN trace :
                    Presentation(trace[i].result) # Presentation(trace[j].result)}

\* The variance of a conclusive report is exactly the variance between any
\* two evaluations, near or far: searching neighbours finds every change of
\* participation and presentation (the orders are connected by adjacent
\* swaps), and the first-seen scan finds every change of a rule's outcome or
\* reason, even between regions of orders where the rule was not reported.
VarianceIsExact == Conclusive => report.variance = TrueVariance

\* A witness of each varying dimension, and of no other, in the order of the
\* dimensions; coverage last, exactly when some order left a rule out.
WitnessesMatchVariance(witnesses) ==
    LET Named(dimension) == Entry(dimension \in TrueVariance, dimension)
        incomplete == \E i \in DOMAIN trace :
            ReportedIds(trace[i].result) # RuleIds(request.policy)
    IN [i \in DOMAIN witnesses |-> witnesses[i].dimension]
         = Named("outcome") \o Named("reason_evidence") \o Named("participation")
             \o Named("presentation") \o Entry(incomplete, "rule_coverage")

\* The evaluation of an order that the report is about.
ResultOf(order) ==
    trace[CHOOSE i \in DOMAIN trace : trace[i].order = order].result

EndpointsDiffer(witness) ==
    LET left  == ResultOf(witness.left_order)
        right == ResultOf(witness.right_order)
        shared == ReportedIds(left) \cap ReportedIds(right)
    IN CASE witness.dimension = "outcome" ->
                \/ \E id \in shared : RowOf(left, id).passed # RowOf(right, id).passed
                \/ ReportedIds(left) = ReportedIds(right) /\ left.passed # right.passed
         [] witness.dimension = "reason_evidence" ->
                \E id \in shared :
                    RowOf(left, id).reason_code # RowOf(right, id).reason_code
         [] witness.dimension = "participation" ->
                ReportedIds(left) # ReportedIds(right)
         [] witness.dimension = "presentation" ->
                Presentation(left) # Presentation(right)

\* A witness shows what it says: the two orders were evaluated, their results
\* differ in the dimension it names, and the orders are one swap apart, or
\* joined by the shortest path of adjacent swaps, which is given only when no
\* single swap shows the difference.
EvidenceIsTrue(witness) ==
    IF witness.dimension = "rule_coverage"
    THEN /\ witness.missing_rule_ids # {}
         /\ witness.missing_rule_ids
              = RuleIds(request.policy) \ ReportedIds(ResultOf(witness.order))
    ELSE /\ EndpointsDiffer(witness)
         /\ IF witness.comparison = "adjacent_swap"
            THEN witness.right_order = SwapAt(witness.left_order, witness.swap_index)
            ELSE LET path == witness.adjacent_swap_path IN
                 /\ IsSwapPath(path, witness.left_order, witness.right_order)
                 /\ Len(path) - 1
                      = Cardinality(Inversions(witness.left_order, witness.right_order))
                 /\ Len(path) > 2

\* Outcome drift shows in a rule that both results report.
AggregateAloneNeverDecides(witness) ==
    witness.dimension = "outcome" =>
        LET left  == ResultOf(witness.left_order)
            right == ResultOf(witness.right_order)
        IN /\ \E id \in ReportedIds(left) \cap ReportedIds(right) :
                RowOf(left, id).passed # RowOf(right, id).passed
           /\ witness.comparison = "endpoint_path" => witness.reason = "shared_rule_pass"

AreGenuine(witnesses) ==
    /\ WitnessesMatchVariance(witnesses)
    /\ \A i \in DOMAIN witnesses :
          EvidenceIsTrue(witnesses[i]) /\ AggregateAloneNeverDecides(witnesses[i])

\* Every varying dimension has its witness and each witness can be checked by
\* its reader.  README lists a changed aggregate under identical participation
\* as a cause of SEMANTIC_ORDER_DRIFT, and the code searches for it last; the
\* contract makes the aggregate a function of the rows, so no witness rests on
\* it alone.
WitnessesAreGenuine == Conclusive => AreGenuine(report.witnesses)

\* INCONCLUSIVE is reported exactly when the repeats of the last attempted
\* order disagree, with two repeats that differ; every order counted as
\* completed had repeats that agree, in the conclusive report too.
InconclusiveIsExact ==
    pc = "reported" =>
        LET RunsOf(order) == {i \in DOMAIN trace : trace[i].order = order}
            Agree(order)  == \A i, j \in RunsOf(order) : trace[i].result = trace[j].result
            attempted     == {trace[i].order : i \in DOMAIN trace}
            last          == trace[Len(trace)].order
            \* the k-th repeat of the last order
            Repeat(k)     == trace[Len(trace) - ORDER_REPEATS + k]
        IN /\ report.mode = "incomplete" <=> ~Agree(last)
           /\ \A order \in attempted \ {last} : Agree(order)
           /\ report.orders_attempted = Cardinality(attempted)
           /\ report.orders_completed
                = Cardinality({order \in attempted : Agree(order)})
           /\ report.mode = "incomplete" =>
                LET witness == report.witnesses[1] IN
                /\ witness.order = last
                /\ \A k \in 1..ORDER_REPEATS : Repeat(k).order = last
                /\ {witness.left_repeat, witness.right_repeat} \subseteq 1..ORDER_REPEATS
                /\ Repeat(witness.left_repeat).result # Repeat(witness.right_repeat).result

OutputBytes(runs) ==
    LET Sum[n \in 0..Len(runs)] ==
            IF n = 0 THEN 0 ELSE Sum[n - 1] + runs[n].result.bytes
    IN Sum[Len(runs)]

BuiltinFitsTheBudgets ==
    /\ request.evaluator = "builtin"
    /\ EntryFault = NoError
    /\ BuiltinResultBytes <= MAX_EVALUATOR_RESULT_BYTES
    /\ total_planned_runs * (serialized_input_bytes + BuiltinResultBytes)
          <= MAX_EXHAUSTIVE_WORK_BYTES
    /\ ReportBytes + WitnessBytes <= MAX_REPORT_BYTES

\* The budget decides neither too late nor too early: the work charged is the
\* work done, input and result of every evaluation, of which there are never
\* more than planned; a report is only returned within the budget, and a call
\* that exceeds it has overrun it by at most one evaluation; and a request for
\* the built-in evaluator that is admitted, and whose whole planned work,
\* results included, fits, is never refused.
WorkIsBounded ==
    /\ charged_work_bytes = Len(trace) * serialized_input_bytes + OutputBytes(trace)
    /\ Len(trace) <= total_planned_runs
    /\ pc = "reported" =>
          /\ report.charged_work_bytes = charged_work_bytes
          /\ charged_work_bytes <= MAX_EXHAUSTIVE_WORK_BYTES
    /\ charged_work_bytes <=
          MAX_EXHAUSTIVE_WORK_BYTES + serialized_input_bytes + MAX_EVALUATOR_RESULT_BYTES
    /\ BuiltinFitsTheBudgets => pc # "raised"

\* Every call ends, unless the caller's evaluator never returns.
EndsOrWaitsForEvaluator ==
    <>Ended \/ <>[](pc = "evaluate" /\ request.evaluator = "custom")

\* The abstract check: what is answered so far is what the completed orders
\* mean, and the verdict is the report's.
Promise == INSTANCE OrderConformance WITH
    PolicySet <- {r.policy : r \in Requests},
    Rows <- [rule_id : Nat, passed : BOOLEAN, reason_code : ReasonCodes],
    policy <- request.policy,
    answers <- [order \in DOMAIN observations |-> Meaning(observations[order])],
    verdict <- CASE pc = "raised" -> "refused"
                 [] pc = "reported" /\ report.conforms_within_coverage = "true"  -> "conforms"
                 [] pc = "reported" /\ report.conforms_within_coverage = "false" -> "drifts"
                 [] pc = "reported" /\ report.conforms_within_coverage = "none"  -> "inconclusive"
                 [] OTHER -> "pending"

\* The check, whatever its evaluator does, implements the abstract promise.
ImplementsPromise == Promise!Spec
=============================================================================
