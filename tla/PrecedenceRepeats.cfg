SPECIFICATION FairSpec
CONSTANTS
    Requests <- RepeatsRequests
    Returns <- RepeatsReturns
    ReasonCodes = {"r", "s"}
    DeterministicEvaluator = FALSE
    ORDER_REPEATS = 3
    MIN_EXHAUSTIVE_RULES = 2
    MAX_EXHAUSTIVE_RULES = 2
    MAX_EXHAUSTIVE_WORK_BYTES = 26
    MAX_EVALUATOR_RESULT_BYTES = 4
    MAX_JSON_INPUT_BYTES = 8
    MAX_REPORT_BYTES = 11
    BuiltinResultBytes = 2
    ReportBytes = 5
    WitnessBytes = 2
INVARIANTS
    InconclusiveIsExact
    WorkIsBounded
PROPERTIES
    EndsOrWaitsForEvaluator
