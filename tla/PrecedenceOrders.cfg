SPECIFICATION Spec
CONSTANTS
    Requests <- OrdersRequests
    Returns <- OrdersReturns
    ReasonCodes = {"r", "s"}
    DeterministicEvaluator = TRUE
    ORDER_REPEATS = 2
    MIN_EXHAUSTIVE_RULES = 2
    MAX_EXHAUSTIVE_RULES = 7
    MAX_EXHAUSTIVE_WORK_BYTES = 1000
    MAX_EVALUATOR_RESULT_BYTES = 4
    MAX_JSON_INPUT_BYTES = 8
    MAX_REPORT_BYTES = 1000
    BuiltinResultBytes = 2
    ReportBytes = 5
    WitnessBytes = 2
INVARIANTS
    CleanReportIsEarned
    VarianceIsExact
    WitnessesAreGenuine
PROPERTIES
    ImplementsPromise
