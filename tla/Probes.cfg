SPECIFICATION ProbesSpec
CONSTANTS
    Policies <- AllPolicies
    Documents <- PoolResponses
    MAX_COMPATIBILITY_WORK = 9
    MAX_JSON_NODES = 8
    MAX_PROBE_RULES = 3
    MAX_LENGTH_PROBE = 4
    MAX_ONE_OF_VALUES = 3
    MAX_SUITE_CASES = 7
INVARIANTS
    GreedySearchIsSound
    FailureIsDeserved
    FailingCaseIsTargeted
    ProbesAreTargeted
    ProbeSuiteCoversEverything
