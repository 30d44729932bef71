SPECIFICATION ExplainSpec
CONSTANTS
    Given <- AllGiven
    Responses <- AllResponses
    Values <- AllValues
    MAX_POLICY_RULES = 3
    MAX_ONE_OF_VALUES = 2
    MAX_JSON_NESTING = 2
    MAX_LENGTH_BOUND = 4
INVARIANTS
    AcceptedIsWellFormed
    ValidationIsExact
    LintFindingsAreReal
    ExplanationIsGenuine
