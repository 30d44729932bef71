SPECIFICATION ReceiptsSpec
CONSTANTS
    UsedPolicies <- EditedPolicies
    UsedSuites <- EditedSuites
    Responses <- EditedResponses
    MAX_RECORDS = 2
    MAX_SUITE_CASES = 3
INVARIANT EvidenceIsEarned
