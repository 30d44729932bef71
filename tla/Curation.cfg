SPECIFICATION Spec
CONSTANTS
    MAX_SUITE_CASES = 5
    Files = {"a", "b", "c"}
    Policies <- MCPoliciesUsed
    InitialFiles <- CurationFiles
    Imports <- CurationImports
    MAX_COMMANDS = 2
INVARIANTS
    EveryCaseHasItsOrigin
    SmallerSuitesKeepEvidence
    GateSplits
    MatchingSuitesAreSound
    MigrationsAreVisible
    DiffIsComplete
CHECK_DEADLOCK FALSE
