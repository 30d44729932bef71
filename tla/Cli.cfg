SPECIFICATION FairSpec
CONSTANTS
    Names = {"a", "b"}
    FileSystems <- CliFileSystems
    Invocations <- CliInvocations
    MAX_MOVES = 1
INVARIANTS
    StatusTellsTheTruth
    InputsSurvive
    StatusSurvivesExit
PROPERTIES
    EndsOrWaitsForUser
