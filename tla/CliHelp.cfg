SPECIFICATION Spec
CONSTANTS
    Names = {"a", "b"}
    FileSystems <- CliFileSystems
    Invocations <- CliInvocations
    MAX_MOVES = 0
INVARIANTS
    FailingOutputExits2
