SPECIFICATION FairSpec
CONSTANTS
    Writers <- TwoWriters
    Bits <- TwoModes
    PrivateBits <- OwnerOnly
    HAS_FCHMOD = TRUE
    MAX_CHMODS = 0
INVARIANTS
    DestinationIsWhole
    OutcomeTellsTheTruth
    ModeIsPreserved
PROPERTIES
    NothingElseIsTouched
    EveryExportEnds
    ImplementsPromise
