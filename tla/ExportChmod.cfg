SPECIFICATION Spec
CONSTANTS
    Writers <- OneWriter
    Bits <- TwoModes
    PrivateBits <- OwnerOnly
    HAS_FCHMOD = TRUE
    MAX_CHMODS = 2
PROPERTIES
    ModeWasCurrent
