SPECIFICATION WindowSpec
CONSTANTS
    PolicyTexts = {"p1", "p2", "bad policy"}
    ResponseTexts = {"r1", "r2", "bad response"}
    Accepted = {"p1", "p2", "r1", "r2"}
    Targets = {"t1", "t2"}
    MAX_EDITS = 4
INVARIANTS
    ShownBelongsTogether
PROPERTIES
    ExportIsWhatIsShown
CHECK_DEADLOCK FALSE
