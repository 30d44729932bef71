SPECIFICATION LimitsSpec
CONSTANTS
    Sources <- Streams
    MAX_JSON_INPUT_BYTES = 4
    Objects = {1, 2, 3}
    Root = 1
    Heaps <- StreamHeaps
    MAX_JSON_NESTING = 2
    MAX_JSON_NODES = 4
INVARIANTS
    AcceptedIsWhole
    ResultIsChunkingIndependent
    ReadingIsBounded
PROPERTIES
    EveryValueIsDecided
