CONSTANTS
    Worker = {w1, w2}
    WordSize = 4
    WindowSize = 2
    MinChunk = 2
    MaxChunk = 4
    ChunkThreshold = 5
    Mask = {0, 1}
    Comma = ","
    HashTable <- MCHashTable
    MinSize = 2
    MaxTokenSize = 12
    ProbeSize = 8
    Space = " "
    Newline = "n"
    Comment = "#"
    Reference = "r"
    Lead = "u"
    Trail = "v"
    Tree <- MCTree
    Option <- MCOption
    Indexed <- MCIndexed
    Alarm = "$"
    MaxFailures = 1
SPECIFICATION Spec
INVARIANTS
    TypeOK
    HitsAreExact
    SmallFilesShown
    IndexedIsClean
    NothingOverlooked
    EveryFileCounted
    ChunksAreCuts
    EditsSettle
PROPERTIES
    ScanEnds
CHECK_DEADLOCK FALSE
