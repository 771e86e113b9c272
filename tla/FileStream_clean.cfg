CONSTANTS
    simple = simple
    var = var
    wave = wave
    NoType = NoType
    Types <- MCTypes
    Codec <- MCCodec
    CurVer <- MCCurVer
    PrefixLen <- MCPrefixLen
    NumGroups <- MCNumGroups
    MaxCount <- MCMaxCount
    WholeTail <- MCWholeTail
    MaxGroups = 2
    MemSize = 6
    ClearsByRead = {var}
    Marks = {FALSE}
    Ops = {"ll", "realloc"}
    InitCap = 2
    ClientCaps = {1, 3}
    MaxRead = 100
    Versions = {0}
    Lengths = {0}
    Shapes <- AllShapes
    MaxSent = 3
    Scenes <- CleanScenes
    Live = FALSE
    Persistent = FALSE
SPECIFICATION LiveSpec
CHECK_DEADLOCK FALSE
INVARIANTS NothingStale BytesReadExact BytesWrittenExact
PROPERTIES FIFO Drained
