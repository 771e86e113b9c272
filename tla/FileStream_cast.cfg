CONSTANTS
    simple = simple
    var = var
    wave = wave
    NoType = NoType
    Types <- MCTypes
    Codec <- MCCodec
    CurVer <- MCCurVer
    PrefixLen <- MCPrefixLen
    NumGroups <- MCNumGroups
    MaxCount <- MCMaxCount
    WholeTail <- MCWholeTail
    MaxGroups = 2
    MemSize = 6
    ClearsByRead = {var}
    Marks = {FALSE}
    Ops = {"realloc"}
    InitCap = 2
    ClientCaps = {}
    MaxRead = 100
    Versions = {0}
    Lengths = {0}
    Shapes <- AllShapes
    MaxSent = 1
    Scenes <- CleanScenes
    Live = FALSE
    Persistent = TRUE
SPECIFICATION FSpec
CHECK_DEADLOCK FALSE
INVARIANTS CastFindsWhatWasRead
