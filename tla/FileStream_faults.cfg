CONSTANTS
    simple = simple
    var = var
    wave = wave
    NoType = NoType
    Types <- MCTypes
    Codec <- MCCodec
    CurVer <- MCCurVer
    PrefixLen <- MCPrefixLen
    NumGroups <- MCNumGroups
    MaxCount <- MCMaxCount
    WholeTail <- MCWholeTail
    MaxGroups = 2
    MemSize = 6
    ClearsByRead = {var}
    Marks = {FALSE}
    Ops = {"realloc", "typed"}
    InitCap = 2
    ClientCaps = {6}
    MaxRead = 100
    Versions = {0, 2}
    Lengths = {2}
    Shapes <- NewShapes
    MaxSent = 2
    Scenes <- FaultyScenes
    Live = TRUE
    Persistent = TRUE
SPECIFICATION FSpec
CHECK_DEADLOCK FALSE
INVARIANTS FTypeOK SilentInOrder NothingStale
