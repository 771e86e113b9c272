CONSTANTS
    simple = simple
    var = var
    wave = wave
    NoType = NoType
    Types <- MCTypes
    Codec <- MCCodec
    CurVer <- MCCurVer
    PrefixLen <- MCPrefixLen
    NumGroups <- MCNumGroups
    MaxCount <- MCMaxCount
    WholeTail <- MCWholeTail
    Ops = {"ll", "realloc"}
    InitCap = 3
    ClientCaps = {3}
    MaxGroups = 1
    MemSize = 4
    Versions = {0, 2}
    Lengths = {0}
    ClearsByRead = {var}
    Shapes <- MCOneShape
    MaxSent = 1
    Marks = {FALSE}
    MaxRead = 4
SPECIFICATION Spec
CHECK_DEADLOCK FALSE
INVARIANTS TypeOK HandleConsistent RoomForPayload HeaderIsThePayloads LLInv
PROPERTIES HeaderKept
