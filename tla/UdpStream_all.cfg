CONSTANTS
    simple = simple
    var = var
    wave = wave
    NoType = NoType
    Types <- MCTypes
    Codec <- MCCodec
    CurVer <- MCCurVer
    PrefixLen <- MCPrefixLen
    NumGroups <- MCNumGroups
    MaxCount <- MCMaxCount
    WholeTail <- MCWholeTail
    MaxGroups = 2
    MemSize = 6
    ClearsByRead = {var}
    Marks = {FALSE}
    Ops = {"realloc", "typed"}
    InitCap = 2
    ClientCaps = {6}
    MaxRead = 100
    Versions = {1}
    Lengths = {2}
    Shapes <- UdpShapes
    MaxSent = 3
    Scenes <- UdpScenes
SPECIFICATION ULiveSpec
CHECK_DEADLOCK FALSE
INVARIANTS UTypeOK PacketPerDatagram IntactAtMostAsOften EIOOnlyAfterFailedRecv CounterIsDatagrams SilentAtMostAsOften
PROPERTIES ReceivedIsReturned
