CONSTANTS
    Handles = {"h", "other"}
    Fds = {3, 4, 5}
    Uris = {"wfs", "udp://h:p", "literal", "udp:p//h"}
    UriOf <- LifeUris
    TestHandle = "h"
    WaveFile = "wfs"
    Libraries = {"new", "old", "absent"}
    Exports <- MCExports
    MaxBatch = 3
    InBatch = 2
    MaxFile = 2
SPECIFICATION PSpec
CHECK_DEADLOCK FALSE
INVARIANTS PTypeOK ClosesItsOwn OnlySocketsOrphaned RefusedIsZeroed UsedIsWhole StaleOnlyWhenShort
PROPERTIES OthersStayOpen
