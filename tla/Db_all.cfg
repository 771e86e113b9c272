CONSTANTS
    p1 = p1
    p2 = p2
    Handles = {p1, p2}
    Offered = {"sqldir", "pgsql", "sqlite"}
    Names = {1, 2}
    Packets <- MixedPackets
    TablesAtStart <- NoTables
    Flags = {TRUE, FALSE}
    MaxInits = 1
    MaxAttempts = 3
    MaxFaults = 1
SPECIFICATION Spec
CHECK_DEADLOCK FALSE
INVARIANTS DbTypeOK UsableBetweenCalls ZeroMeansStored NoHoles
PROPERTIES FilesAreFinal Atomic
VIEW AllButRet
SYMMETRY Symmetry
