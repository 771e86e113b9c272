CONSTANTS
    p1 = p1
    p2 = p2
    Handles = {p1}
    Offered = {"sqlite"}
    Names = {1}
    Packets <- DocumentedPackets
    TablesAtStart <- NoTables
    Flags = {TRUE}
    MaxInits = 1
    MaxAttempts = 7
    MaxFaults = 0
SPECIFICATION Spec
CHECK_DEADLOCK FALSE
INVARIANTS InsertsAsDocumented
