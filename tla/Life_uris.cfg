CONSTANTS
    Handles = {"h1", "h2", "h3"}
    Fds = {3, 4}
    Uris = {"udp:p//h", "udp://h:p", "a.zst"}
    UriOf <- DocUris
SPECIFICATION LSpec
CHECK_DEADLOCK FALSE
INVARIANTS InitAsDocumented
