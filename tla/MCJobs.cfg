CONSTANTS
    Customers = {"t1", "t2"}
    Adders = {"a1", "a2"}
    Operators = {"o1", "o2"}
    MaxThrows = 1
    MaxCap = 2
    PlatformScopes = {{"cron"}, {"caps"}, {"operators"}, {}}
    RecKeys = {"k1", "k2"}
    Connectors = {"c1", "c2"}
    NoConnector = "none"
    MaxChunks = 2
    MaxInFlight = 1
    MaxRequests = 2
    MaxMoves = 2
    RecScopes <- MCRecScopes
SPECIFICATION JobsSpec
PROPERTIES EveryTenantServed ErasureConfirmed  ErasureCompletes
CHECK_DEADLOCK FALSE
