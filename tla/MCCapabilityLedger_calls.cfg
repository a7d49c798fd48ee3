SPECIFICATION FairSpec
CONSTANTS
    mcp = mcp  plugin = plugin  offer1 = offer1  offer2 = offer2  k1 = k1
    HostOp = {mcp, plugin}
    Reported = {mcp}
    ClientOp = {offer1}
    Client = {k1}
    Owner <- OneOwner
    MaxCalls = 1
    MaxCrashes = 2
    MaxFaults = 2
INVARIANTS TypeOK AtMostOnce SessionTruthful ResultReachesSession
PROPERTIES KeepsPromise CallsSettle
CHECK_DEADLOCK FALSE
