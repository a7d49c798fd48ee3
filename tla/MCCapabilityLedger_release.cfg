SPECIFICATION Spec
CONSTANTS
    mcp = mcp  plugin = plugin  offer1 = offer1  offer2 = offer2  k1 = k1
    HostOp = {}
    Reported = {}
    ClientOp = {offer1, offer2}
    Client = {k1}
    Owner <- SameOwner
    MaxCalls = 0
    MaxCrashes = 0
    MaxFaults = 0
INVARIANTS CancelledNeverRan
CHECK_DEADLOCK FALSE
