SPECIFICATION FairSpec
CONSTANTS
    c1 = c1
    child = child
    Gone = Gone
    Child = child
    Clients = {c1}
    ClientMethods = {"reload", "reconnect", "status"}
    MaxQueue = 3
    Timed = TRUE
INVARIANTS
    TypeOK
    DestroyedUnused
    AcceptedMeansRequested
PROPERTIES
    WaitsEnd
    ReloadDelivered
    CancelEndsProcess
    ImplementsRunLoop
CHECK_DEADLOCK FALSE
