SPECIFICATION FairSpec
CONSTANTS
    acs = acs
    other = other
    reversed = reversed
    p1 = p1
    p2 = p2
    Clients = {acs, other, reversed}
    Passwords = {p1, p2}
    Secret <- Secrets
    CnonceFirst = {reversed}
    MaxServers = 2
    MaxCuts = 1
    Nobody = Nobody
INVARIANTS
    TypeOK
    SocketOutlivesThread
PROPERTIES
    RequestsAuthorized
    StopReturns
    RightPasswordServed
CHECK_DEADLOCK FALSE
