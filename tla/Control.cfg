SPECIFICATION FairSpec
CONSTANTS
    c1 = c1
    c2 = c2
    c3 = c3
    Loop = Loop
    Conns = {c1, c2, c3}
    MaxConnections = 2
    Backlog = 1
    BackoffStart = 1
    BackoffMax = 3
    MaxFrame = 4
    RequestSize = 2
    Me = 1000
    Root = 0
    Overflow = 65534
CHECK_DEADLOCK FALSE

    
PROPERTIES
    ImplementsService
