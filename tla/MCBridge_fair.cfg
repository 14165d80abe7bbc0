SPECIFICATION FairSpec
CONSTANTS
    p1 = p1
    p2 = p2
    c1 = c1
    c2 = c2
    NoPoint = NoPoint
    Free = Free
    Points <- MCPoints
    Conns <- MCConns
    QueueSize = 3
    GiOnly = TRUE
    MaxMsgs = 1
    MaxGi = 2
    MaxConnects = 2
PROPERTIES
    GiTerminates
    ShutdownCompletes
    HandlerReturns
