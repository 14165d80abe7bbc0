SPECIFICATION NatsSpec
CONSTANTS
    p1 = p1
    p2 = p2
    c1 = c1
    NoPoint = NoPoint
    Free = Free
    Points <- MCPoints
    Conns <- MCOneConn
    QueueSize = 4
    GiOnly = FALSE
    MaxMsgs = 2
    MaxGi = 1
    MaxConnects = 1
    MaxInbox = 2
    MaxEarly = 1
    MaxAckLosses = 1
    MaxCrashes = 1
SYMMETRY PointSymmetry
INVARIANTS
    AckedMeansHandled
    MasterImageConverges
