SPECIFICATION UnixFairSpec
CONSTANTS
    p1 = p1
    k1 = k1
    k2 = k2
    NoPoint = NoPoint
    Free = Free
    AnyId = AnyId
    Points <- MCPoints
    Conns <- MCNoConn
    QueueSize = 4
    GiOnly = FALSE
    MaxMsgs = 3
    MaxGi = 0
    MaxConnects = 0
    Clients <- MCClients
    PeerCreds <- MCAllowed
    allowed_uid = 1
    allowed_gid = 1
    Backlog = 1
    ReplyRoom = 1
    Deaf <- MCSecond
    SentKinds = {"valid"}
    MaxAcceptErrors = 0
PROPERTY EveryLineAnswered
