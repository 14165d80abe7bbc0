SPECIFICATION MetricsSpec
CONSTANTS
    p1 = p1
    p2 = p2
    s1 = s1
    NoPoint = NoPoint
    Free = Free
    Points <- MCPoints
    Conns <- MCNoConn
    Scrapers <- MCScrapers
    QueueSize = 4
    GiOnly = FALSE
    MaxMsgs = 2
    MaxGi = 0
    MaxConnects = 0
    MaxInbox = 2
    MaxEarly = 0
    MaxAckLosses = 1
    MaxCrashes = 1
INVARIANTS
    DispatchedAddsUp
    ScrapeIsPlausible
PROPERTY
    EveryMessageAcked
