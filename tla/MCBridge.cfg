SPECIFICATION Spec
CONSTANTS
    p1 = p1
    p2 = p2
    c1 = c1
    c2 = c2
    NoPoint = NoPoint
    Free = Free
    Points <- MCPoints
    Conns <- MCConns
    QueueSize = 2
    GiOnly = FALSE
    MaxMsgs = 3
    MaxGi = 1
    MaxConnects = 2
SYMMETRY Symmetry
INVARIANTS
    TypeOK
    GiReplyIsSnapshot
    MasterImageConverges
PROPERTIES
    GiBracketed
    ImplementsPointStore
