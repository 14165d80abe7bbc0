SPECIFICATION FairSpec
CONSTANTS
    m1 = m1
    m2 = m2
    Masters <- MCMasters
    Silent <- MCSilent
    Certs <- MCCerts
    Trusted <- MCTrusted
    Room = 1
    BufSize = 2
    MaxBytes = 2
CHECK_DEADLOCK FALSE
INVARIANTS
    OnlyVerifiedReachServer
    EofMeansAll
PROPERTIES
    HalfCloseKeepsOtherWay
    SessionEnds
    NoMasterKeptWaiting
