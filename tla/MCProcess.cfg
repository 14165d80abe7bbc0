SPECIFICATION ProcessSpec
CONSTANTS
    SOURCE_MIN_BACKOFF = 200
    SOURCE_MAX_BACKOFF = 5000
    SOURCE_STABLE_RUN = 3
    None = None
    Lookups <- MCLookups
    PemFiles <- MCPemFiles
    MaxIoErrors = 1
    MaxRestarts = 1
INVARIANTS
    ProcessTypeOK
    AcceptedConfigWorks
    NeverPlaintextOnTheNetwork
    ServingSocketIsReady
    LeftoversAreNoObstacle
    WaitsGrowUntilStable
PROPERTIES
    OthersLeftAlone
    OnlyCtrlCStopsTheServer
    SourceComesBack
    InsistentCtrlCStops
