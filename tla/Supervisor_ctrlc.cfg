SPECIFICATION FairSpec
CONSTANTS
    SOURCE_MIN_BACKOFF = 200
    SOURCE_MAX_BACKOFF = 5000
    SOURCE_STABLE_RUN = 3
PROPERTY CtrlCStops
