SPECIFICATION ProcessSpec
CONSTANTS
    SOURCE_MIN_BACKOFF = 200
    SOURCE_MAX_BACKOFF = 5000
    SOURCE_STABLE_RUN = 3
    None = None
    Lookups <- MCSocketOnly
    PemFiles <- MCPemFiles
    MaxIoErrors = 0
    MaxRestarts = 1
INVARIANT
    SocketDirectoryIs0750
