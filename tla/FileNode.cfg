\* Files of up to three parts; requests may fail and are retried or given up.
CONSTANTS
    Nodes = {n1}
    Listers = {r1}
    Bytes = {a, z}
    Zero = z
    MaxFileSize = 2
    MaxSize = 4
    TruncateSizes = {}
    Retries = 2
    MaxFaults = 2
    MaxTempFiles = 3
    Concurrent = {}
    NoEntry = NoEntry
SPECIFICATION Spec
INVARIANTS
    TypeOK
    FlushedIsDurable
    CacheDirTidy
    StatIsListed
PROPERTIES
    UnlinkLeavesNothing
    JobsEnd
