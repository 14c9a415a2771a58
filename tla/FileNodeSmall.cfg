\* Files that are never split: truncates, stale listings and faults.
CONSTANTS
    Nodes = {n1}
    Listers = {r1}
    Bytes = {a, z}
    Zero = z
    MaxFileSize = 2
    MaxSize = 2
    TruncateSizes = {0, 1, 2}
    Retries = 2
    MaxFaults = 2
    MaxTempFiles = 4
    Concurrent = {"list"}
    NoEntry = NoEntry
SPECIFICATION Spec
INVARIANTS
    FlushedIsDurable
