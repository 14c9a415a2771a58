\* A write may run while another thread flushes the handle.
CONSTANTS
    Nodes = {n1}
    Listers = {r1}
    Bytes = {a, z}
    Zero = z
    MaxFileSize = 2
    MaxSize = 2
    TruncateSizes = {}
    Retries = 1
    MaxFaults = 0
    MaxTempFiles = 1
    Concurrent = {"write"}
    NoEntry = NoEntry
SPECIFICATION Spec
INVARIANTS
    FlushedIsDurable
