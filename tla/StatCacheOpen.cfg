\* One thread: the entry of a file expires before the kernel's trust in it.
CONSTANTS
    Threads = {t1}
    Paths = {p}
    Sizes = {0, 1}
    NoEntry = NoEntry
    Ttl = 1
    AttrTimeout = 1
    MaxCall = 0
SPECIFICATION Spec
INVARIANTS
    MountSurvives
