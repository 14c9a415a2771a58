\* Two threads, one file; entries expire and so does the kernel's trust.
CONSTANTS
    Threads = {t1, t2}
    Paths = {p}
    Sizes = {0, 1}
    NoEntry = NoEntry
    Ttl = 0
    AttrTimeout = 1
    MaxCall = 1
SPECIFICATION Spec
SYMMETRY Symmetric
CHECK_DEADLOCK FALSE
INVARIANTS
    TypeOK
    StalenessIsBounded
    OwnChangesAreSeen
