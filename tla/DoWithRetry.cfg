\* Fewer renaming threads than clients: the burst is always served.
CONSTANTS
    Clients = {c1, c2}
    Threads = {t1, t2, t3}
    Renamers = {t1}
    Retries = 2
    MaxCalls = 1
    NoClient = NoClient
SPECIFICATION Spec
INVARIANTS
    TypeOK
    ClientsExclusive
    ClientsConserved
    NoLostWakeup
    HeldIsStacked
    SleepersHoldLittle
    NoPoolDeadlock
PROPERTIES
    EveryCallReturns
    PoolSpec
