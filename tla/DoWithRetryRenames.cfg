\* As many renaming threads as clients: each rename may hold a client
\* while it waits for another one.
CONSTANTS
    Clients = {c1, c2}
    Threads = {t1, t2}
    Renamers = {t1, t2}
    Retries = 1
    MaxCalls = 1
    NoClient = NoClient
SPECIFICATION Spec
PROPERTIES
    EveryCallReturns
