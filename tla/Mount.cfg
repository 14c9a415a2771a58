SPECIFICATION Spec
CONSTANTS
    Clients = {rc, c1, c2}
    First = rc
    Pool = {c1, c2}
    NoClient = NoClient
    NoEntry = NoEntry
    Retries = 2
    MaxFileSize = 3
    HashBytes = 2
    IntBytes = 4
    Bodies <- MCBodies
    Settings <- MCSettings
INVARIANTS
    TypeOK
    StoredIsWhole
    RequestIsItsOwn
    LinkNamesEveryPart
PROPERTIES
    UploadStoresBody
    Starts
CHECK_DEADLOCK FALSE
