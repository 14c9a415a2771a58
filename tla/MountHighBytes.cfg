SPECIFICATION Spec
CONSTANTS
    Clients = {rc, c1}
    First = rc
    Pool = {c1}
    NoClient = NoClient
    NoEntry = NoEntry
    Retries = 3
    MaxFileSize = 5
    HashBytes = 4
    IntBytes = 4
    Bodies <- MCHighBodies
    Settings <- MCOne
PROPERTIES
    UploadStoresBody
CHECK_DEADLOCK FALSE
