\* Two directories, whole files and files of two parts, one failed request.
CONSTANTS
    Dirs = {d1, d2}
    Bases = {f, g}
    Sizes = {1, 3}
    Flags = {"none", "NOREPLACE", "EXCHANGE"}
    MaxFileSize = 2
    NoEntry = NoEntry
    Retries = 2
    MaxFaults = 1
    MaxRenames = 1
SPECIFICATION Spec
INVARIANTS
    TypeOK
    OrderIsSafe
PROPERTIES
    RenameTakesEffect
    RenameEnds
