\* A rename in one directory is carried out, but its answer is an error.
CONSTANTS
    Dirs = {d1}
    Bases = {f, g}
    Sizes = {1}
    Flags = {"none"}
    MaxFileSize = 2
    NoEntry = NoEntry
    Retries = 2
    MaxFaults = 1
    MaxRenames = 1
SPECIFICATION Spec
INVARIANTS
    RenamedIsKept
