SPECIFICATION Spec
CONSTANTS
    Kinds = {"maintenance"}
    Entries = {e1, e2}
    Writers = {w1, w2}
    Inodes <- EnoughInodes
    DiskFails = FALSE
INVARIANTS
    FileMatchesMemory
CHECK_DEADLOCK FALSE
