SPECIFICATION Spec
CONSTANTS
    Inodes = {i}
    Handles = {h1}
    Chunks = {c1, c2, c3}
    Payloads <- SlicePayloads
    Nil = Nil
    SliceSize = 2
    MaxSize = 4
    MaxVersion = 2
    MaxCalls = 2
    MaxCrash = 1
    Keep = 1
    Faults = TRUE
    Overlaps = {}
SYMMETRY FileSymmetry
INVARIANTS
    TypeOK
    VersionsIntact
    ReadsOwnWrites
CHECK_DEADLOCK FALSE
