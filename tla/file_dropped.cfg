SPECIFICATION Spec
CONSTANTS
    Inodes = {i}
    Handles = {h1}
    Chunks = {c1, c2, c3}
    Payloads <- SlicePayloads
    Nil = Nil
    SliceSize = 2
    MaxSize = 3
    MaxVersion = 2
    MaxCalls = 2
    MaxCrash = 0
    Keep = 1
    Faults = FALSE
    Overlaps = {"dropped"}
SYMMETRY FileSymmetry
INVARIANTS
    ReadsOwnView
CHECK_DEADLOCK FALSE
