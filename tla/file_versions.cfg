SPECIFICATION Spec
CONSTANTS
    Inodes = {i}
    Handles = {h1, h2}
    Chunks = {c1, c2}
    Payloads <- BytePayloads
    Nil = Nil
    SliceSize = 1
    MaxSize = 1
    MaxVersion = 3
    MaxCalls = 1
    MaxCrash = 0
    Keep = 1
    Faults = FALSE
    Overlaps = {}
SYMMETRY FileSymmetry
INVARIANTS
    VersionsIntact
    CurrentKept
CHECK_DEADLOCK FALSE
