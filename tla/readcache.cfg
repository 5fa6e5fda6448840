SPECIFICATION Spec
CONSTANTS
    Readers = {r1, r2}
    Chunks = {1}
    Disks = {1, 2}
    Values = {a, b}
    Nil = Nil
    Threshold = 1
    MaxRow = 2
    MaxPath = 2
    MaxWrite = 1
    Overlaps = {}
SYMMETRY CacheSymmetry
INVARIANTS TypeOK NoStaleHit ReadsCurrent CopiesReachable CopiesAccounted
CHECK_DEADLOCK FALSE
