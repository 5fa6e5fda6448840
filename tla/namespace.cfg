SPECIFICATION Spec
CONSTANTS
    Sessions = {s1, s2}
    Names = {a, b}
    Paths <- ZigZag
    Tables <- EarlierTables
    MaxInode = 3
    MaxCalls = 3
    Nil = Nil
    Overlaps = {}
SYMMETRY Symmetry
INVARIANTS
    TypeOK
    OnePathEach
    PurgesWholeSubtrees
PROPERTY ImplementsTree
CHECK_DEADLOCK FALSE
