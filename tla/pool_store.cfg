SPECIFICATION Spec
CONSTANTS
    Writers = {w1, w2}
    Purgers = {p}
    Collectors = {g}
    Objects = {o1, o2}
    Data = {a, b}
    Nil = Nil
    Torn = Torn
    DS = 2
    PS = 1
    MaxStripe = 1
    MaxGen = 1
    MaxQueue = 2
    MaxCrash = 1
    DiskFaults = TRUE
    DbFaults = TRUE
    Overwriting = FALSE
    SlowWriters = FALSE
    SlowBatches = TRUE
    SlowDeletes = TRUE
SYMMETRY Symmetry
INVARIANTS TypeOK RefsReadable ExclusiveSlots
PROPERTY ImplementsObjectStore
CHECK_DEADLOCK FALSE
