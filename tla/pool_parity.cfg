SPECIFICATION Spec
CONSTANTS
    Writers = {w1, w2}
    Purgers = {p, q}
    Collectors = {}
    Objects = {o1}
    Data = {a, b}
    Nil = Nil
    Torn = Torn
    DS = 1
    PS = 1
    MaxStripe = 1
    MaxGen = 2
    MaxQueue = 4
    MaxCrash = 0
    DiskFaults = FALSE
    DbFaults = FALSE
    Overwriting = TRUE
    SlowWriters = FALSE
    SlowBatches = FALSE
    SlowDeletes = FALSE
SYMMETRY Symmetry
INVARIANTS QuiescentParity PurgedDataErased StaleNeverCurrent
CHECK_DEADLOCK FALSE
