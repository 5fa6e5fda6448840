SPECIFICATION Spec
CONSTANTS
    Writers = {w1, w2}
    Purgers = {}
    Collectors = {g}
    Objects = {o1, o2}
    Data = {a, b}
    Nil = Nil
    Torn = Torn
    DS = 2
    PS = 0
    MaxStripe = 1
    MaxGen = 2
    MaxQueue = 2
    MaxCrash = 0
    DiskFaults = FALSE
    DbFaults = FALSE
    Overwriting = FALSE
    SlowWriters = TRUE
    SlowBatches = FALSE
    SlowDeletes = FALSE
INVARIANTS RefsReadable
CHECK_DEADLOCK FALSE
