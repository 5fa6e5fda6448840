SPECIFICATION FairSpec
CONSTANTS
    Writers = {w1, w2}
    Purgers = {}
    Collectors = {g}
    Objects = {o1, o2}
    Data = {a}
    Nil = Nil
    Torn = Torn
    DS = 2
    PS = 1
    MaxStripe = 1
    MaxGen = 1
    MaxQueue = 2
    MaxCrash = 1
    DiskFaults = FALSE
    DbFaults = FALSE
    Overwriting = FALSE
    SlowWriters = FALSE
    SlowBatches = FALSE
    SlowDeletes = FALSE
PROPERTY LeaksReclaimed AlwaysProtectedAgain
CHECK_DEADLOCK FALSE
