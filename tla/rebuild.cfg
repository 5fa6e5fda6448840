SPECIFICATION Spec
CONSTANTS
    Writers = {w1}
    DS = 2
    PS = 1
    MaxAdd = 1
    MaxStripe = 1
    MaxWrite = 2
    MaxTask = 1
    MaxLoss = 1
    MaxFault = 1
    Nil = Nil
    Garbage = Garbage
    Overlaps = {"grow"}
INVARIANTS
    TypeOK
    RebuildKeepsData
    PoolServesWhole
    StripeShape
PROPERTIES
    RepairedDiskComplete
    RebuildRecovers
    JobEnds
CHECK_DEADLOCK FALSE
