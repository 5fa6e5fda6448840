SPECIFICATION Spec
CONSTANTS
    Writers = {w1}
    DS = 2
    PS = 1
    MaxAdd = 0
    MaxStripe = 1
    MaxWrite = 2
    MaxTask = 1
    MaxLoss = 1
    MaxFault = 0
    Nil = Nil
    Garbage = Garbage
    Overlaps = {}
PROPERTIES
    AnyLossRecovers
CHECK_DEADLOCK FALSE
