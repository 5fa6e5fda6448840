SPECIFICATION Spec
CONSTANTS
    Handlers = {a1, a2}
    Clients = {c1}
    Names = {"ann", "bob", "Bob"}
    Fold <- LowerCase
    Earlier <- EarlierSetups
    Granted = {"read", "write"}
    MaxUser = 3
    MaxShare = 2
    MaxToken = 1
    MaxCalls = 3
    MaxFaults = 1
    Nil = Nil
    Overlaps = {}
SYMMETRY Symmetry
INVARIANTS
    TypeOK
    FreshPermission
    SlicesDecodable
    NothingOutlives
    TokenAdmits
    HalfShareUnused
PROPERTY BootstrapCloses
CHECK_DEADLOCK FALSE
