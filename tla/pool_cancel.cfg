CONSTANTS
    Tasks = {t1, t2, t3}
    Browsers = {b1, b2, b3}
    Contexts = {c1}
    Shared = Shared
    NoTask = NoTask
    NoBrowser = NoBrowser
    MinSize = 1
    MaxSize = 2
    MayCancel = TRUE
    MayCrash = FALSE
SPECIFICATION Spec
SYMMETRY Symmetry
INVARIANTS
    TypeOK Capacity ActiveCovers SingleOwner IdleLooksHealthy RoomOnReturn
PROPERTIES
    ImplementsLeasePool
