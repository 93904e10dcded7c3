CONSTANTS
    Tasks = {t1, t2}
    Browsers = {b1, b2}
    Contexts = {c1, c2}
    Shared = Shared
    NoTask = NoTask
    NoBrowser = NoBrowser
    MinSize = 1
    MaxSize = 2
    MayCancel = FALSE
    MayCrash = TRUE
SPECIFICATION FairSpec
INVARIANTS
    ActiveExact ContextIsolation LeaseVerdict
PROPERTIES
    AcquireEnds
