CONSTANTS
    Tasks = {t1, t2}
    Browsers = {b1, b2, b3}
    Contexts = {c1}
    Shared = Shared
    NoTask = NoTask
    NoBrowser = NoBrowser
    MinSize = 0
    MaxSize = 1
    MayCancel = FALSE
    MayCrash = FALSE
SPECIFICATION Spec
SYMMETRY Symmetry
INVARIANTS
    PermitsAgreeWithActive
