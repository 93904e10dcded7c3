SPECIFICATION Spec
CONSTANTS
    Tasks = {t1, t2}
    Proxies = {p1, p2}
    Domains = {d}
    Initial = {}
    Threshold = 1
    Contended = TRUE
    MayCancel = TRUE
    NoProxy = NoProxy
    NoTask = NoTask
    NoDomain = NoDomain
SYMMETRY Symmetry
INVARIANTS
    TypeOK
    SelectedHasBreaker
    LockDiscipline
PROPERTIES
    GrantedStored
    GrantedUsable
