SPECIFICATION Spec
CONSTANTS
    Tasks = {t1, t2}
    Proxies = {p1, p2}
    Domains = {d}
    Initial = {p1, p2}
    Threshold = 1
    Contended = FALSE
    MayCancel = FALSE
    NoProxy = NoProxy
    NoTask = NoTask
    NoDomain = NoDomain
PROPERTIES
    UnbindsOwn
