SPECIFICATION FairSpec
CONSTANTS
    Tasks = {t1, t2}
    Threshold = 2
    HalfOpenAfter = 2
    Wrap = 4
    MaxClock = 5
    MaxSetBacks = 1
INVARIANTS
    TypeOK
    TrippedUnlessBusy
    OpenIsStamped
PROPERTIES
    OpenEnds
