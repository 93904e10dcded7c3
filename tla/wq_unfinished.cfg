SPECIFICATION Spec
CONSTANTS
    w1 = w1
    w2 = w2
    a1 = a1
    a2 = a2
    b1 = b1
    Tasks = {a1, a2, b1}
    Waves = {w1, w2}
    Batch <- MCBatch
    Matches <- MCMatches
    Concurrency = 2
    MaxRetries = 1
    MayDrop = FALSE
    NoTask = NoTask
CHECK_DEADLOCK FALSE
INVARIANTS
    CollectsFinished
