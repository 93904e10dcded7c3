CONSTANTS
    Calls = {c1, c2, c3}
    Droppable = {c1, c2, c3}
    MaxRequests = 2
    Window = 2
    Cost = 2
    MaxPages = 2
    MaxTime = 3
    Nodes = {n1, n2, n3}
    Graphs <- AllGraphs
    Missing = 1
    Workers = {w1, w2}
SPECIFICATION MCSpec
SYMMETRY Symmetry
INVARIANTS
    GraphTypeOK ReservedOnce SlotsWithinRate InputsReady
