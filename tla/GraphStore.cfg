SPECIFICATION Spec
CONSTANTS
    Graphs = {g1, g2}
    Names = {n1, n2}
    Blank = Blank
    Trunk = 2
    MaxCalls = 6
INVARIANTS TypeOK NoPhantomVertex IdsNameVertices
PROPERTY KeepsItsGraphs
CHECK_DEADLOCK FALSE
