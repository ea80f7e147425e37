\* Three GETs, connections for all of them, no fault, on the views counted.
SPECIFICATION Spec
CONSTANTS
    g1 = g1
    g2 = g2
    g3 = g3
    NoRow = NoRow
    Gets <- ThreeGets
    PoolSize = 6
    MaxViews = 4
    Faults <- NoFaults
INVARIANT AllViewsCounted
