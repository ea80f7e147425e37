\* Three GETs on a pool of two connections, with database failures.
SPECIFICATION FairSpec
CONSTANTS
    g1 = g1
    g2 = g2
    g3 = g3
    NoRow = NoRow
    Gets <- ThreeGets
    PoolSize = 2
    MaxViews = 4
    Faults <- DbFaults
INVARIANTS TypeOK PoolBalanced ViewsBounded ViewsExact
PROPERTIES EveryViewEnds
