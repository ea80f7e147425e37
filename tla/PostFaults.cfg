\* Two requests on a SQLite table with one id, every fault: what can go stale and why.
SPECIFICATION HSpec
CONSTANTS
    r1 = r1
    r2 = r2
    NoRow = NoRow
    Absent = Absent
    Reqs <- TwoReqs
    MaxId = 1
    MaxWrites = 2
    ReusesIds = TRUE
    Faults <- AllFaults
SYMMETRY Symmetry
INVARIANTS TypeOK StaleExplained FillsCurrent Genuine
PROPERTIES PatchTouchesOnlyItsFields Implements
