\* Two requests on two ids of a SQLite table, no fault: ids change owners.
SPECIFICATION Spec
CONSTANTS
    r1 = r1
    r2 = r2
    NoRow = NoRow
    Absent = Absent
    Reqs <- TwoReqs
    MaxId = 2
    MaxWrites = 3
    ReusesIds = TRUE
    Faults <- NoFaults
SYMMETRY Symmetry
INVARIANTS StaleExplained WriterMeetsItsPost
