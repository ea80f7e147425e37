\* Two slots on one id of a sequence: one write, two GETs, every fault, with fairness.
SPECIFICATION BFairSpec
CONSTANTS
    r1 = r1
    r2 = r2
    NoRow = NoRow
    Absent = Absent
    Reqs <- TwoReqs
    MaxId = 1
    MaxWrites = 1
    MaxGets = 2
    ReusesIds = FALSE
    Faults <- AllFaults
INVARIANTS BTypeOK ViewsEarned
PROPERTIES OnlyTasksCount ViewsCatchUp
