\* Two requests, one write, every fault, with fairness.
SPECIFICATION FairSpec
CONSTANTS
    r1 = r1
    r2 = r2
    NoRow = NoRow
    Absent = Absent
    Reqs <- TwoReqs
    MaxId = 1
    MaxWrites = 1
    ReusesIds = TRUE
    Faults <- AllFaults
PROPERTIES AlwaysAnswered EventualCoherence
