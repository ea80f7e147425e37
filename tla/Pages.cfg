\* A client walks again and again through up to two posts, one a page, while
\* they come and go and every fault hits it, in every order there is. Its own
\* late pages stand for those of other readers.
SPECIFICATION Spec
CONSTANTS
    c1 = c1
    Clients <- OneClient
    Limit = 1
    MaxPosts = 2
    MaxWrites = 4
    MaxSecond = 1
    Faults <- AllFaults
    Absent = Absent
INVARIANTS TypeOK MissedExplained TwiceExplained QuietWalkIsExact
