\* Commands to any version on both engines: the tables at the head.
SPECIFICATION Spec
CONSTANTS
    p1 = p1
    p2 = p2
    p3 = p3
    PostIds <- ThreePosts
    Absent = Absent
INVARIANT HeadHasEveryTable
