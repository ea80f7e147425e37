\* Commands to any version on both engines, crashes, three posts.
SPECIFICATION Spec
CONSTANTS
    p1 = p1
    p2 = p2
    p3 = p3
    PostIds <- ThreePosts
    Absent = Absent
SYMMETRY Symmetry
INVARIANTS TypeOK SchemaMatchesVersion StampedServes CommentsHavePosts FailsOnlyOnTorn
PROPERTIES PostsSurvive
