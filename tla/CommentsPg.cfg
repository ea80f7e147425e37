\* Two requests and a PostgreSQL database.
SPECIFICATION Spec
CONSTANTS
    r1 = r1
    r2 = r2
    None = None
    Reqs <- TwoReqs
    MaxPost = 2
    MaxComment = 2
    MaxWrites = 4
    Database = "postgresql"
SYMMETRY Symmetry
INVARIANTS TypeOK CommentsBelong ListsItsPost
PROPERTIES OnlyThroughItsPost
