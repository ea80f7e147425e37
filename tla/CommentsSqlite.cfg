\* Two requests on a SQLite database, that does not enforce the foreign key.
SPECIFICATION Spec
CONSTANTS
    r1 = r1
    r2 = r2
    None = None
    Reqs <- TwoReqs
    MaxPost = 2
    MaxComment = 2
    MaxWrites = 4
    Database = "sqlite"
SYMMETRY Symmetry
INVARIANT CommentsBelong
