\* Two requests on two names, a token that runs out, database failures.
SPECIFICATION Spec
CONSTANTS
    r1 = r1
    r2 = r2
    n1 = n1
    n2 = n2
    p1 = p1
    p2 = p2
    NoToken = NoToken
    Reqs <- TwoReqs
    Names <- TwoNames
    Passwords <- TwoPasswords
    Life = 1
    MaxTime = 2
    Faults <- DbFaults
SYMMETRY Symmetry
INVARIANTS TypeOK OneUserPerName CreatedCanLogin BarredNeverActs
