SPECIFICATION Spec
CONSTANTS
    s1 = s1
    s2 = s2
    s3 = s3
    None = None
    Requests = {s1, s2, s3}
    GoneIsOk = TRUE
    MaxPosts = 3
    MaxBegun = 3
    MaxMoves = 2
    MaxFaults = 1
SYMMETRY Symmetry
INVARIANTS
    ShownOnce
    NoStrayPost
CHECK_DEADLOCK FALSE
