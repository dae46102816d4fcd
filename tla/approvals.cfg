SPECIFICATION Spec
CONSTANTS
    r1 = r1
    s1 = s1
    s2 = s2
    None = None
    Rows = {r1}
    Servers = {s1, s2}
    TwoStage = TRUE
    MaxTokens = 2
    MaxRequests = 4
    MaxRevived = 1
SYMMETRY Symmetry
INVARIANTS
    SignedTwice
    ActedOnce
CHECK_DEADLOCK FALSE
