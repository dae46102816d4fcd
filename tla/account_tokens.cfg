SPECIFICATION Spec
CONSTANTS
    t1 = t1
    t2 = t2
    Tasks = {t1, t2}
    MaxGrants = 2
    MaxBegun = 1
    MaxFaults = 1
    MaxErrors = 1
INVARIANTS
    RefreshTokenKept
PROPERTIES
    DeadTokenNoticed
CHECK_DEADLOCK FALSE
