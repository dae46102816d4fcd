SPECIFICATION Spec
CONSTANTS
    w1 = w1
    w2 = w2
    u1 = u1
    u2 = u2
    None = None
    Syncs = {w1, w2}
    Users = {u1, u2}
    Rows <- SheetRows
    MaxEdits = 1
    MaxBegun = 1
    MaxFaults = 1
INVARIANTS
    DraftsBounded
    ConditionRecorded
PROPERTIES
    MirrorsSheet
