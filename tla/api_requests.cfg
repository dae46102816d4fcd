SPECIFICATION Spec
CONSTANTS
    r1 = r1
    r2 = r2
    k1 = k1
    draft = draft
    post = post
    NoKey = NoKey
    None = None
    Requests = {r1, r2}
    Keys = {k1}
    Bodies = {draft, post}
    Scheduling = {post}
    Limit = 1
    Faults = {"crash", "error"}
    MaxFaults = 1
    MaxCalls = 3
    MaxMoves = 1
INVARIANTS
    OnePostPerKey
    ReplayHonest
    QuotaOvershoot
PROPERTIES
    ImplementsIdempotencySlot
    SlotComesFree
CHECK_DEADLOCK FALSE
