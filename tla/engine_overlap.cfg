SPECIFICATION Spec
CONSTANTS
    p1 = p1
    p2 = p2
    tick = tick
    tick2 = tick2
    console = console
    user = user
    a = a
    b = b
    None = None
    Posts = {p1, p2}
    Groups <- Siblings
    Blotato = {p2}
    Sensitive = {p1}
    Held = {}
    Origins = {"composer", "api", "agent"}
    Texts = {a}
    Cleared = {a}
    Ticks = {tick}
    Consoles = {console}
    Users = {}
    MaxRetries = 1
    BatchLimit = 2
    Faults = {"crash", "gate"}
    Operations = {}
    MaxRequests = 0
    MaxCrashes = 1
INVARIANTS
    TypeOK
    SubmissionBudget
    ExclusiveClaim
    AtMostOneLive
    AggregateHonest
    NoOrphanWithoutCrash
PROPERTIES
    ImplementsSubmissionLedger
    ImplementsPostOutcome
