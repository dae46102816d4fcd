SPECIFICATION FairSpec
CONSTANTS
    p1 = p1
    p2 = p2
    tick = tick
    tick2 = tick2
    console = console
    user = user
    a = a
    b = b
    None = None
    Posts = {p1, p2}
    Groups <- Apart
    Blotato = {p2}
    Sensitive = {p2}
    Held = {p1}
    Origins = {"agent"}
    Texts = {a}
    Cleared = {a}
    Ticks = {tick, tick2}
    Consoles = {}
    Users = {}
    MaxRetries = 1
    BatchLimit = 1
    Faults = {"crash", "answer", "log"}
    Operations = {}
    MaxRequests = 0
    MaxCrashes = 1
INVARIANTS
    AttemptsBounded
PROPERTIES
    UndoneOnlyUnlogged
    DueSettles
    ParkedSettles
    TicksTakeTurns
