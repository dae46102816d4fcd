SPECIFICATION Spec
CONSTANTS
    p1 = p1
    p2 = p2
    tick = tick
    tick2 = tick2
    console = console
    user = user
    a = a
    b = b
    None = None
    Posts = {p1}
    Groups <- Alone
    Blotato = {}
    Sensitive = {}
    Held = {}
    Origins = {"composer", "api", "agent"}
    Texts = {a, b}
    Cleared = {a}
    Ticks = {tick}
    Consoles = {}
    Users = {user}
    MaxRetries = 1
    BatchLimit = 2
    Faults = {}
    Operations = {"patch"}
    MaxRequests = 1
    MaxCrashes = 1
INVARIANTS
    UnclearedNeverLive
