SPECIFICATION Spec
CONSTANTS
    v1 = v1
    w1 = w1
    w2 = w2
    Views = {v1}
    Workers = {w1, w2}
    MaxAttempts = 2
    Faults = {"reject", "down", "enqueue", "broker", "redeliver", "crash", "cleanup"}
    MaxFaults = 3
    MaxVisits = 2
    MaxQueue = 2
INVARIANTS
    ActiveKeyLive
PROPERTIES
    PaidActivationSettles
