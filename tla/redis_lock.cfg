SPECIFICATION LockFairSpec
CONSTANTS
    t1 = t1
    t2 = t2
    slow = slow
    Unset = Unset
    Tasks = {t1, t2, slow}
    Bounded = {t1, t2}
    TTL = 3
    HardLimit = 3
INVARIANTS
    HolderOwnsKey
    MutualExclusion
PROPERTIES
    ImplementsExclusiveSection
    LockComesFree
