SPECIFICATION MCSpec
CONSTANTS
    MaxGapSearch = 3
    Limits <- MCLimits
    Docs <- MCAllDocs
    Databases <- MCDatabases
    MaxWrites = 2
    MaxClock = 2
    Debounce = 2
    MaxEvents = 2
    Ids = {i1, i2}
    NoId = NoId
    MaxFaults = 1
    Updaters = {u1, u2}
    Files = {ndb, hdb}
    MaxRelease = 1
    MaxRuns = 3
    Peers = {p1, p2}
    NoPeer = NoPeer
    Tasks = {t1, t2, t3}
    MaxAccepts = 3
    MaxTicks = 2
    MaxConnections = 2
    MaxConcurrent = 1
    Burst = 1
    RatePerTick = 1
    IdleEvictAfter = 2
    AllowRoots = {"root"}
    Paths = {"inside", "link", "gone"}
SYMMETRY Exchange
INVARIANT VerdictIsExact
INVARIANT LimitsHold
INVARIANT RemovedIsHeld
INVARIANT MissedOnlyInBurst
INVARIANT SwapIsAtomic
INVARIANT AdmissionIsFair
INVARIANT OverdraftBounded
CHECK_DEADLOCK FALSE
