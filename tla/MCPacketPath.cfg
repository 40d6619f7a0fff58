CONSTANTS
    Workers = {w1, w2}
    Raws <- MCRaws
    ConfigFiles <- MCConfigFiles
    MaxEntries = 1
    MaxBans = 1
    EstTimeout = 2
    TransitoryTimeout = 1
    UdpTimeout = 1
    MaxIdle = 2
    MaxPerSecs = {0, 1}
    MaxLanes = 1
    LaneCapacity = 1
    Token = "right"
    MaxPackets = 3
    MaxTime = 2
    MaxEvents = 1
SPECIFICATION Spec
INVARIANT FlowBound
INVARIANT BanEarned
INVARIANT IndexIsScan
INVARIANT LaneAccounting
INVARIANT LogCapped
SYMMETRY WorkerSymmetry
CHECK_DEADLOCK FALSE
