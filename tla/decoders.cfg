SPECIFICATION MCSpec
CONSTANTS
    ParkCallers = {c1, c2}
    ParkTasks = {t1, t2}
    ScanBands = {b1, b2}
    BeaconBands <- MCBeaconBands
    SlotsPerCycle = 2
    CwPositions = 2
    ParkEnvs <- MCParkEnvs
    NoTask = none
    PktCallers = {c1, c2}
    PktTasks = {t1, t2}
    PktEnvs <- MCPktEnvs
    NoLoop = none
    KissBytes = {"C0", "DB", "DC", "DD", "x"}
    FrameEnd = "C0"
    FrameEsc = "DB"
    TransFend = "DC"
    TransFesc = "DD"
    KissChunk = 3
    KissLimit = 5
    SlotTicks = 4
    SettleTicks = 1
    GuardTicks = 1
    MinFill = 1
    ListenerCap = 2
    SlotBands = 2
    BandSlots = 2
    LastTick = 13
    CwWindow = 3
    CwOverlaps = {0, 1, 2}
    CwChunks = {1, 2, 4}
    CwLast = 14
    Signals = {4, 9}
    MarkerBands <- MCBands
    CwSpots = {x1}
    VoiceSpots = {x2}
    MinHits = 2
    MaxAge = 1
    CwTtl = 1
    SweepTtl = 2
    VoiceTtl = 1
    MaxMarkers = 2
    MaxSegments = 2
    Readers = {r1, r2}
    LogMax = 2
    LastLog = 4
    LastNotice = 2
INVARIANTS
    DecodersTypeOK
    ParkedForSomebody
    NothingStray
    ConnectedTruthfully
    KissFrames
    WindowsExact
    PollsExact
PROPERTIES
    RadioReturns
    
    
CHECK_DEADLOCK FALSE
