SPECIFICATION MCSpec
CONSTANTS
    VoiceFreqs = {39, 43}
    SweepCentres <- MCCentres
    HoldWidth = 4
    ClaimWidth = 4
    RawWidth = 50
    Ttl = 1
    Cooldown = 1
    Hits = 2
    MaxHolds = 1
    ValidAge = 2
    EmitGap <- MCGap
    Buckets = {v1, v2}
    MinAudio = 2
    MaxAudio = 3
    AsrInterval = 2
    LastAudio = 7
    MaxThreads = 2
    WinPeriod <- MCPeriod
    WinModeLists <- MCModeLists
    WinFamily = {"FT8", "FT4"}
    WinBands = {b1, b2}
    WsprEvery = 2
    WinCap = 2
    WinLast = 6
    WinAsks = 2
    Retentions <- MCRetentions
    MaxFiles = 2
    ExportDays = 1
    LastRow = 2
    LastRows = 3
    LastTime = 2
    LastExport = 3
    UserExports = 1
    Sats = {s1, s2}
    Snapshot = {s1}
    SatTasks = {t1, t2}
    NoSched = none
    AdminOverlaps = FALSE
    MaxComputing = 1
    AdminCallers = {c1, c2}
    DisableAfter = 2
    LastMirror = 2
    LastToken = 3
    Day = 4
    AskedWindows <- MCWindows
    PresetCallers = {p1, p2}
    LastPreset = 1
    LastSchedule = 2
    FeedClients = {f1, f2, f3}
    QueueMax = 1
    LastEvent = 2
    Sockets = {k1, k2, k3}
    CastTasks = {b1, b2}
INVARIANTS
    ServicesTypeOK
    HeardBeforeStored
    SatelliteHolds
    TokenMatches
    
    
    BroadcastsReach
PROPERTIES
    PurgeKeeps
CHECK_DEADLOCK FALSE
