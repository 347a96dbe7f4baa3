SPECIFICATION ServicesSpec
CONSTANTS
    MaxGeneration = 3
    SlowSend = TRUE
    LateStop = FALSE
    Nets <- MCNets
    Password <- MCPassword
    NumSlots = 2
    Aliases = {lamp, car}
    Endpoints = {"x", "y"}
    BleEndpoints = {"x"}
    JobsLen = 2
    ToolTasks = {t1, t2}
    MaxCalls = 2
    Savers = {s1, s2}
    SaveWorkers = {w1, w2, w3}
    SavesLen = 2
    BleUsers = {u1, u2, u3}
    Triggers = {g1, g2}
    Requests = {r1, r2}
    Nothing = nothing
    RequestsLen = 2
    Calls = {c1, c2}
    NoId = noid
    Script = script
    LookupsLen = 1
    Robots = {b1, b2}
    Commanders = {k1, k2}
    MaxLinks = 2
    MaxOrders = 2
INVARIANTS
    ServicesTypeOK
    
    
    
    
    
    
    WarningAnswered
    GreetingRequested
    DeferredIsAwaited
    NetworksKept
    DeletedIsGone
    OneKeeper
    
    WorkIsWatched
    HandleIsLive
    SyncIsFresh
    FlagsAgree
    
    RequestAnswered
    
    MotionIsGuarded
CHECK_DEADLOCK FALSE
