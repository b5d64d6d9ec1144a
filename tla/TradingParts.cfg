CONSTANTS
    TopLevel = 1
    Limits = {0, 3}
    EnterPct = 100
    ExitPct = 50
    TriggerPct = 25
    Cool = 1
    Window = 2
    Budget = 2
    MinGap = 1
    FreeGap = 2
    ShortWait = 1
    NoncePause = 1
    BackoffBase = 1
    BackoffMax = 2
    ResetAfter = 2
    Decay = 0
    MaxBatch = 2
    MaxAttempts = 2
    SnapTrades = 2
    RecentMax = 2
    MaxIds = 2
    MaxTrades = 4
    MaxFillFaults = 2
    PanicOnStart = {TRUE, FALSE}
    PanicOnStop = {TRUE, FALSE}
    CloseTries = 2
    Held = {0, 1, 2}
    MaxSessions = 2
    CapTop = 1
    MaxOrder = 2
    Cap = 2
    MaxPosition = 3
SPECIFICATION PartsSpec
CHECK_DEADLOCK FALSE
INVARIANTS InventoryHasExit InventoryOnlyShrinks WindowHolds 
    CountedOnce NoFillMissed AppliedWhereExecuted
    NoOrphanQuotes CloseStopsAtFlat
PROPERTIES BackoffIsWaitedOut FreeSlotIsFree
