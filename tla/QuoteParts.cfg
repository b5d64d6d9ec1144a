CONSTANTS
    Fee = 1
    Capital = 10
    MaxSize = 2
    MaxOrders = 2
    MaxFills = 2
    MaxDryFaults = 1
    BookPrices = {2, 4, 6}
    Amounts = {0, 1}
    Bounds = {1, 2, 5}
    MaxItems = 2
    InitialCapacity = 1
    GridSlots = {1, 2}
    GridLevels = 1
    GridLimits = {0, 1}
    GridWarmup = 1
    GridPosMax = 2
    Days = 3
    RowsPerDay = 2
    RawKeep = 1
    GzKeep = 1
    MaxBytes = 3
    Compressing = {TRUE, FALSE}
    WindowSteps = 3
    MidPrices = {0, 6}
    Imbalances = {0, 6}
    Overrides = {9}
    MinWarmup = 2
    TickSize = 4
    MinHalf = 2
    FlowTrades = {1, 2}
    FlowWindow = 1
    MarkAfter = 1
    NeedTrades = 1
    NeedMarks = 1
    SeenMax = 1
    SeenKeep = 1
    MaxHeard = 2
    RefreshEvery = 1
    FillIds = {1, 2}
    Horizons = {1, 2}
    Adaptive = 2
    MarkWindow = 2
    NeedSamples = 2
    PendingMax = 1
    Step = 4
    PriceTop = 1
    LevelFactor = 2
    Depths = {1, 6}
    Widenings = {100, 130}
    Tightenings = {1, 40, 100}
SPECIFICATION QuotePartsSpec
CHECK_DEADLOCK FALSE
INVARIANTS SlotShowsOrder WalletBalances 
    EstimatesHold GridKeepsUp QuotesKeepOrder
PROPERTY SideIsMap
