CONSTANTS
    Minute = 2
    Day = 4
    Lag = 1
    Page = 2
    BarLimit = 2
    NoVolume = NoVolume
    NoCreator = 0
    NoValue = NoValue
    MaxAge = 2
    Tolerance = 1
    Window = 2
    Baselines = 1
    LevelWindow = 2
    Sources <- MCSources
    Windows = {1}
    BaselineBars = 2
    MinSamples = 1
    MinLevel = 1
    SharedWindow = 1
    SyncTolerance = 1
    MinSync = 2
    Ignored = {}
    TopK = 1
    SniperTicks = 1
    FreshTicks = 1
    MinKnown = 1
    a = a
    Tokens = {a}
    Horizon = 5
    LastTrade = 2
    MaxSwaps = 3
    PerTick = 2
    Prices = {1}
    Levels <- MCLevels
    Plans <- MCPlans
    Creator = 1
SPECIFICATION Spec
INVARIANTS
    FlowIsReal
    BarsAreReal
    LiquidityIsReal
    ClustersAreJoined
PROPERTIES
    PastViewsAreFrozen
CHECK_DEADLOCK FALSE
