CONSTANTS
    a = a
    b = b
    t1 = t1
    t2 = t2
    ka = ka
    kb = kb
    Instance = {a, b}
    Terminal = {t1, t2}
    Home <- TwoTerminals
    Key = {ka, kb}
    Owner <- KeyOwner
    Amount <- Stakes
    SnapshotId <- StampedIds
    Equity = {100}
    AccountEquity = 100
    Exposure = {0, 2, 4}
    RiskAmount = {2}
    MaxAge = 1
    TTL = 3
    Skew = 1
    BusyWait = 1
    Horizon = 4
    None = None
    ScanGap = TRUE
    Prompt = TRUE
    ClockError = 0
    Drift = 0
    MaxLate = 1
    MaxCrashes = 1
SPECIFICATION OrderedCoordination
INVARIANTS
    CommittedWithinCap
    LedgerCoversBroker
    OrdersInFlightAreReserved
CHECK_DEADLOCK FALSE
