CONSTANTS
    a = a
    b = b
    t1 = t1
    t2 = t2
    ka = ka
    kb = kb
    Instance = {a, b}
    Terminal = {t1}
    Home <- OneTerminal
    Key = {ka, kb}
    Owner <- KeyOwner
    Amount <- Stakes
    SnapshotId <- StampedIds
    Equity = {100}
    AccountEquity = 100
    Exposure = {0, 2, 4}
    RiskAmount = {2}
    MaxAge = 1
    TTL = 2
    Skew = 1
    BusyWait = 0
    Horizon = 4
    None = None
    ScanGap = FALSE
    Prompt = FALSE
    ClockError = 0
    Drift = 0
    MaxLate = 0
    MaxCrashes = 0
SPECIFICATION Coordination
INVARIANTS
    ReleasedIsDecided
CHECK_DEADLOCK FALSE
