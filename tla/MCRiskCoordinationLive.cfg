CONSTANTS
    a = a
    b = b
    t1 = t1
    t2 = t2
    ka = ka
    kb = kb
    Instance = {a, b}
    Terminal = {t1}
    Home <- OneTerminal
    Key = {ka, kb}
    Owner <- KeyOwner
    Amount <- Stakes
    SnapshotId <- StampedIds
    Equity = {100}
    AccountEquity = 100
    Exposure = {0, 2, 4}
    RiskAmount = {2}
    MaxAge = 1
    TTL = 2
    Skew = 4
    BusyWait = 0
    Horizon = 2
    None = None
    ScanGap = TRUE
    Prompt = TRUE
    ClockError = 0
    Drift = 4
    MaxLate = 1
    MaxCrashes = 1
SPECIFICATION FairCoordination
INVARIANTS
    OneAttemptPerTerminal
PROPERTIES
    EveryAttemptEnds
    MutexComesFree
CHECK_DEADLOCK FALSE
