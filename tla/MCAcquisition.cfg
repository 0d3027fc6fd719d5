CONSTANTS
    p1 = p1
    p2 = p2
    p3 = p3
    t1 = t1
    sol = sol
    Grain = 2
    One = 4
    Burst = 1
    MaxRate = 2
    MinRate = 1
    Step = 1
    Threshold = 1
    Cooldown = 5
    MaxRetries = 1
    Backoff = 1
    RetryAfter = {3}
    Jitter = {0}
    Never = Never
    Short = {"nothing", "torn", "open"}
    NoBody = NoBody
    Listed <- MCListed
    Excluded = {sol}
    Target <- MCTarget
    FullPages <- MCFullPages
    Creators = {p1}
    ShortNamed = {p2}
    Depth <- MCDepth
    NewPages = 1
    Backfill = 1
    MaxPages = 1
    MaxTxs = 1
    Phase3a = TRUE
    CircuitWaits = 1
    CycleTime = 4
    Duration = 4
    Latency = 0
    MaxFaults = 2
    MaxRuns = 2
    NoHash = NoHash
SPECIFICATION AcquisitionSpec
INVARIANTS
    RateRespected
    FailingServiceRests
    ExchangesOnRecord
    NothingCutSilently
    SealedIsEnded
CHECK_DEADLOCK FALSE
