CONSTANTS
    Instance = {i1, i2}
    Key = {k1, k2}
    SnapshotId = {s1, s2}
    Equity = {100, 150}
    Exposure = {0, 2}
    RiskAmount = {1, 2}
    MaxAge = 1
    TTL = 2
    Skew = 1
    BusyWait = 1
    Horizon = 4
    None = None
SYMMETRY Symmetry
SPECIFICATION Spec
INVARIANTS
    TypeOK
    ReleaseProved
PROPERTIES
    GrantsWithinCap
    ClosedIsFinal
    EvidenceMovesForward
    ImplementsBudget
CHECK_DEADLOCK FALSE
