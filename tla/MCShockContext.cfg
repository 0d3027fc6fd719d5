CONSTANTS
    OnsetThreshold = 3
    ImpulseBars = 1
    FollowThroughPct = 60
    AbsorptionPct = 50
    ReversalPct = 75
    ReversalMin = 1
    NormalFloor = 0
    MinDecay = 1
    Lifecycle = 4
    MinHistory = 1
    Bars <- MCBars
    Contexts <- MCContexts
    NoEvent = NoEvent
    MaxLag = 1
    MinSample = 3
    MinAssociation = 25
    WeakeningPct = 50
    MinRegimeSample = 2
    LeastHalf = 3
    NoiseFloor <- MCNoiseFloor
    Pairs <- MCPairs
    Readings <- MCReadings
    MaxBars = 9
    MaxFlaws = 1
SPECIFICATION Spec
INVARIANTS
    EventIsItsBars
    NoClaimBelowTheNoise
CHECK_DEADLOCK FALSE
