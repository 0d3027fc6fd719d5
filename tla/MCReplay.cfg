CONSTANTS
    k1 = k1
    k2 = k2
    k3 = k3
    None = None
    cA = cA
    cB = cB
    Config <- MCConfig
    Tokens <- MCTokens
    Scenes <- MCScenes
    Configs = {cA, cB}
    Steps = 3
    StepsPerDay = 2
    MaxRuns = 2
    Fee = 3
    PriorityFee = 1
SPECIFICATION ReplaySpec
INVARIANTS
    FinishedJournalIsTheRun
PROPERTIES
    EntriesFitTheLimits
    LossesStopEntries
CHECK_DEADLOCK FALSE
