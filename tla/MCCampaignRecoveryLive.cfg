SPECIFICATION FairRecovery
CONSTANTS
    a = a
    b = b
    Intent = {a}
    None = None
    Lost = Lost
    Short = {}
    Alike <- Distinct
    Stripped = {}
    Synced = TRUE
    Prompt = FALSE
    Repeats = TRUE
    RegistryFails = TRUE
    QueueMax = 2
    Batch = 1
    MaxCrashes = 1
PROPERTIES
    DealsGetJournaled
    RetryLockClears
CHECK_DEADLOCK FALSE
