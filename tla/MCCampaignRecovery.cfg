SPECIFICATION Recovery
CONSTANTS
    a = a
    b = b
    Intent = {a, b}
    None = None
    Lost = Lost
    Short = {"nothing", "torn"}
    Alike <- Distinct
    Stripped = {b}
    Synced = TRUE
    Prompt = TRUE
    Repeats = FALSE
    RegistryFails = FALSE
    QueueMax = 1
    Batch = 1
    MaxCrashes = 2
INVARIANTS
    AttributedToCause
    RejectedIsRefused
    NoDealForgotten
PROPERTIES
    DurableBeforeSent
    EntersWithCleanBooks
    ImplementsIntentBook
    JournalIsFinal
CHECK_DEADLOCK FALSE
