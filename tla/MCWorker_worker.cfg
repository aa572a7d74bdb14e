SPECIFICATION NarrowSpec
CONSTANTS
    N = 1
    Batch = 2
    AckCap = 2
    FailFast = TRUE
    OutcomesCap = 1
    LeaseCap = 1
    DoneCap = 1
    NakCap = 1
    Tokens = 2
    MaxFaults = 1
    Verdicts = {"ack", "nak"}
INVARIANTS
    SettledAsHandled
PROPERTIES
    
    FinishedIsSettled
