SPECIFICATION RequestsSpec
CONSTANTS
    Calls = {"c1", "c2"}
    Kinds <- TwoCalls
    MaxConns = 2
    Literals = {"a", "b"}
    MaxTokens = 2
    PatternSets <- SomePatterns
    StreamNames <- SomeNames
    ConsumerConfigs <- SomeConfigs
    AckWaitCap = 3
    DeliverCap = 4
    LadderCap = 3
    NakDelays = {0, 30, 99}
    MaxNakDelay = 40
    AttemptBound = 4
    Holders = {"c1", "c2"}
    Sizes = {5}
    StreamConfigs <- SomeLimits
    Batches = {1, 2}
    MaxBlame = 1
    SeqBound = 4
    NowBound = 3
    Readers = {1}
    JournalAge = 1
    JournalRows = 2
    TrimBatch = 1
    PageLimit = 2
    MaxPage = 2
    ScanLimit = 3
    ReadTables = {"events", "messages", "pending"}
    RowBound = 4
    ClockBound = 2
INVARIANTS
    CallsAreTrue
    RoutedBySubject
    DeathsEnd
PROPERTIES
    SweepIsJustified
    PagesAreWhole
\* Every part comes to an end: bounds used up, calls answered, the report made.
CHECK_DEADLOCK FALSE
