SPECIFICATION DiskSpec
CONSTANTS
    Procs = {"old", "new", "look"}
    Ships <- MCShips
    ReadOnly = {"look"}
    HandsOff = {"new"}
    Backups = {"b1"}
    VerifyModes = {"quick"}
    MaxSeq = 1
    MaxFaults = 1
    MaxRestores = 1
    MaxEvents = 7
    MaxPlain = 12
    AuditSeq = 2
    MaxDeliver = 2
    deleteChunkRows = 1
    MaxAckPending = 2
    Damages = {"message", "counter", "stats", "cursor", "rewind", "row", "copy"}
    Ops = {"stream", "publish", "dup", "consumer", "position", "deliver", "settle", "purge"}
INVARIANTS
    ServedIsSound
    DestinationWhole
    
    
PROPERTIES
    CrashIsSeen
\* Every part comes to an end: bounds used up, calls answered, the report made.
CHECK_DEADLOCK FALSE
