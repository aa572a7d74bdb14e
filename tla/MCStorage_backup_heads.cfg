SPECIFICATION Spec
CONSTANTS
    Procs = {"old", "new", "look"}
    Ships <- MCShips
    ReadOnly = {"look"}
    HandsOff = {"new"}
    Backups = {"b1"}
    VerifyModes = {"quick"}
    MaxSeq = 1
    MaxFaults = 1
    MaxRestores = 1
INVARIANT GoodCopyAccepted
CHECK_DEADLOCK FALSE
