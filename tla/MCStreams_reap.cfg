SPECIFICATION Spec
CONSTANTS
    s = s
    dlq = dlq
    i1 = i1
    none = none
    None = none
    NoId = none
    Names = {s, dlq}
    Before <- Order
    Fold <- OwnFold
    DlqOf <- DeadLetters
    Configs <- TwoConfigs
    Entries = {i1, none}
    Invalid = {}
    Callers = {1}
    Deletable = {s}
    Chunk = 1
    SweepBound = 1
    MaxBatch = 2
    MaxSeq = 2
    MaxNow = 2
    MaxDeletes = 1
    MaxCrashes = 1
    Faults = {"cut", "loss"}
INVARIANTS
    SeqNeverReused
    RetryStoresOnce
PROPERTIES
    StartsEmpty
    ReapFinishes
CHECK_DEADLOCK FALSE
