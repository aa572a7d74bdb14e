\* Runs of messq serve: two on one directory and one socket path, one of them
\* started twice, others that share the directory or the path or are refused;
\* one janitor; one manager.
SPECIFICATION PSpec
CONSTANTS
    NComponents = 2
    NReloaders = 2
    Fallible = {2}
    Contents = {1, 2, 3}
    Broken = {3}
    MaxSignals = 3
    MaxEdits = 2
    a = a
    b = b
    c = c
    loose = loose
    net = net
    other = other
    x = x
    y = y
    None = none
    Daemons = {a, b, c, loose, net, other}
    Dirs = {x, y}
    DirOf <- TwoDirs
    Ephemeral = {}
    Tokens <- NoTokens
    Class <- Mixed
    Loose = {loose}
    Requests = {1}
    MaxStarts <- Starts
    Names = {1, 2, 3}
    DedupLimit = 2
    RetentionBatch = 1
    WalMax = 1
    FreelistPages = 0
    VacuumPages = 1
    DriverMoves = TRUE
    MinFree = 1
    Recover = 200
    MaxWork = 2
    MaxChanges = 3
    Scenarios <- Each
INVARIANT EndsAreClean
PROPERTY StopsEnd
PROPERTY JobsKeepUp
\* Every process has exited, the janitor's loop has returned.
CHECK_DEADLOCK FALSE
