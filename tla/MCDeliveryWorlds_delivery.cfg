\* One stream in three worlds.  The constants below that the worlds set
\* themselves (Subjects, Configs, Ops, WorkQueue, MaxSeq, MaxAttempts) only say
\* what types and histories the invariants range over.
SPECIFICATION WSpec

CONSTANTS
  c1 = c1
  c2 = c2
  a = a
  b = b
  Consumers <- TwoConsumers
  Subjects <- TwoSubjects
  Configs <- TwoConfigs
  Ops <- NoOps
  WorkQueue = FALSE
  AckWait = 1
  MaxAckWait = 2
  Delays = {0}
  ScanLimit = 2
  FetchBatch = 2
  SettleBatch = 1
  SweepLimit = 2
  DeadBudget = 1
  MaxSeq = 3
  MaxAttempts = 2
  MaxGen = 2
  MaxEpoch = 1

INVARIANT TypeOK
INVARIANT NoLoss
INVARIANT NoResurrection
INVARIANT OnlyLatestLeaseSettles
INVARIANT TokenAnswersAreTrue
INVARIANT FreshRowsAreNewest
INVARIANT RowsPinMessages

\* Every message settled and every bound used up: nothing left to do.
CHECK_DEADLOCK FALSE
