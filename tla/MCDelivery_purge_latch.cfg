\* Rows that survive a purge keep the generation the purge left behind.
SPECIFICATION Spec

CONSTANTS
  c1 = c1
  c2 = c2
  a = a
  b = b
  Consumers <- OneConsumer
  Subjects <- OneSubject
  Configs <- OneConfig
  Ops <- PurgeScanOps
  WorkQueue = FALSE
  AckWait = 1
  MaxAckWait = 2
  Delays = {0, 1}
  ScanLimit = 2
  FetchBatch = 2
  SettleBatch = 1
  SweepLimit = 2
  DeadBudget = 1
  MaxSeq = 2
  MaxAttempts = 2
  MaxGen = 2
  MaxEpoch = 1

INVARIANT StoreHealthy

\* Every message settled and every bound used up: nothing left to do.
CHECK_DEADLOCK FALSE
