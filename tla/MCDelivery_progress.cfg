\* Requests of two items, one more than the dead-letter budget has copies, from
\* clients that need never ack: the sweeper and the delivery bound end every
\* lease and empty the consumer.
SPECIFICATION PollingSpec

CONSTANTS
  c1 = c1
  c2 = c2
  a = a
  b = b
  Consumers <- OneConsumer
  Subjects <- OneSubject
  Configs <- OneConfig
  Ops <- NoOps
  WorkQueue = FALSE
  AckWait = 1
  MaxAckWait = 2
  Delays = {0, 1}
  ScanLimit = 2
  FetchBatch = 2
  SettleBatch = 2
  SweepLimit = 2
  DeadBudget = 1
  MaxSeq = 3
  MaxAttempts = 3
  MaxGen = 2
  MaxEpoch = 1

INVARIANT AttemptsWithinMaxDeliver
INVARIANT OnlyOverBudgetLatches
PROPERTY LeaseExpires
PROPERTY EverythingSettles

\* Every message settled and every bound used up: nothing left to do.
CHECK_DEADLOCK FALSE
