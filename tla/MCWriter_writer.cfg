\* Shutdown and damage against callers that may give up, one of them with a
\* checkpoint or vacuum to run alone.
SPECIFICATION FairSpec

CONSTANTS
  p = p
  q = q
  r = r
  s = s
  Callers <- ThreeAndSolo
  Solo <- OneSolo
  QueueDepth = 1
  MaxBatch = 2
  EventDepth = 1
  Faults <- AllFaults

INVARIANT TypeOK
INVARIANT RepliesAreTrue
INVARIANT CommitOrderIsAcceptOrder
INVARIANT EventsFollowCommits
PROPERTY ImplementsCommandLog
PROPERTY CloseTerminates

\* Every caller has returned and, perhaps, the writer is closed.
CHECK_DEADLOCK FALSE
