SPECIFICATION FairSpec
CONSTANTS
  Jobs = {j1}
  Topics = {t1, t2}
  Nodes = {n1}
  NoLock = NoLock
  NoJob = NoJob
  Workers = 1
  BatchSize = 2
  LockDuration = 1
  Delays = {0}
  RetryLimits = {2}
  Slots = {1, 2}
  MaxPoll = 1
  MaxRuns = 0
  MaxFaults = 1
INVARIANTS StopQuiescent
PROPERTIES Settles StopReturns
