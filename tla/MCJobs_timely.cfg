SPECIFICATION TimelySpec
CONSTANTS
  Jobs = {j1, j2}
  Topics = {t1}
  Nodes = {n1, n2}
  NoLock = NoLock
  NoJob = NoJob
  Workers = 1
  BatchSize = 2
  LockDuration = 2
  Delays = {1}
  RetryLimits = {2}
  Slots = {1, 2}
  MaxPoll = 1
  MaxRuns = 4
  MaxFaults = 1
SYMMETRY Symmetry
INVARIANTS LeaseOwned LeaseExclusive ExecutionBudget
PROPERTIES CompletedFinal LifecycleSpec
