SPECIFICATION Spec
CONSTANTS
  Jobs = {j1}
  Processes = {p1}
  Stores = {"db", "memory"}
  NoLease = NoLease
  NoSync = NoSync
  Workers = 1
  BatchSize = 2
  LockDuration = 2
  RetryLimits = {2}
  Delays = {0, 1}
  MaxRun = 2
  MaxEvents = 0
  Batches = {b1}
  Singles = {s1}
  Records = {k1}
  Programs <- MCPrograms
  NoBatch = NoBatch
  MaxFaults = 0
  Users = {u1}
  Calls = {c1}
  NoUser = NoUser
  NoRequest = NoRequest
  App = App
  Load = Load
  MaxQueue = 0
  MaxLosses = 0
INVARIANT FailedLeavesNothing
CHECK_DEADLOCK FALSE
