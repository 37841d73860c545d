SPECIFICATION FairSpec
CONSTANTS
  Jobs = {j1, j2}
  Processes = {p1}
  Stores = {"db", "memory"}
  NoLease = NoLease
  NoSync = NoSync
  Workers = 1
  BatchSize = 2
  LockDuration = 2
  RetryLimits = {2}
  Delays = {0, 1}
  MaxRun = 2
  MaxEvents = 2
  Batches = {b1, b2}
  Singles = {s1}
  Records = {k1}
  Programs <- MCPrograms
  NoBatch = NoBatch
  MaxFaults = 1
  Users = {u1, u2}
  Calls = {c1, c2}
  NoUser = NoUser
  NoRequest = NoRequest
  App = App
  Load = Load
  MaxQueue = 1
  MaxLosses = 1
INVARIANTS ClaimedOnce AllOrNothing PersistsLatest
PROPERTIES SameLifecycle BatchesLand JobsSettle BatchEnds SentAsOwner CallsEnd
CHECK_DEADLOCK FALSE
