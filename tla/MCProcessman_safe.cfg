SPECIFICATION FairSpec
CONSTANTS
  Pids = {p1, p2}
  NoPid = NoPid
  Sups = {s1, s2}
  Requests = {r1, r2}
  MaxRetries = 1
  Base = 16
  MaxFails = 2
INVARIANTS Supervised RecordedPidOwned RetryBudget BackoffDelay CrashAnswered
PROPERTIES Resurrects StopCleans
CHECK_DEADLOCK FALSE
