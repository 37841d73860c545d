SPECIFICATION Spec
CONSTANTS
  Pids = {p1, p2}
  NoPid = NoPid
  Sups = {s1}
  Requests = {r1}
  MaxRetries = 1
  Base = 1
  MaxFails = 2
PROPERTY StopSticks
CHECK_DEADLOCK FALSE
