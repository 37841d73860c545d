SPECIFICATION Spec
CONSTANTS
  Topics = {k1}
  Listeners = {l1}
  Conns = {c1, c2}
  Posts = {p1, p2}
  Users = {}
  None = None
  App = App
  Retries = 1
  Ordered = TRUE
  MaxFaults = 1
PROPERTY Reconnects
CHECK_DEADLOCK FALSE
