SPECIFICATION Spec
CONSTANTS
  Topics = {k1, k2}
  Listeners = {l1, l2}
  Conns = {c1, c2}
  Posts = {p1, p2}
  Users = {u1}
  None = None
  App = App
  Retries = 1
  Ordered = TRUE
  MaxFaults = 1
INVARIANTS Attended AttachedSubscribed WaitGuarded ServerCovers
PROPERTIES ConnectSettles Unregisters
CHECK_DEADLOCK FALSE
