SPECIFICATION Spec
CONSTANTS
  Keys = {k1, k2}
  MaxSize = 1
  NoEntry = NoEntry
  Never = Never
  Stores = {s1, s2}
  Clients = {c1, c2}
  StoreOf <- MCShared
  Values = {v1, v2}
  NoRow = NoRow
  Postgres = FALSE
  Readers = {"get", "bulk"}
  L1TTL = 1
  Ttls = {1}
  MaxCall = 1
  MaxTime = 3
SYMMETRY Symmetry
INVARIANTS ListMatchesMap StaleBounded
