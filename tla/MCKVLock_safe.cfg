SPECIFICATION Spec
CONSTANTS
  Stores = {s1, s2}
  Callers = {c1, c2}
  StoreOf <- MCEachItsStore
  Owners = {o1, o2, o3, o4}
  NoRow = NoRow
  Postgres = FALSE
  Grain = 2
  Ttls = {1, 2, 3}
  Unheld = Unheld
  MaxTime = 6
SYMMETRY Symmetry
INVARIANTS MutualExclusion HolderKeepsRow
