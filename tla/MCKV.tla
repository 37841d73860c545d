-------------------------------- MODULE MCKV --------------------------------
(* Instances of KVStore small enough for TLC. *)
EXTENDS KVStore

MCOneStore == [c \in Clients |-> CHOOSE s \in Stores : TRUE]

(* Three clients, the first two of one store. *)
MCShared == CHOOSE f \in [Clients -> Stores] : \A s \in Stores : \E c \in Clients : f[c] = s

Symmetry == Permutations(Values) \cup Permutations(Keys)
=============================================================================
