----------------------------- MODULE MCGateway -----------------------------
(* Instances of Gateway small enough for TLC. *)
EXTENDS Gateway, TLC

Config1 == [max |-> 1, breaker |-> TRUE, threshold |-> 2]
Config2 == [max |-> 2, breaker |-> TRUE, threshold |-> 0]
Config3 == [max |-> 0, breaker |-> FALSE, threshold |-> 0]

MCAll == {Config1, Config2, Config3}
MCOne == {Config1}

Symmetry == Permutations(Instances) \cup Permutations(Requests) \cup Permutations(Writers)
=============================================================================
