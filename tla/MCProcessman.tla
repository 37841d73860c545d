---------------------------- MODULE MCProcessman ----------------------------
(* Instances of Processman small enough for TLC. *)
EXTENDS Processman, TLC

Symmetry == Permutations(Pids) \cup Permutations(Sups) \cup Permutations(Requests)
=============================================================================
