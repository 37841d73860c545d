------------------------------ MODULE MCKVLock ------------------------------
(* Instances of KVLock small enough for TLC. *)
EXTENDS KVLock, Functions, TLC

(* Two callers, each of a store of its own. *)
MCEachItsStore == CHOOSE f \in [Callers -> Stores] : IsInjective(f)

Symmetry == Permutations(Owners)
=============================================================================
