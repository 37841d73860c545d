------------------------------ MODULE MCJobs ------------------------------
(* Instances of Jobs and JobLifecycle small enough for TLC. *)
EXTENDS Jobs, TLC

(* Jobs and nodes are interchangeable; slots are not, Claim picks one. *)
Symmetry == Permutations(Jobs) \cup Permutations(Nodes)

MCDelays == {-1, 0, 1}
=============================================================================
