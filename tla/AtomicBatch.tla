---------------------------- MODULE AtomicBatch ----------------------------
(***************************************************************************)
(* What the batch API promises to whoever posts a batch, without a         *)
(* connection, transactions, hooks or crashes: the writes of a batch reach *)
(* the file in one step, all of them and once; the batch has at most one   *)
(* answer, success after that step or failure before it, which does not    *)
(* always keep the step from being taken.                                  *)
(***************************************************************************)
EXTENDS Naturals

CONSTANTS
  Batches,
  Sizes     \* how many writes a batch may have

VARIABLES
  size,    \* the writes a batch has asked for, 0 before it is posted
  file,    \* the writes in the file: <<batch, position>>
  answer

vars == <<size, file, answer>>

Init ==
  /\ size = [b \in Batches |-> 0]
  /\ file = {}
  /\ answer = [b \in Batches |-> "none"]

Part(b) == {b} \X (1..size[b])

Ask(b) ==
  /\ size[b] = 0
  /\ \E n \in Sizes : size' = [size EXCEPT ![b] = n]
  /\ UNCHANGED <<file, answer>>

(* A batch whose time is up was answered before, and lands all the same. *)
Land(b) ==
  /\ size[b] > 0 /\ answer[b] # "ok"
  /\ file \cap Part(b) = {}
  /\ file' = file \cup Part(b)
  /\ UNCHANGED <<size, answer>>

Confirm(b) ==
  /\ size[b] > 0 /\ answer[b] = "none"
  /\ Part(b) \subseteq file
  /\ answer' = [answer EXCEPT ![b] = "ok"]
  /\ UNCHANGED <<size, file>>

Refuse(b) ==
  /\ size[b] > 0 /\ answer[b] = "none"
  /\ file \cap Part(b) = {}
  /\ answer' = [answer EXCEPT ![b] = "failed"]
  /\ UNCHANGED <<size, file>>

Next == \E b \in Batches : Ask(b) \/ Land(b) \/ Confirm(b) \/ Refuse(b)

Spec == Init /\ [][Next]_vars
=============================================================================
