---------------------------- MODULE JobLifecycle ----------------------------
(***************************************************************************)
(* What the job queue promises to whoever enqueues a job, without leases,  *)
(* polls, goroutines or nodes: a job waits, is taken, and ends completed   *)
(* or, after as many failed tries as it was given, failed.                 *)
(***************************************************************************)
EXTENDS Naturals

CONSTANTS Jobs, Limits

VARIABLES
  status,  \* where the job is in its life
  tries,   \* failed tries since it was last enqueued
  limit    \* how many tries it was given

vars == <<status, tries, limit>>

Init ==
  /\ status = [j \in Jobs |-> "unborn"]
  /\ tries = [j \in Jobs |-> 0]
  /\ limit = [j \in Jobs |-> 1]

Move(j, from, to) ==
  /\ status[j] = from
  /\ status' = [status EXCEPT ![j] = to]

Submit(j) ==
  /\ Move(j, "unborn", "pending")
  /\ \E m \in Limits : limit' = [limit EXCEPT ![j] = m]
  /\ UNCHANGED tries

Take(j) == Move(j, "pending", "processing") /\ UNCHANGED <<tries, limit>>

Complete(j) == Move(j, "processing", "completed") /\ UNCHANGED <<tries, limit>>

Retry(j) ==
  /\ Move(j, "processing", "pending")
  /\ tries[j] + 1 < limit[j]
  /\ tries' = [tries EXCEPT ![j] = @ + 1]
  /\ UNCHANGED limit

GiveUp(j) ==
  /\ Move(j, "processing", "failed")
  /\ tries[j] + 1 = limit[j]
  /\ UNCHANGED <<tries, limit>>

Restart(j) == tries' = [tries EXCEPT ![j] = 0] /\ UNCHANGED limit

Withdraw(j) ==
  /\ Move(j, "pending", "deleted") \/ Move(j, "failed", "deleted")
  /\ Restart(j)

Resubmit(j) == Move(j, "failed", "pending") /\ Restart(j)

Next == \E j \in Jobs :
  \/ Submit(j) \/ Take(j) \/ Complete(j) \/ Retry(j) \/ GiveUp(j)
  \/ Withdraw(j) \/ Resubmit(j)

Spec == Init /\ [][Next]_vars
=============================================================================
