------------------------------- MODULE Batch -------------------------------
(***************************************************************************)
(* Batches of the TypeScript port (apis/batch.ts, runInTransaction of      *)
(* core/base.ts) and single writes (core/db.ts) on SQLite.  The server has *)
(* one connection: a transaction belongs to the connection, and whatever   *)
(* other requests write while the batch that opened it waits for a hook is *)
(* written inside it.                                                      *)
(*                                                                         *)
(* Of a record only whether it exists is kept.  A write is named by its    *)
(* request and its position in it.                                         *)
(***************************************************************************)
EXTENDS Naturals, Sequences

CONSTANTS
  Batches,    \* requests to POST /api/batch
  Singles,    \* requests that write one record
  Records,
  Programs,   \* the sequences of writes a batch may ask for
  NoBatch,
  MaxFaults   \* bound: crashes, failed COMMITs, hooks that never return

Requests == Batches \cup Singles

Op == [kind : {"create", "update", "delete", "upsert"}, record : Records]

ASSUME BatchAssumption ==
  /\ Batches \cap Singles = {}
  /\ NoBatch \notin Batches
  /\ Programs \subseteq Seq(Op) \ {<<>>}
  /\ MaxFaults \in Nat

VARIABLES
  disk,     \* the records of the database file
  work,     \* what the connection sees
  open,     \* the batch whose BEGIN IMMEDIATE is not ended
  req,      \* the requests
  pending,  \* writes of the open transaction (history)
  durable,  \* writes that reached the file (history)
  faults

batchVars == <<disk, work, open, req, pending, durable, faults>>

BatchInit ==
  /\ disk = {} /\ work = {}
  /\ open = NoBatch
  /\ req = [r \in Requests |-> [pc |-> "idle", ops |-> <<>>, step |-> 1, write |-> "insert",
                                answer |-> "none"]]
  /\ pending = {} /\ durable = {}
  /\ faults = 0

-----------------------------------------------------------------------------
Record(r) == req[r].ops[req[r].step].record

Kind(r) == req[r].ops[req[r].step].kind

Goto(r, pc) == req' = [req EXCEPT ![r].pc = pc]

(* Mutant: the response is the transaction's, whatever was sent. *)
AnsweredLast(r, a) == a

(* The response, unless Promise.race has already settled it. *)
Answered(r, a) == IF req[r].answer = "none" THEN a ELSE req[r].answer

End(r, a) ==
  req' = [req EXCEPT ![r] = [@ EXCEPT !.pc = "done", !.answer = Answered(r, a)]]

Fault == faults < MaxFaults /\ faults' = faults + 1

(* A batch goes to the hooks of onBatchRequest, before its timer is armed. *)
Arrive(r) ==
  /\ req[r].pc = "idle"
  /\ \E ops \in Programs :
       /\ r \in Singles => Len(ops) = 1
       /\ req' = [req EXCEPT ![r] = [@ EXCEPT !.ops = ops,
                                              !.pc = IF r \in Batches THEN "request" ELSE "find"]]
  /\ UNCHANGED <<disk, work, open, pending, durable, faults>>

(* The hooks return, and the race of transaction and timer begins, or one  *)
(* throws.  Nothing obliges them to return.                                *)
BatchRequest(b) ==
  /\ req[b].pc = "request"
  /\ Goto(b, "begin") \/ End(b, "failed")
  /\ UNCHANGED <<disk, work, open, pending, durable, faults>>

(* Mutant: a transaction that is open is joined. *)
BeginJoins(b) ==
  /\ req[b].pc = "begin"
  /\ open' = IF open = NoBatch THEN b ELSE open
  /\ Goto(b, "find")
  /\ UNCHANGED <<disk, work, pending, durable, faults>>

(* BEGIN IMMEDIATE, before the try: inside a transaction SQLite refuses it. *)
Begin(b) ==
  /\ req[b].pc = "begin"
  /\ IF open = NoBatch THEN open' = b /\ Goto(b, "find")
                       ELSE End(b, "failed") /\ UNCHANGED open
  /\ UNCHANGED <<disk, work, pending, durable, faults>>

-----------------------------------------------------------------------------
(* findRecordById for update, delete and upsert. *)
Find(r) ==
  LET found == Record(r) \in work IN
  /\ req[r].pc = "find"
  /\ IF Kind(r) \in {"update", "delete"} /\ ~found
       THEN Goto(r, "fail")
       ELSE req' = [req EXCEPT ![r] = [@ EXCEPT !.pc = "write", !.write =
                      CASE Kind(r) = "delete" -> "delete"
                        [] Kind(r) # "create" /\ found -> "update"
                        [] OTHER -> "insert"]]
  /\ UNCHANGED <<disk, work, open, pending, durable, faults>>

(* The statement, once the hooks before it are through.  INSERT of an id    *)
(* that exists fails; UPDATE and DELETE of a row that is gone do nothing.   *)
Write(r) ==
  LET w     == <<r, req[r].step>>
      work2 == CASE req[r].write = "insert" -> work \cup {Record(r)}
                 [] req[r].write = "delete" -> work \ {Record(r)}
                 [] OTHER -> work IN
  /\ req[r].pc = "write"
  /\ IF req[r].write = "insert" /\ Record(r) \in work
       THEN Goto(r, "fail") /\ UNCHANGED <<disk, work, pending, durable>>
       ELSE /\ work' = work2
            /\ req' = [req EXCEPT ![r] = [@ EXCEPT !.pc = "after", !.write = "insert"]]
            /\ IF open = NoBatch
                 THEN disk' = work2 /\ durable' = durable \cup {w} /\ UNCHANGED pending
                 ELSE pending' = pending \cup {w} /\ UNCHANGED <<disk, durable>>
  /\ UNCHANGED <<open, faults>>

(* The hooks after success, then the next write or the end. *)
After(r) ==
  /\ req[r].pc = "after"
  /\ IF req[r].step < Len(req[r].ops)
       THEN req' = [req EXCEPT ![r] = [@ EXCEPT !.pc = "find", !.step = req[r].step + 1]]
       ELSE IF r \in Batches THEN Goto(r, "commit") ELSE End(r, "ok")
  /\ UNCHANGED <<disk, work, open, pending, durable, faults>>

HookThrows(r) ==
  /\ req[r].pc \in {"write", "after"}
  /\ Goto(r, "fail")
  /\ UNCHANGED <<disk, work, open, pending, durable, faults>>

HookHangs(r) ==
  /\ req[r].pc \in {"write", "after"} /\ Fault
  /\ Goto(r, "hung")
  /\ UNCHANGED <<disk, work, open, pending, durable>>

-----------------------------------------------------------------------------
Commit(b) ==
  /\ b \in Batches /\ req[b].pc = "commit"
  /\ disk' = work /\ durable' = durable \cup pending
  /\ pending' = {}
  /\ open' = NoBatch
  /\ Goto(b, "committed")
  /\ UNCHANGED <<work, faults>>

(* runInTransaction has returned, and no timer runs before the race is     *)
(* settled.                                                                *)
Respond(b) ==
  /\ b \in Batches /\ req[b].pc = "committed"
  /\ End(b, "ok")
  /\ UNCHANGED <<disk, work, open, pending, durable, faults>>

CommitFails(b) ==
  /\ b \in Batches /\ req[b].pc = "commit" /\ Fault
  /\ Goto(b, "fail")
  /\ UNCHANGED <<disk, work, open, pending, durable>>

(* An error: of a batch, ROLLBACK, which takes along what others wrote. *)
Rollback(r) ==
  /\ req[r].pc = "fail"
  /\ IF r \in Batches
       THEN work' = disk /\ pending' = {} /\ open' = NoBatch
       ELSE UNCHANGED <<work, pending, open>>
  /\ End(r, "failed")
  /\ UNCHANGED <<disk, durable, faults>>

(* Mutant: armed only once the transaction is over. *)
TimeoutLate(b) ==
  /\ req[b].pc = "done" /\ req[b].answer = "none"
  /\ req' = [req EXCEPT ![b].answer = "failed"]
  /\ UNCHANGED <<disk, work, open, pending, durable, faults>>

(* setTimeout in Promise.race: answers, and leaves the transaction running. *)
Timeout(b) ==
  /\ req[b].pc \in {"begin", "find", "write", "after", "hung", "commit", "fail"}
  /\ req[b].answer = "none"
  /\ req' = [req EXCEPT ![b].answer = "failed"]
  /\ UNCHANGED <<disk, work, open, pending, durable, faults>>

(* The process dies; SQLite rolls the open transaction back on the next open. *)
Restart ==
  /\ Fault
  /\ work' = disk /\ pending' = {} /\ open' = NoBatch
  /\ req' = [r \in Requests |-> IF req[r].pc = "idle" THEN req[r]
                                ELSE [req[r] EXCEPT !.pc = "done"]]
  /\ UNCHANGED <<disk, durable>>

Proceed(r) ==
  \/ Find(r) \/ Write(r) \/ After(r) \/ HookThrows(r)
  \/ Commit(r) \/ Respond(r) \/ Rollback(r)

BatchNext ==
  \/ \E r \in Requests : Arrive(r) \/ Proceed(r) \/ HookHangs(r)
  \/ \E b \in Batches : BatchRequest(b) \/ Begin(b) \/ CommitFails(b) \/ Timeout(b)
  \/ Restart

BatchSpec == BatchInit /\ [][BatchNext]_batchVars

-----------------------------------------------------------------------------
Pcs == {"idle", "request", "begin", "find", "write", "after", "hung", "commit",
        "committed", "fail", "done"}

Writes == Requests \X (Nat \ {0})

(* The shapes of the file, the connection and the requests. *)
BatchTypeOK ==
  /\ disk \subseteq Records /\ work \subseteq Records
  /\ open \in Batches \cup {NoBatch}
  /\ req \in [Requests -> [pc : Pcs, ops : Programs \cup {<<>>}, step : Nat \ {0},
                           write : {"insert", "update", "delete"},
                           answer : {"none", "ok", "failed"}]]
  /\ pending \subseteq Writes /\ durable \subseteq Writes
  /\ faults \in Nat

Landed(b) == {i \in 1..Len(req[b].ops) : <<b, i>> \in durable}

(* Of a batch, all writes reach the file or none does, and all have when it *)
(* is answered with its results: whatever other batches and requests do on  *)
(* the connection, wherever the process dies, and if COMMIT fails           *)
(* ("executed in a transaction", apis/batch.ts).                            *)
AllOrNothing ==
  \A b \in Batches :
    Landed(b) \in IF req[b].answer = "ok" THEN {1..Len(req[b].ops)}
                                        ELSE {{}, 1..Len(req[b].ops)}

Atomic == INSTANCE AtomicBatch WITH
  Sizes  <- {Len(ops) : ops \in Programs},
  size   <- [b \in Batches |-> Len(req[b].ops)],
  file   <- {w \in durable : w[1] \in Batches},
  answer <- [b \in Batches |-> req[b].answer]

(* The API implements AtomicBatch: the writes of a batch reach the file in *)
(* one step and for good, whoever is answered with the results finds them  *)
(* there, a failure is answered only before they are, and an answer once   *)
(* given stays.  A process that dies may leave a batch without an answer,  *)
(* landed or not.                                                          *)
BatchesLand == Atomic!Spec

(* Once the hooks of onBatchRequest are through, a batch is answered, or   *)
(* the process dies, even if a later hook never returns; and a transaction *)
(* ends unless such a hook is its own.                                     *)
BatchEnds ==
  \A b \in Batches :
    /\ req[b].pc = "begin" ~> req[b].answer # "none" \/ req[b].pc = "done"
    /\ open = b ~> open # b \/ req[b].pc = "hung"

(* A batch that failed has no effect: "Batch transaction failed.", and the  *)
(* Go version it is aligned with rolls back on its timeout.                 *)
FailedLeavesNothing ==
  \A b \in Batches : req[b].answer = "failed" => Landed(b) = {}
=============================================================================
