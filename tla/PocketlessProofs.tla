-------------------------- MODULE PocketlessProofs --------------------------
(***************************************************************************)
(* Theorems about the port and its SDK: the batches, the session, and what *)
(* the three parts keep together.                                          *)
(***************************************************************************)
EXTENDS MCPocketless, PocketlessJobsProofs, TLAPS

-----------------------------------------------------------------------------
(* Batches. *)

ReqType == [pc : Pcs, ops : Programs \cup {<<>>}, step : Nat \ {0},
            write : {"insert", "update", "delete"}, answer : {"none", "ok", "failed"}]

(* One request changes, and how. *)
Moves(r, pc, ops, step, answer) ==
  /\ req' \in [Requests -> ReqType]
  /\ req'[r].pc = pc /\ req'[r].ops = ops /\ req'[r].step = step /\ req'[r].answer = answer
  /\ \A q \in Requests : q # r => req'[q] = req[q]

(* A record put in the place of a request's. *)
LEMMA Put ==
  ASSUME BatchTypeOK, NEW r \in Requests, NEW v \in ReqType, req' = [req EXCEPT ![r] = v]
  PROVE  Moves(r, v.pc, v.ops, v.step, v.answer)
<1>1. req \in [Requests -> ReqType]
  BY DEF BatchTypeOK, ReqType
<1>2. req' \in [Requests -> ReqType]
  BY <1>1
<1>3. req'[r] = v
  BY <1>1
<1>4. ASSUME NEW q \in Requests, q # r PROVE req'[q] = req[q]
  BY <1>1, <1>4
<1> QED
  BY <1>2, <1>3, <1>4 DEF Moves

LEMMA RequestType ==
  ASSUME BatchTypeOK, NEW r \in Requests
  PROVE  req[r] \in ReqType
BY DEF BatchTypeOK, ReqType

LEMMA GotoMoves ==
  ASSUME BatchTypeOK, NEW r \in Requests, NEW pc \in Pcs, Goto(r, pc)
  PROVE  Moves(r, pc, req[r].ops, req[r].step, req[r].answer)
<1> DEFINE v == [req[r] EXCEPT !.pc = pc]
<1>1. req[r] \in ReqType
  BY RequestType
<1>2. v \in ReqType /\ v.pc = pc /\ v.ops = req[r].ops /\ v.step = req[r].step /\ v.answer = req[r].answer
  BY <1>1 DEF ReqType
<1>3. req' = [req EXCEPT ![r] = v]
  BY DEF Goto
<1> HIDE DEF v
<1> QED
  BY <1>2, <1>3, Put

LEMMA EndMoves ==
  ASSUME BatchTypeOK, NEW r \in Requests, NEW a \in {"ok", "failed"}, End(r, a)
  PROVE  Moves(r, "done", req[r].ops, req[r].step, Answered(r, a))
<1> DEFINE v == [req[r] EXCEPT !.pc = "done", !.answer = Answered(r, a)]
<1>1. req[r] \in ReqType
  BY RequestType
<1>2. Answered(r, a) \in {"none", "ok", "failed"}
  BY <1>1 DEF Answered, ReqType
<1>3. v \in ReqType
  BY <1>1, <1>2 DEF ReqType, Pcs
<1>4. v.pc = "done" /\ v.ops = req[r].ops /\ v.step = req[r].step /\ v.answer = Answered(r, a)
  BY <1>1 DEF ReqType
<1>5. req' = [req EXCEPT ![r] = v]
  BY DEF End
<1> HIDE DEF v
<1> QED
  BY <1>3, <1>4, <1>5, Put

(* Timeout changes the answer alone. *)
LEMMA TimeoutMoves ==
  ASSUME BatchTypeOK, NEW b \in Batches, Timeout(b)
  PROVE  Moves(b, req[b].pc, req[b].ops, req[b].step, "failed")
<1> DEFINE v == [req[b] EXCEPT !.answer = "failed"]
<1>1. b \in Requests /\ req[b] \in ReqType
  BY RequestType DEF Requests
<1>2. v \in ReqType /\ v.pc = req[b].pc /\ v.ops = req[b].ops /\ v.step = req[b].step /\ v.answer = "failed"
  BY <1>1 DEF ReqType
<1>3. req' = [req EXCEPT ![b] = v]
  BY DEF Timeout
<1> HIDE DEF v
<1> QED
  BY <1>1, <1>2, <1>3, Put

LEMMA ArriveMoves ==
  ASSUME BatchTypeOK, NEW r \in Requests, Arrive(r)
  PROVE  \E ops \in Programs :
           Moves(r, IF r \in Batches THEN "request" ELSE "find", ops, req[r].step, req[r].answer)
<1> DEFINE pc == IF r \in Batches THEN "request" ELSE "find"
<1>1. req[r] \in ReqType /\ pc \in Pcs
  BY RequestType DEF Pcs
<1>2. PICK ops \in Programs : req' = [req EXCEPT ![r] = [@ EXCEPT !.ops = ops, !.pc = pc]]
  BY DEF Arrive
<1> DEFINE v == [req[r] EXCEPT !.ops = ops, !.pc = pc]
<1> HIDE DEF pc
<1>3. v \in ReqType
  BY <1>1 DEF ReqType
<1>4. v.pc = pc /\ v.ops = ops /\ v.step = req[r].step /\ v.answer = req[r].answer
  BY <1>1 DEF ReqType
<1>5. req' = [req EXCEPT ![r] = v]
  BY <1>2
<1> HIDE DEF v
<1>6. Moves(r, pc, ops, req[r].step, req[r].answer)
  BY <1>3, <1>4, <1>5, Put
<1> QED
  BY <1>6 DEF pc

(* Find goes on to the statement, or fails. *)
LEMMA FindMoves ==
  ASSUME BatchTypeOK, NEW r \in Requests, Find(r)
  PROVE  \E pc \in {"write", "fail"} : Moves(r, pc, req[r].ops, req[r].step, req[r].answer)
<1> DEFINE w == CASE Kind(r) = "delete" -> "delete"
                  [] Kind(r) # "create" /\ Record(r) \in work -> "update"
                  [] OTHER -> "insert"
           v == [req[r] EXCEPT !.pc = "write", !.write = w]
<1>1. req[r] \in ReqType
  BY RequestType
<1>2. w \in {"insert", "update", "delete"}
  OBVIOUS
<1>3. CASE Goto(r, "fail")
  BY <1>3, GotoMoves DEF Pcs
<1>4. CASE req' = [req EXCEPT ![r] = v]
  <2> HIDE DEF w
  <2>1. v \in ReqType
    BY <1>1, <1>2 DEF ReqType, Pcs
  <2>2. v.pc = "write" /\ v.ops = req[r].ops /\ v.step = req[r].step /\ v.answer = req[r].answer
    BY <1>1 DEF ReqType
  <2> HIDE DEF v
  <2>3. Moves(r, "write", req[r].ops, req[r].step, req[r].answer)
    BY <1>4, <2>1, <2>2, Put
  <2> QED
    BY <2>3
<1> QED
  BY <1>3, <1>4 DEF Find

LEMMA WriteMoves ==
  ASSUME BatchTypeOK, NEW r \in Requests, Write(r)
  PROVE  \/ /\ Moves(r, "fail", req[r].ops, req[r].step, req[r].answer)
            /\ UNCHANGED <<disk, work, open, pending, durable>>
         \/ /\ Moves(r, "after", req[r].ops, req[r].step, req[r].answer)
            /\ UNCHANGED open
            /\ \/ /\ open = NoBatch /\ durable' = durable \cup {<<r, req[r].step>>}
                  /\ UNCHANGED pending
               \/ /\ open # NoBatch /\ pending' = pending \cup {<<r, req[r].step>>}
                  /\ UNCHANGED durable
<1> DEFINE v == [req[r] EXCEPT !.pc = "after", !.write = "insert"]
<1>1. req[r] \in ReqType
  BY RequestType
<1>2. v \in ReqType
  BY <1>1 DEF ReqType, Pcs
<1>3. v.pc = "after" /\ v.ops = req[r].ops /\ v.step = req[r].step /\ v.answer = req[r].answer
  BY <1>1 DEF ReqType
<1>4. CASE req[r].write = "insert" /\ Record(r) \in work
  BY <1>4, GotoMoves DEF Write, Pcs
<1>5. CASE ~(req[r].write = "insert" /\ Record(r) \in work)
  <2>1. req' = [req EXCEPT ![r] = v]
    BY <1>5 DEF Write
  <2> HIDE DEF v
  <2>2. Moves(r, "after", req[r].ops, req[r].step, req[r].answer)
    BY <1>2, <1>3, <2>1, Put
  <2> QED
    BY <1>5, <2>2 DEF Write
<1> QED
  BY <1>4, <1>5

LEMMA AfterMoves ==
  ASSUME BatchTypeOK, NEW r \in Requests, After(r)
  PROVE  \/ /\ req[r].step < Len(req[r].ops)
            /\ Moves(r, "find", req[r].ops, req[r].step + 1, req[r].answer)
         \/ /\ ~(req[r].step < Len(req[r].ops)) /\ r \in Batches
            /\ Moves(r, "commit", req[r].ops, req[r].step, req[r].answer)
         \/ r \notin Batches /\ Moves(r, "done", req[r].ops, req[r].step, Answered(r, "ok"))
<1> DEFINE n == req[r].step + 1
           v == [req[r] EXCEPT !.pc = "find", !.step = n]
<1>1. req[r] \in ReqType
  BY RequestType
<1>2. v \in ReqType
  <2>1. n \in Nat \ {0}
    BY <1>1, SMT DEF ReqType
  <2> HIDE DEF n
  <2> QED
    BY <1>1, <2>1 DEF ReqType, Pcs
<1>3. v.pc = "find" /\ v.ops = req[r].ops /\ v.step = req[r].step + 1 /\ v.answer = req[r].answer
  BY <1>1 DEF ReqType
<1>4. CASE req[r].step < Len(req[r].ops)
  <2>1. req' = [req EXCEPT ![r] = v]
    BY <1>4 DEF After
  <2> HIDE DEF v
  <2>2. Moves(r, v.pc, v.ops, v.step, v.answer)
    BY <1>2, <2>1, Put
  <2> QED
    BY <1>3, <1>4, <2>2
<1>5. CASE ~(req[r].step < Len(req[r].ops)) /\ r \in Batches
  BY <1>5, GotoMoves DEF After, Pcs
<1>6. CASE ~(req[r].step < Len(req[r].ops)) /\ r \notin Batches
  <2>1. End(r, "ok")
    BY <1>6 DEF After
  <2> QED
    BY <1>6, <2>1, EndMoves
<1> QED
  BY <1>4, <1>5, <1>6

(* A crash ends every request that has begun. *)
Restarted ==
  /\ req' \in [Requests -> ReqType]
  /\ \A r \in Requests :
       /\ req'[r].ops = req[r].ops /\ req'[r].step = req[r].step /\ req'[r].answer = req[r].answer
       /\ req'[r].pc = IF req[r].pc = "idle" THEN "idle" ELSE "done"

LEMMA RestartMoves ==
  ASSUME BatchTypeOK, Restart
  PROVE  Restarted
<1> DEFINE v(r) == [req[r] EXCEPT !.pc = "done"]
           w(r) == IF req[r].pc = "idle" THEN req[r] ELSE v(r)
<1>1. ASSUME NEW r \in Requests
      PROVE  /\ w(r) \in ReqType
             /\ w(r).ops = req[r].ops /\ w(r).step = req[r].step /\ w(r).answer = req[r].answer
             /\ w(r).pc = IF req[r].pc = "idle" THEN "idle" ELSE "done"
  <2>1. req[r] \in ReqType
    BY RequestType
  <2>2. v(r) \in ReqType /\ v(r).ops = req[r].ops /\ v(r).step = req[r].step
        /\ v(r).answer = req[r].answer /\ v(r).pc = "done"
    BY <2>1 DEF ReqType, Pcs
  <2> HIDE DEF v
  <2> QED
    BY <2>1, <2>2
<1>2. req' = [r \in Requests |-> w(r)]
  BY DEF Restart
<1> HIDE DEF w
<1> QED
  BY <1>1, <1>2 DEF Restarted

-----------------------------------------------------------------------------
(* A request that has arrived is at one of its writes. *)
Placed ==
  \A r \in Requests :
    /\ req[r].pc # "idle" => req[r].ops \in Programs /\ req[r].step \in 1..Len(req[r].ops)
    /\ req[r].pc \in {"idle", "request", "begin"} => req[r].step = 1

LEMMA TypeStep ==
  ASSUME BatchTypeOK, Placed, [BatchNext]_batchVars
  PROVE  BatchTypeOK'
<1> DEFINE Requested == req' \in [Requests -> ReqType]
           Filed     == disk' \subseteq Records /\ work' \subseteq Records
           Opened    == open' \in Batches \cup {NoBatch}
           Named     == pending' \subseteq Writes /\ durable' \subseteq Writes
           Counted   == faults' \in Nat
<1>0. ASSUME Requested, Filed, Opened, Named, Counted PROVE BatchTypeOK'
  BY <1>0 DEF BatchTypeOK, ReqType
<1>a. Batches \subseteq Requests
  BY DEF Requests
<1>1. ASSUME NEW r \in Requests, Arrive(r) PROVE BatchTypeOK'
  <2>1. Requested
    BY <1>1, ArriveMoves DEF Moves
  <2> QED
    BY <1>0, <1>1, <2>1 DEF Arrive, BatchTypeOK
<1>2. ASSUME NEW r \in Requests, Find(r) PROVE BatchTypeOK'
  <2>1. Requested
    BY <1>2, FindMoves DEF Moves
  <2> QED
    BY <1>0, <1>2, <2>1 DEF Find, BatchTypeOK
<1>3. ASSUME NEW r \in Requests, Write(r) PROVE BatchTypeOK'
  <2>1. Requested
    BY <1>3, WriteMoves DEF Moves
  <2>2. <<r, req[r].step>> \in Writes
    BY RequestType DEF Writes, ReqType
  <2>3. Named
    BY <1>3, <2>2, WriteMoves DEF BatchTypeOK
  <2>4. Filed
    <3>1. CASE req[r].write = "insert" /\ Record(r) \in work
      BY <1>3, <3>1 DEF Write, BatchTypeOK
    <3>2. CASE ~(req[r].write = "insert" /\ Record(r) \in work)
      <4>1. Record(r) \in Records
        <5>1. req[r].ops \in Seq(Op) /\ req[r].step \in 1..Len(req[r].ops)
          BY <1>3, BatchAssumption DEF Write, Placed
        <5>2. req[r].ops[req[r].step] \in Op
          BY <5>1
        <5> QED
          BY <5>2 DEF Record, Op
      <4> QED
        BY <1>3, <3>2, <4>1 DEF Write, BatchTypeOK
    <3> QED
      BY <3>1, <3>2
  <2> QED
    BY <1>0, <1>3, <2>1, <2>3, <2>4 DEF Write, BatchTypeOK
<1>4. ASSUME NEW r \in Requests, After(r) PROVE BatchTypeOK'
  <2>1. Requested
    BY <1>4, AfterMoves DEF Moves
  <2> QED
    BY <1>0, <1>4, <2>1 DEF After, BatchTypeOK
<1>5. ASSUME NEW r \in Requests, HookThrows(r) PROVE BatchTypeOK'
  <2>1. Requested
    BY <1>5, GotoMoves DEF HookThrows, Moves, Pcs
  <2> QED
    BY <1>0, <1>5, <2>1 DEF HookThrows, BatchTypeOK
<1>6. ASSUME NEW r \in Requests, HookHangs(r) PROVE BatchTypeOK'
  <2>1. Requested
    BY <1>6, GotoMoves DEF HookHangs, Moves, Pcs
  <2> QED
    BY <1>0, <1>6, <2>1 DEF HookHangs, Fault, BatchTypeOK
<1>7. ASSUME NEW b \in Batches, Commit(b) PROVE BatchTypeOK'
  <2>1. Requested
    BY <1>a, <1>7, GotoMoves DEF Commit, Moves, Pcs
  <2> QED
    BY <1>0, <1>7, <2>1 DEF Commit, BatchTypeOK
<1>8. ASSUME NEW r \in Requests, Rollback(r) PROVE BatchTypeOK'
  <2>1. Requested
    BY <1>8, EndMoves DEF Rollback, Moves
  <2> QED
    BY <1>0, <1>8, <2>1 DEF Rollback, BatchTypeOK
<1>9. ASSUME NEW b \in Batches, Begin(b) PROVE BatchTypeOK'
  <2>1. Requested
    BY <1>a, <1>9, EndMoves, GotoMoves DEF Begin, Moves, Pcs
  <2> QED
    BY <1>0, <1>9, <2>1 DEF Begin, BatchTypeOK
<1>10. ASSUME NEW b \in Batches, CommitFails(b) PROVE BatchTypeOK'
  <2>1. Requested
    BY <1>a, <1>10, GotoMoves DEF CommitFails, Moves, Pcs
  <2> QED
    BY <1>0, <1>10, <2>1 DEF CommitFails, Fault, BatchTypeOK
<1>11. ASSUME NEW b \in Batches, Timeout(b) PROVE BatchTypeOK'
  <2>1. Requested
    BY <1>11, TimeoutMoves DEF Moves
  <2> QED
    BY <1>0, <1>11, <2>1 DEF Timeout, BatchTypeOK
<1>12. CASE Restart
  <2>1. Requested
    BY <1>12, RestartMoves DEF Restarted
  <2> QED
    BY <1>0, <1>12, <2>1 DEF Restart, Fault, BatchTypeOK
<1>13. CASE UNCHANGED batchVars
  BY <1>13 DEF batchVars, BatchTypeOK
<1>14. ASSUME NEW r \in Requests, Commit(r) PROVE r \in Batches
  BY <1>14 DEF Commit
<1>15. ASSUME NEW r \in Requests, Respond(r) PROVE BatchTypeOK'
  <2>1. Requested
    BY <1>15, EndMoves DEF Respond, Moves
  <2> QED
    BY <1>0, <1>15, <2>1 DEF Respond, BatchTypeOK
<1>16. ASSUME NEW b \in Batches, BatchRequest(b) PROVE BatchTypeOK'
  <2>1. Requested
    BY <1>a, <1>16, EndMoves, GotoMoves DEF BatchRequest, Moves, Pcs
  <2> QED
    BY <1>0, <1>16, <2>1 DEF BatchRequest, BatchTypeOK
<1> QED
  BY <1>1, <1>2, <1>3, <1>4, <1>5, <1>6, <1>7, <1>8, <1>9, <1>10, <1>11, <1>12, <1>13, <1>14, <1>15,
     <1>16 DEF BatchNext, Proceed

LEMMA PlacedMove ==
  ASSUME Placed, NEW r \in Requests, NEW pc, NEW ops, NEW step, NEW answer,
         Moves(r, pc, ops, step, answer),
         pc # "idle" => ops \in Programs /\ step \in 1..Len(ops),
         pc \in {"idle", "request", "begin"} => step = 1
  PROVE  Placed'
BY DEF Placed, Moves

LEMMA PlacedStep ==
  ASSUME BatchTypeOK, Placed, [BatchNext]_batchVars
  PROVE  Placed'
<1>a. Batches \subseteq Requests
  BY DEF Requests
<1>1. ASSUME NEW r \in Requests, Arrive(r) PROVE Placed'
  <2> DEFINE pc == IF r \in Batches THEN "request" ELSE "find"
  <2>1. PICK ops \in Programs : Moves(r, pc, ops, req[r].step, req[r].answer)
    BY <1>1, ArriveMoves
  <2>2. ops \in Seq(Op) /\ ops # <<>>
    BY BatchAssumption
  <2>3. 1 \in 1..Len(ops)
    BY <2>2
  <2>4. req[r].step = 1
    BY <1>1 DEF Arrive, Placed
  <2>5. pc # "idle"
    OBVIOUS
  <2> HIDE DEF pc
  <2> QED
    BY <2>1, <2>3, <2>4, <2>5, PlacedMove
<1>2. ASSUME NEW r \in Requests, Find(r) PROVE Placed'
  <2>1. PICK pc \in {"write", "fail"} : Moves(r, pc, req[r].ops, req[r].step, req[r].answer)
    BY <1>2, FindMoves
  <2>2. req[r].ops \in Programs /\ req[r].step \in 1..Len(req[r].ops)
    BY <1>2 DEF Find, Placed
  <2> QED
    BY <2>1, <2>2, PlacedMove
<1>3. ASSUME NEW r \in Requests, Write(r) PROVE Placed'
  <2>1. req[r].ops \in Programs /\ req[r].step \in 1..Len(req[r].ops)
    BY <1>3 DEF Write, Placed
  <2> QED
    BY <1>3, <2>1, WriteMoves, PlacedMove
<1>4. ASSUME NEW r \in Requests, After(r) PROVE Placed'
  <2>1. req[r].ops \in Programs /\ req[r].step \in 1..Len(req[r].ops)
    BY <1>4 DEF After, Placed
  <2>2. CASE /\ req[r].step < Len(req[r].ops)
             /\ Moves(r, "find", req[r].ops, req[r].step + 1, req[r].answer)
    <3>1. req[r].ops \in Seq(Op)
      BY <2>1, BatchAssumption
    <3>2. req[r].step + 1 \in 1..Len(req[r].ops)
      BY <2>1, <2>2, <3>1
    <3> QED
      BY <2>1, <2>2, <3>2, PlacedMove
  <2>3. CASE Moves(r, "commit", req[r].ops, req[r].step, req[r].answer)
    BY <2>1, <2>3, PlacedMove
  <2>4. CASE Moves(r, "done", req[r].ops, req[r].step, Answered(r, "ok"))
    BY <2>1, <2>4, PlacedMove
  <2> QED
    BY <1>4, <2>2, <2>3, <2>4, AfterMoves
<1>5. ASSUME NEW r \in Requests, NEW pc \in {"fail", "hung", "find", "committed"}, req[r].pc # "idle",
             Goto(r, pc)
      PROVE  Placed'
  <2>1. req[r].ops \in Programs /\ req[r].step \in 1..Len(req[r].ops)
    BY <1>5 DEF Placed
  <2>2. Moves(r, pc, req[r].ops, req[r].step, req[r].answer)
    BY <1>5, GotoMoves DEF Pcs
  <2> QED
    BY <2>1, <2>2, PlacedMove
<1>6. ASSUME NEW r \in Requests, NEW a \in {"ok", "failed"}, req[r].pc # "idle", End(r, a)
      PROVE  Placed'
  <2>1. req[r].ops \in Programs /\ req[r].step \in 1..Len(req[r].ops)
    BY <1>6 DEF Placed
  <2>2. Moves(r, "done", req[r].ops, req[r].step, Answered(r, a))
    BY <1>6, EndMoves
  <2> QED
    BY <2>1, <2>2, PlacedMove
<1>7. ASSUME NEW r \in Requests, HookThrows(r) \/ HookHangs(r) PROVE Placed'
  BY <1>5, <1>7 DEF HookThrows, HookHangs
<1>8. ASSUME NEW b \in Batches, Begin(b) \/ CommitFails(b) \/ Commit(b) PROVE Placed'
  BY <1>a, <1>5, <1>6, <1>8 DEF Begin, CommitFails, Commit
<1>9. ASSUME NEW r \in Requests, Rollback(r) PROVE Placed'
  BY <1>6, <1>9 DEF Rollback
<1>14. ASSUME NEW r \in Requests, Respond(r) PROVE Placed'
  BY <1>6, <1>14 DEF Respond
<1>15. ASSUME NEW b \in Batches, BatchRequest(b) PROVE Placed'
  <2>1. req[b].pc = "request" /\ (Goto(b, "begin") \/ End(b, "failed"))
    BY <1>15 DEF BatchRequest
  <2>2. CASE Goto(b, "begin")
    <3>1. req[b].ops \in Programs /\ req[b].step \in 1..Len(req[b].ops) /\ req[b].step = 1
      BY <1>a, <2>1 DEF Placed
    <3>2. Moves(b, "begin", req[b].ops, req[b].step, req[b].answer)
      BY <1>a, <2>2, GotoMoves DEF Pcs
    <3> QED
      BY <1>a, <3>1, <3>2, PlacedMove
  <2> QED
    BY <1>a, <1>6, <2>1, <2>2
<1>10. ASSUME NEW b \in Batches, Timeout(b) PROVE Placed'
  <2>1. req[b].ops \in Programs /\ req[b].step \in 1..Len(req[b].ops) /\ req[b].pc # "idle"
    BY <1>a, <1>10 DEF Timeout, Placed
  <2>2. req[b].pc \in {"idle", "request", "begin"} => req[b].step = 1
    BY <1>a DEF Placed
  <2>3. Moves(b, req[b].pc, req[b].ops, req[b].step, "failed")
    BY <1>10, TimeoutMoves
  <2> QED
    BY <1>a, <2>1, <2>2, <2>3, PlacedMove
<1>11. CASE Restart
  BY <1>11, RestartMoves DEF Restarted, Placed
<1>12. CASE UNCHANGED batchVars
  BY <1>12 DEF batchVars, Placed
<1>13. ASSUME NEW r \in Requests, Commit(r) PROVE r \in Batches
  BY <1>13 DEF Commit
<1> QED
  BY <1>1, <1>2, <1>3, <1>4, <1>7, <1>8, <1>9, <1>10, <1>11, <1>12, <1>13, <1>14, <1>15
     DEF BatchNext, Proceed

LEMMA InitPlaced == BatchInit => BatchTypeOK /\ Placed
BY BatchAssumption DEF BatchInit, BatchTypeOK, Placed, Pcs

(* The state keeps its types, for any batches, writes and interleavings. *)
THEOREM BatchTypeCorrect == BatchSpec => []BatchTypeOK
<1>1. BatchInit => BatchTypeOK /\ Placed
  BY InitPlaced
<1>2. BatchTypeOK /\ Placed /\ [BatchNext]_batchVars => (BatchTypeOK /\ Placed)'
  BY TypeStep, PlacedStep
<1> QED
  BY <1>1, <1>2, PTL DEF BatchSpec

-----------------------------------------------------------------------------
(* The inductive invariant.  The batch whose transaction is open is the one *)
(* that is under way; of the writes of batches, the transaction holds its   *)
(* own only, and all it has done; a batch is in the file entirely or not at *)
(* all, and before its COMMIT it is not.                                    *)
Over == {"committed", "done"}

InTransaction == {"find", "write", "after", "hung", "commit", "fail"}

OneOpen == \A b \in Batches : open = b <=> req[b].pc \in InTransaction

OwnWrites ==
  \A w \in pending :
    w[1] \in Batches => w[1] = open /\ w[2] \in 1..Len(req[w[1]].ops)

Written(b) ==
  req[b].pc \in InTransaction =>
    /\ \A i \in 1..(req[b].step - 1) : <<b, i>> \in pending
    /\ req[b].pc \in {"after", "commit"} => <<b, req[b].step>> \in pending
    /\ req[b].pc = "commit" => req[b].step = Len(req[b].ops)

Absent(b) == \A i \in Nat : <<b, i>> \notin durable

Present(b) == \A i \in 1..Len(req[b].ops) : <<b, i>> \in durable

Outcome(b) ==
  \/ Absent(b) /\ req[b].answer # "ok" /\ req[b].pc # "committed"
  \/ req[b].pc \in Over /\ Present(b)

BatchInv ==
  /\ BatchTypeOK /\ Placed
  /\ OneOpen /\ OwnWrites
  /\ \A b \in Batches : Written(b) /\ Outcome(b)

LEMMA OutcomeSuffices == BatchInv => AllOrNothing
<1> SUFFICES ASSUME BatchInv, NEW b \in Batches
             PROVE  Landed(b) \in IF req[b].answer = "ok" THEN {1..Len(req[b].ops)}
                                                         ELSE {{}, 1..Len(req[b].ops)}
  BY DEF AllOrNothing
<1>1. CASE Absent(b) /\ req[b].answer # "ok"
  <2>1. Len(req[b].ops) \in Nat
    <3>1. req[b].ops \in Seq(Op) \cup {<<>>}
      BY BatchAssumption DEF BatchInv, BatchTypeOK, Requests
    <3> QED
      BY <3>1
  <2>2. Landed(b) = {}
    BY <1>1, <2>1 DEF Landed, Absent
  <2> QED
    BY <1>1, <2>2
<1>2. CASE Present(b)
  BY <1>2 DEF Landed, Present
<1> QED
  BY <1>1, <1>2 DEF BatchInv, Outcome

(* A request moves, and the transaction and the file stay as they are. *)
LEMMA QuietMove ==
  ASSUME BatchInv, BatchTypeOK', Placed',
         NEW r \in Requests, NEW pc, NEW ops, NEW step, NEW answer,
         Moves(r, pc, ops, step, answer),
         open' = open, pending' = pending, durable' = durable,
         r \in Batches =>
           /\ pc \in InTransaction <=> req[r].pc \in InTransaction
           /\ ops = req[r].ops \/ req[r].pc = "idle"
           /\ req[r].pc \notin Over /\ answer # "ok" /\ pc # "committed"
           /\ pc \in InTransaction =>
                /\ \A i \in 1..(step - 1) : <<r, i>> \in pending
                /\ pc \in {"after", "commit"} => <<r, step>> \in pending
                /\ pc = "commit" => step = Len(ops)
  PROVE  BatchInv'
<1>a. Batches \subseteq Requests
  BY DEF Requests
<1>1. OneOpen'
  BY <1>a DEF BatchInv, OneOpen, Moves
<1>2. OwnWrites'
  <2> SUFFICES ASSUME NEW w \in pending, w[1] \in Batches
               PROVE  w[1] = open /\ w[2] \in 1..Len(req'[w[1]].ops)
    BY DEF OwnWrites
  <2>1. w[1] = open /\ w[2] \in 1..Len(req[w[1]].ops)
    BY DEF BatchInv, OwnWrites
  <2>2. req[w[1]].pc # "idle"
    BY <2>1 DEF BatchInv, OneOpen, InTransaction
  <2>3. req'[w[1]].ops = req[w[1]].ops
    BY <1>a, <2>2 DEF Moves
  <2> QED
    BY <2>1, <2>3
<1>3. ASSUME NEW b \in Batches PROVE Written(b)'
  <2>1. CASE b = r
    BY <2>1 DEF Written, Moves
  <2>2. CASE b # r
    BY <1>a, <2>2 DEF BatchInv, Written, Moves
  <2> QED
    BY <2>1, <2>2
<1>4. ASSUME NEW b \in Batches PROVE Outcome(b)'
  <2>1. CASE b = r
    BY <2>1 DEF BatchInv, Outcome, Absent, Moves
  <2>2. CASE b # r
    BY <1>a, <2>2 DEF BatchInv, Outcome, Absent, Present, Moves
  <2> QED
    BY <2>1, <2>2
<1> QED
  BY <1>1, <1>2, <1>3, <1>4 DEF BatchInv

LEMMA WriteInv ==
  ASSUME BatchInv, BatchTypeOK', Placed', NEW r \in Requests, Write(r)
  PROVE  BatchInv'
<1> DEFINE w == <<r, req[r].step>>
<1>a. Batches \subseteq Requests
  BY DEF Requests
<1>b. BatchTypeOK
  BY DEF BatchInv
<1>c. req[r].pc = "write"
  BY DEF Write
<1>d. r \in Batches => /\ open = r /\ open # NoBatch /\ req[r].answer # "ok"
                       /\ \A i \in 1..(req[r].step - 1) : <<r, i>> \in pending
                       /\ req[r].step \in 1..Len(req[r].ops)
  <2> SUFFICES ASSUME r \in Batches
               PROVE  /\ open = r /\ open # NoBatch /\ req[r].answer # "ok"
                      /\ \A i \in 1..(req[r].step - 1) : <<r, i>> \in pending
                      /\ req[r].step \in 1..Len(req[r].ops)
    OBVIOUS
  <2>1. open = r
    BY <1>c DEF BatchInv, OneOpen, InTransaction
  <2>2. open # NoBatch
    BY <2>1, BatchAssumption
  <2>3. req[r].answer # "ok"
    BY <1>c DEF BatchInv, Outcome, Over
  <2>4. \A i \in 1..(req[r].step - 1) : <<r, i>> \in pending
    BY <1>c DEF BatchInv, Written, InTransaction
  <2>5. req[r].step \in 1..Len(req[r].ops)
    BY <1>c DEF BatchInv, Placed
  <2> QED
    BY <2>1, <2>2, <2>3, <2>4, <2>5
<1>1. CASE /\ Moves(r, "fail", req[r].ops, req[r].step, req[r].answer)
           /\ UNCHANGED <<disk, work, open, pending, durable>>
  BY <1>1, <1>c, <1>d, QuietMove DEF InTransaction, Over
<1>2. CASE /\ Moves(r, "after", req[r].ops, req[r].step, req[r].answer)
           /\ UNCHANGED open
           /\ \/ /\ open = NoBatch /\ durable' = durable \cup {w} /\ UNCHANGED pending
              \/ /\ open # NoBatch /\ pending' = pending \cup {w} /\ UNCHANGED durable
  <2>1. OneOpen'
    BY <1>2, <1>a, <1>c DEF BatchInv, OneOpen, Moves, InTransaction
  <2>2. OwnWrites'
    <3>1. ASSUME NEW x \in pending, x[1] \in Batches
          PROVE  x[1] = open' /\ x[2] \in 1..Len(req'[x[1]].ops)
      BY <1>2, <1>a, <3>1 DEF BatchInv, OwnWrites, Moves
    <3>2. w[1] \in Batches => w[1] = open' /\ w[2] \in 1..Len(req'[w[1]].ops)
      BY <1>2, <1>d DEF Moves
    <3>3. pending' \subseteq pending \cup {w}
      BY <1>2
    <3> HIDE DEF w
    <3> QED
      BY <3>1, <3>2, <3>3 DEF OwnWrites
  <2>3. ASSUME NEW b \in Batches PROVE Written(b)'
    <3>1. pending \subseteq pending'
      BY <1>2
    <3>2. CASE b = r
      <4>1. w \in pending'
        BY <1>2, <1>d, <3>2
      <4> QED
        BY <1>2, <1>d, <3>1, <3>2, <4>1 DEF Written, Moves
    <3>3. CASE b # r
      BY <1>2, <1>a, <3>1, <3>3 DEF BatchInv, Written, Moves
    <3> QED
      BY <3>2, <3>3
  <2>4. ASSUME NEW b \in Batches PROVE Outcome(b)'
    <3>1. Outcome(b)
      BY DEF BatchInv
    <3>2. CASE b = r
      BY <1>2, <1>c, <1>d, <3>1, <3>2 DEF Outcome, Over, Absent, Moves
    <3>3. CASE b # r
      <4>1. \A i \in Nat : <<b, i>> \in durable' <=> <<b, i>> \in durable
        BY <1>2, <3>3
      <4>2. req'[b] = req[b]
        BY <1>2, <1>a, <3>3 DEF Moves
      <4>3. durable \subseteq durable'
        BY <1>2
      <4> QED
        BY <3>1, <4>1, <4>2, <4>3 DEF Outcome, Absent, Present
    <3> QED
      BY <3>2, <3>3
  <2> QED
    BY <2>1, <2>2, <2>3, <2>4 DEF BatchInv
<1> QED
  BY <1>b, <1>1, <1>2, WriteMoves

(* BEGIN finds no transaction, and so none of the batch's writes. *)
LEMMA BeginInv ==
  ASSUME BatchInv, BatchTypeOK', Placed', NEW b \in Batches, Begin(b), open = NoBatch
  PROVE  BatchInv'
<1>a. b \in Requests /\ Batches \subseteq Requests /\ BatchTypeOK /\ NoBatch \notin Batches
  BY BatchAssumption DEF Requests, BatchInv
<1>1. Moves(b, "find", req[b].ops, req[b].step, req[b].answer)
  BY <1>a, GotoMoves DEF Begin, Pcs
<1>2. open' = b /\ pending' = pending /\ durable' = durable /\ req[b].pc = "begin"
  BY DEF Begin
<1>3. OneOpen'
  BY <1>a, <1>1, <1>2 DEF BatchInv, OneOpen, Moves, InTransaction
<1>4. OwnWrites'
  BY <1>a, <1>2 DEF BatchInv, OwnWrites
<1>5. ASSUME NEW c \in Batches PROVE Written(c)'
  <2>1. CASE c = b
    <3>1. req'[b].step = 1 /\ req'[b].pc = "find"
      BY <1>a, <1>1, <1>2 DEF BatchInv, Placed, Moves
    <3>2. 1..(req'[b].step - 1) = {}
      BY <3>1
    <3> QED
      BY <2>1, <3>1, <3>2 DEF Written
  <2>2. CASE c # b
    BY <1>a, <1>1, <1>2, <2>2 DEF BatchInv, Written, Moves
  <2> QED
    BY <2>1, <2>2
<1>6. ASSUME NEW c \in Batches PROVE Outcome(c)'
  BY <1>a, <1>1, <1>2 DEF BatchInv, Outcome, Over, Absent, Present, Moves
<1> QED
  BY <1>3, <1>4, <1>5, <1>6 DEF BatchInv

(* What is committed of the batch is all of it, and of others nothing. *)
LEMMA CommitInv ==
  ASSUME BatchInv, BatchTypeOK', Placed', NEW b \in Batches, Commit(b)
  PROVE  BatchInv'
<1>a. b \in Requests /\ Batches \subseteq Requests /\ BatchTypeOK /\ NoBatch \notin Batches
  BY BatchAssumption DEF Requests, BatchInv
<1>1. Moves(b, "committed", req[b].ops, req[b].step, req[b].answer)
  BY <1>a, GotoMoves DEF Commit, Pcs
<1>2. open' = NoBatch /\ pending' = {} /\ durable' = durable \cup pending /\ req[b].pc = "commit"
  BY DEF Commit
<1>3. open = b
  BY <1>2 DEF BatchInv, OneOpen, InTransaction
<1>4. OneOpen'
  BY <1>a, <1>1, <1>2, <1>3 DEF BatchInv, OneOpen, Moves, InTransaction
<1>5. OwnWrites'
  BY <1>2 DEF OwnWrites
<1>6. ASSUME NEW c \in Batches PROVE Written(c)'
  <2>1. req'[c].pc \notin InTransaction
    BY <1>2, <1>4, <1>a DEF OneOpen
  <2> QED
    BY <2>1 DEF Written
<1>7. ASSUME NEW c \in Batches PROVE Outcome(c)'
  <2>1. CASE c = b
    <3>1. /\ \A i \in 1..(req[b].step - 1) : <<b, i>> \in pending
          /\ <<b, req[b].step>> \in pending
          /\ req[b].step = Len(req[b].ops)
      BY <1>2 DEF BatchInv, Written, InTransaction
    <3>2. req[b].step \in Nat \ {0}
      BY <1>a, RequestType DEF ReqType
    <3>3. ASSUME NEW i \in 1..Len(req[b].ops) PROVE <<b, i>> \in pending
      <4>1. i \in 1..(req[b].step - 1) \/ i = req[b].step
        BY <3>1, <3>2
      <4> QED
        BY <3>1, <4>1
    <3> QED
      BY <1>1, <1>2, <2>1, <3>3 DEF Outcome, Over, Present, Moves
  <2>2. CASE c # b
    <3>1. \A i \in Nat : <<c, i>> \notin pending
      BY <1>3, <2>2 DEF BatchInv, OwnWrites
    <3>2. req'[c] = req[c]
      BY <1>a, <1>1, <2>2 DEF Moves
    <3>3. Outcome(c)
      BY DEF BatchInv
    <3> QED
      BY <1>2, <3>1, <3>2, <3>3 DEF Outcome, Absent, Present
  <2> QED
    BY <2>1, <2>2
<1> QED
  BY <1>4, <1>5, <1>6, <1>7 DEF BatchInv

(* ROLLBACK, or the end of the process: no transaction, and a batch that    *)
(* was under way has left nothing.                                          *)
LEMMA NothingOpen ==
  ASSUME BatchInv, BatchTypeOK', Placed',
         open' = NoBatch, pending' = {}, durable' = durable,
         \A b \in Batches : /\ req'[b].pc \notin InTransaction /\ req'[b].ops = req[b].ops
                            /\ req'[b] = req[b] \/ req'[b].pc = "done"
                            /\ req'[b].answer = "ok" => req[b].answer = "ok"
  PROVE  BatchInv'
<1>1. OneOpen'
  BY BatchAssumption DEF OneOpen
<1>2. OwnWrites'
  BY DEF OwnWrites
<1>3. ASSUME NEW b \in Batches PROVE Written(b)'
  BY DEF Written
<1>4. ASSUME NEW b \in Batches PROVE Outcome(b)'
  BY DEF BatchInv, Outcome, Over, Absent, Present
<1> QED
  BY <1>1, <1>2, <1>3, <1>4 DEF BatchInv

(* The answer, once the file has the writes. *)
LEMMA RespondInv ==
  ASSUME BatchInv, BatchTypeOK', Placed', NEW b \in Batches, Respond(b)
  PROVE  BatchInv'
<1>a. b \in Requests /\ Batches \subseteq Requests /\ BatchTypeOK
  BY DEF Requests, BatchInv
<1>1. Moves(b, "done", req[b].ops, req[b].step, Answered(b, "ok"))
  BY <1>a, EndMoves DEF Respond
<1>2. open' = open /\ pending' = pending /\ durable' = durable /\ req[b].pc = "committed"
  BY DEF Respond
<1>3. OneOpen'
  BY <1>a, <1>1, <1>2 DEF BatchInv, OneOpen, Moves, InTransaction
<1>4. OwnWrites'
  <2>1. ASSUME NEW w \in pending, w[1] \in Batches
        PROVE  w[1] = open' /\ w[2] \in 1..Len(req'[w[1]].ops)
    BY <1>a, <1>1, <1>2, <2>1 DEF BatchInv, OwnWrites, Moves
  <2> QED
    BY <1>2, <2>1 DEF OwnWrites
<1>5. ASSUME NEW c \in Batches PROVE Written(c)' /\ Outcome(c)'
  <2>1. CASE c = b
    BY <1>1, <1>2, <2>1 DEF BatchInv, Written, Outcome, Over, Present, Moves, InTransaction
  <2>2. CASE c # b
    BY <1>a, <1>1, <1>2, <2>2 DEF BatchInv, Written, Outcome, Absent, Present, Moves
  <2> QED
    BY <2>1, <2>2
<1> QED
  BY <1>3, <1>4, <1>5 DEF BatchInv

LEMMA BatchInvStep ==
  ASSUME BatchInv, [BatchNext]_batchVars
  PROVE  BatchInv'
<1>a. Batches \subseteq Requests /\ BatchTypeOK /\ Placed
  BY DEF Requests, BatchInv
<1>b. BatchTypeOK' /\ Placed'
  BY <1>a, TypeStep, PlacedStep
<1>c. \A b \in Batches : req[b].pc \notin Over => req[b].answer # "ok"
  BY DEF BatchInv, Outcome
<1>1. ASSUME NEW r \in Requests, Arrive(r) PROVE BatchInv'
  <2> DEFINE pc == IF r \in Batches THEN "request" ELSE "find"
  <2>1. PICK ops \in Programs : Moves(r, pc, ops, req[r].step, req[r].answer)
    BY <1>a, <1>1, ArriveMoves
  <2>2. req[r].pc = "idle" /\ open' = open /\ pending' = pending /\ durable' = durable
    BY <1>1 DEF Arrive
  <2>3. r \in Batches => pc = "request"
    OBVIOUS
  <2> HIDE DEF pc
  <2> QED
    BY <1>b, <1>c, <2>1, <2>2, <2>3, QuietMove DEF InTransaction, Over
<1>2. ASSUME NEW r \in Requests, NEW pc \in {"write", "fail", "hung"}, req[r].pc \in InTransaction,
             Moves(r, pc, req[r].ops, req[r].step, req[r].answer),
             UNCHANGED <<open, pending, durable>>
      PROVE  BatchInv'
  <2>1. r \in Batches => \A i \in 1..(req[r].step - 1) : <<r, i>> \in pending
    BY <1>2 DEF BatchInv, Written
  <2>2. pc \in InTransaction /\ req[r].pc \notin Over /\ pc # "committed"
    BY <1>2 DEF InTransaction, Over
  <2> QED
    BY <1>b, <1>c, <1>2, <2>1, <2>2, QuietMove
<1>3. ASSUME NEW r \in Requests, Find(r) PROVE BatchInv'
  <2>1. PICK pc \in {"write", "fail"} : Moves(r, pc, req[r].ops, req[r].step, req[r].answer)
    BY <1>a, <1>3, FindMoves
  <2> QED
    BY <1>2, <1>3, <2>1 DEF Find, InTransaction
<1>4. ASSUME NEW r \in Requests, HookThrows(r) \/ HookHangs(r) PROVE BatchInv'
  <2>1. PICK pc \in {"fail", "hung"} : Goto(r, pc)
    BY <1>4 DEF HookThrows, HookHangs
  <2>2. Moves(r, pc, req[r].ops, req[r].step, req[r].answer)
    BY <1>a, <2>1, GotoMoves DEF Pcs
  <2> QED
    BY <1>2, <1>4, <2>2 DEF HookThrows, HookHangs, InTransaction
<1>5. ASSUME NEW b \in Batches, CommitFails(b) PROVE BatchInv'
  <2>1. Moves(b, "fail", req[b].ops, req[b].step, req[b].answer)
    BY <1>a, <1>5, GotoMoves DEF CommitFails, Pcs
  <2> QED
    BY <1>a, <1>2, <1>5, <2>1 DEF CommitFails, InTransaction
<1>6. ASSUME NEW r \in Requests, After(r) PROVE BatchInv'
  <2>1. req[r].pc = "after" /\ open' = open /\ pending' = pending /\ durable' = durable
    BY <1>6 DEF After
  <2>2. r \in Batches => /\ \A i \in 1..(req[r].step - 1) : <<r, i>> \in pending
                         /\ <<r, req[r].step>> \in pending
    BY <2>1 DEF BatchInv, Written, InTransaction
  <2>3. req[r].ops \in Seq(Op) /\ req[r].step \in 1..Len(req[r].ops)
    BY <1>a, <2>1, BatchAssumption DEF Placed
  <2>4. CASE /\ req[r].step < Len(req[r].ops)
             /\ Moves(r, "find", req[r].ops, req[r].step + 1, req[r].answer)
    <3> DEFINE n == req[r].step + 1
    <3>1. \A i \in 1..(n - 1) : i \in 1..(req[r].step - 1) \/ i = req[r].step
      BY <2>3
    <3>2. "find" \in InTransaction /\ req[r].pc \in InTransaction /\ req[r].pc \notin Over
      BY <2>1 DEF InTransaction, Over
    <3>3. "find" \notin {"after", "commit"} /\ "find" # "commit" /\ "find" # "committed"
      OBVIOUS
    <3>4. Moves(r, "find", req[r].ops, n, req[r].answer)
      BY <2>4
    <3> HIDE DEF n
    <3>5. r \in Batches => \A i \in 1..(n - 1) : <<r, i>> \in pending
      BY <2>2, <3>1
    <3> QED
      BY <1>b, <1>c, <2>1, <3>2, <3>3, <3>4, <3>5, QuietMove
  <2>5. CASE /\ ~(req[r].step < Len(req[r].ops)) /\ r \in Batches
             /\ Moves(r, "commit", req[r].ops, req[r].step, req[r].answer)
    <3>1. req[r].step = Len(req[r].ops)
      BY <2>3, <2>5
    <3> QED
      BY <1>b, <1>c, <2>1, <2>2, <2>5, <3>1, QuietMove DEF InTransaction, Over
  <2>6. CASE r \notin Batches /\ Moves(r, "done", req[r].ops, req[r].step, Answered(r, "ok"))
    BY <1>b, <2>1, <2>6, QuietMove
  <2> QED
    BY <1>a, <1>6, <2>4, <2>5, <2>6, AfterMoves
<1>7. ASSUME NEW b \in Batches, Timeout(b) PROVE BatchInv'
  <2>1. Moves(b, req[b].pc, req[b].ops, req[b].step, "failed")
    BY <1>a, <1>7, TimeoutMoves
  <2>2. req[b].pc \notin Over /\ open' = open /\ pending' = pending /\ durable' = durable
    BY <1>7 DEF Timeout, Over
  <2>3. Written(b)
    BY DEF BatchInv
  <2> QED
    BY <1>a, <1>b, <2>1, <2>2, <2>3, QuietMove DEF Written, Over
<1>8. ASSUME NEW b \in Batches, Begin(b) PROVE BatchInv'
  <2>1. CASE open = NoBatch
    BY <1>b, <1>8, <2>1, BeginInv
  <2>2. CASE open # NoBatch
    <3>1. End(b, "failed") /\ req[b].pc = "begin"
      BY <1>8, <2>2 DEF Begin
    <3>2. Moves(b, "done", req[b].ops, req[b].step, Answered(b, "failed"))
      BY <1>a, <3>1, EndMoves
    <3>3. Answered(b, "failed") # "ok"
      BY <1>c, <3>1 DEF Answered, Over
    <3>4. open' = open /\ pending' = pending /\ durable' = durable
      BY <1>8, <2>2 DEF Begin
    <3> QED
      BY <1>a, <1>b, <3>1, <3>2, <3>3, <3>4, QuietMove DEF InTransaction, Over
  <2> QED
    BY <2>1, <2>2
<1>9. ASSUME NEW r \in Requests, Rollback(r) PROVE BatchInv'
  <2>1. End(r, "failed") /\ req[r].pc = "fail" /\ durable' = durable
    BY <1>9 DEF Rollback
  <2>2. Moves(r, "done", req[r].ops, req[r].step, Answered(r, "failed"))
    BY <1>a, <2>1, EndMoves
  <2>3. CASE r \notin Batches
    <3>1. open' = open /\ pending' = pending
      BY <1>9, <2>3 DEF Rollback
    <3> QED
      BY <1>b, <2>1, <2>2, <2>3, <3>1, QuietMove
  <2>4. CASE r \in Batches
    <3>1. open = r
      BY <2>1, <2>4 DEF BatchInv, OneOpen, InTransaction
    <3>2. Answered(r, "failed") # "ok"
      BY <1>c, <2>1, <2>4 DEF Answered, Over
    <3>3. open' = NoBatch /\ pending' = {}
      BY <1>9, <2>4 DEF Rollback
    <3>4. ASSUME NEW b \in Batches
          PROVE  /\ req'[b].pc \notin InTransaction /\ req'[b].ops = req[b].ops
                 /\ req'[b] = req[b] \/ req'[b].pc = "done"
                 /\ req'[b].answer = "ok" => req[b].answer = "ok"
      <4>1. CASE b = r
        BY <2>2, <3>2, <4>1 DEF Moves, InTransaction
      <4>2. CASE b # r
        BY <1>a, <2>2, <3>1, <4>2 DEF BatchInv, OneOpen, Moves
      <4> QED
        BY <4>1, <4>2
    <3> QED
      BY <1>b, <2>1, <3>3, <3>4, NothingOpen
  <2> QED
    BY <2>3, <2>4
<1>10. CASE Restart
  <2>1. Restarted
    BY <1>a, <1>10, RestartMoves
  <2>2. open' = NoBatch /\ pending' = {} /\ durable' = durable
    BY <1>10 DEF Restart
  <2>3. ASSUME NEW b \in Batches
        PROVE  /\ req'[b].pc \notin InTransaction /\ req'[b].ops = req[b].ops
               /\ req'[b] = req[b] \/ req'[b].pc = "done"
               /\ req'[b].answer = "ok" => req[b].answer = "ok"
    BY <1>a, <1>10, <2>1 DEF Restart, Restarted, InTransaction
  <2> QED
    BY <1>b, <2>2, <2>3, NothingOpen
<1>11. CASE UNCHANGED batchVars
  BY <1>11, <1>b DEF batchVars, BatchInv, OneOpen, OwnWrites, Written, Outcome, Absent, Present
<1>12. ASSUME NEW r \in Requests, Commit(r) PROVE BatchInv'
  BY <1>b, <1>12, CommitInv DEF Commit
<1>13. ASSUME NEW r \in Requests, Write(r) PROVE BatchInv'
  BY <1>b, <1>13, WriteInv
<1>14. ASSUME NEW b \in Batches, BatchRequest(b) PROVE BatchInv'
  <2>1. /\ req[b].pc = "request" /\ (Goto(b, "begin") \/ End(b, "failed"))
        /\ open' = open /\ pending' = pending /\ durable' = durable
    BY <1>14 DEF BatchRequest
  <2>2. req[b].answer # "ok" /\ Answered(b, "failed") # "ok"
    BY <1>c, <2>1 DEF Answered, Over
  <2>3. \/ Moves(b, "begin", req[b].ops, req[b].step, req[b].answer)
        \/ Moves(b, "done", req[b].ops, req[b].step, Answered(b, "failed"))
    BY <1>a, <2>1, GotoMoves, EndMoves DEF Pcs
  <2> QED
    BY <1>a, <1>b, <2>1, <2>2, <2>3, QuietMove DEF InTransaction, Over
<1>15. ASSUME NEW r \in Requests, Respond(r) PROVE BatchInv'
  BY <1>b, <1>15, RespondInv DEF Respond
<1> QED
  BY <1>1, <1>3, <1>4, <1>5, <1>6, <1>7, <1>8, <1>9, <1>10, <1>11, <1>12, <1>13, <1>14, <1>15
     DEF BatchNext, Proceed

LEMMA BatchInvariant == BatchSpec => []BatchInv
<1>1. BatchInit => BatchInv
  <2> SUFFICES ASSUME BatchInit PROVE BatchInv
    OBVIOUS
  <2>1. BatchTypeOK /\ Placed
    BY InitPlaced
  <2>2. OneOpen
    BY BatchAssumption DEF BatchInit, OneOpen, InTransaction, Requests
  <2>3. OwnWrites
    BY DEF BatchInit, OwnWrites
  <2>4. \A b \in Batches : Written(b) /\ Outcome(b)
    BY DEF BatchInit, Written, Outcome, Absent, InTransaction, Requests
  <2> QED
    BY <2>1, <2>2, <2>3, <2>4 DEF BatchInv
<1>2. BatchInv /\ [BatchNext]_batchVars => BatchInv'
  BY BatchInvStep
<1> QED
  BY <1>1, <1>2, PTL DEF BatchSpec

(* Of every batch all writes reach the file or none, and all when it was    *)
(* answered with its results, for any number of batches and other requests  *)
(* on the connection, any sequences of writes, and crashes, failed commits  *)
(* and hooks that hang at any place.                                        *)
THEOREM BatchesAreAtomic == BatchSpec => []AllOrNothing
BY BatchInvariant, OutcomeSuffices, PTL

-----------------------------------------------------------------------------
(* Batches implement AtomicBatch: COMMIT is Land, the answer after it is    *)
(* Confirm, Arrive of a batch is Ask, whatever answers a failure first is   *)
(* Refuse, and the rest stutters.                                           *)
Unasked == \A b \in Batches : req[b].pc = "idle" => req[b].ops = <<>>

LEMMA UnaskedStep ==
  ASSUME BatchTypeOK, Unasked, [BatchNext]_batchVars
  PROVE  Unasked'
<1>a. Batches \subseteq Requests
  BY DEF Requests
<1>1. ASSUME NEW r \in Requests, NEW pc, NEW ops, NEW step, NEW answer,
             Moves(r, pc, ops, step, answer), pc = "idle" => ops = req[r].ops /\ req[r].pc = "idle"
      PROVE  Unasked'
  BY <1>a, <1>1 DEF Unasked, Moves
<1>2. ASSUME NEW r \in Requests, Arrive(r) \/ Find(r) \/ Write(r) \/ After(r) PROVE Unasked'
  <2>1. CASE Arrive(r)
    BY <1>1, <2>1, ArriveMoves
  <2>2. CASE Find(r)
    BY <1>1, <2>2, FindMoves
  <2>3. CASE Write(r)
    BY <1>1, <2>3, WriteMoves
  <2>4. CASE After(r)
    BY <1>1, <2>4, AfterMoves
  <2> QED
    BY <1>2, <2>1, <2>2, <2>3, <2>4
<1>3. ASSUME NEW r \in Requests, NEW pc \in Pcs \ {"idle"}, Goto(r, pc) PROVE Unasked'
  BY <1>1, <1>3, GotoMoves
<1>4. ASSUME NEW r \in Requests, NEW a \in {"ok", "failed"}, End(r, a) PROVE Unasked'
  BY <1>1, <1>4, EndMoves
<1>5. ASSUME NEW b \in Batches, Timeout(b) PROVE Unasked'
  BY <1>a, <1>1, <1>5, TimeoutMoves DEF Timeout
<1>6. CASE Restart
  BY <1>a, <1>6, RestartMoves DEF Restarted, Unasked
<1>7. CASE UNCHANGED batchVars
  BY <1>7 DEF batchVars, Unasked
<1>8. ASSUME NEW r \in Requests,
             \/ HookThrows(r) \/ HookHangs(r) \/ Rollback(r) \/ Commit(r)
             \/ Respond(r) \/ CommitFails(r) \/ Begin(r) \/ BatchRequest(r)
      PROVE  Unasked'
  <2>1. \/ \E pc \in Pcs \ {"idle"} : Goto(r, pc)
        \/ \E a \in {"ok", "failed"} : End(r, a)
    BY <1>8 DEF HookThrows, HookHangs, Rollback, Commit, Respond, CommitFails, Begin, BatchRequest, Pcs
  <2> QED
    BY <1>3, <1>4, <2>1
<1> QED
  BY <1>a, <1>2, <1>5, <1>6, <1>7, <1>8 DEF BatchNext, Proceed

(* What the file holds of batches, and the sizes and answers, stay. *)
LEMMA AtomicStutters ==
  ASSUME \A b \in Batches : req'[b].ops = req[b].ops /\ req'[b].answer = req[b].answer,
         durable' = durable \/ \E w : (w[1] \notin Batches /\ durable' = durable \cup {w})
  PROVE  UNCHANGED Atomic!vars
<1>1. {w \in durable' : w[1] \in Batches} = {w \in durable : w[1] \in Batches}
  OBVIOUS
<1>2. [b \in Batches |-> Len(req'[b].ops)] = [b \in Batches |-> Len(req[b].ops)]
  OBVIOUS
<1>3. [b \in Batches |-> req'[b].answer] = [b \in Batches |-> req[b].answer]
  OBVIOUS
<1> QED
  BY <1>1, <1>2, <1>3 DEF Atomic!vars

(* A request moves, and its answer and its writes stay. *)
LEMMA QuietStutters ==
  ASSUME NEW r \in Requests, NEW pc, NEW ops, NEW step, NEW answer,
         Moves(r, pc, ops, step, answer),
         r \in Batches => ops = req[r].ops /\ answer = req[r].answer,
         durable' = durable
  PROVE  UNCHANGED Atomic!vars
<1>1. Batches \subseteq Requests
  BY DEF Requests
<1>2. \A b \in Batches : req'[b].ops = req[b].ops /\ req'[b].answer = req[b].answer
  BY <1>1 DEF Moves
<1> QED
  BY <1>2, AtomicStutters

(* Of a batch that has arrived and is not over the file holds nothing. *)
LEMMA UnderWay ==
  ASSUME BatchInv, NEW b \in Batches, req[b].pc \notin {"idle"} \cup Over
  PROVE  /\ Len(req[b].ops) \in Nat \ {0}
         /\ req[b].answer # "ok"
         /\ {w \in durable : w[1] \in Batches} \cap ({b} \X (1..Len(req[b].ops))) = {}
<1>1. req[b].ops \in Programs
  BY DEF BatchInv, Placed, Requests
<1>2. req[b].ops \in Seq(Op) /\ req[b].ops # <<>>
  BY <1>1, BatchAssumption
<1>3. Len(req[b].ops) \in Nat \ {0}
  BY <1>2
<1>4. Absent(b) /\ req[b].answer # "ok"
  BY DEF BatchInv, Outcome
<1>5. {w \in durable : w[1] \in Batches} \cap ({b} \X (1..Len(req[b].ops))) = {}
  BY <1>3, <1>4 DEF Absent
<1> QED
  BY <1>3, <1>4, <1>5

LEMMA ArriveAsks ==
  ASSUME BatchTypeOK, Unasked, NEW r \in Requests, Arrive(r)
  PROVE  [Atomic!Next]_(Atomic!vars)
<1>a. Batches \subseteq Requests
  BY DEF Requests
<1>1. PICK ops \in Programs :
        Moves(r, IF r \in Batches THEN "request" ELSE "find", ops, req[r].step, req[r].answer)
  BY ArriveMoves
<1>2. durable' = durable /\ req[r].pc = "idle"
  BY DEF Arrive
<1>3. CASE r \notin Batches
  BY <1>1, <1>2, <1>3, QuietStutters
<1>4. CASE r \in Batches
  <2>1. Len(req[r].ops) = 0
    <3>1. req[r].ops = <<>>
      BY <1>2, <1>4 DEF Unasked
    <3> QED
      BY <3>1
  <2>2. /\ req'[r].ops = ops /\ req'[r].answer = req[r].answer
        /\ \A b \in Batches : b # r => req'[b] = req[b]
    BY <1>a, <1>1 DEF Moves
  <2> DEFINE size == [b \in Batches |-> Len(req[b].ops)]
  <2>3. size[r] = 0
    BY <1>4, <2>1
  <2>4. [b \in Batches |-> Len(req'[b].ops)] = [size EXCEPT ![r] = Len(ops)]
    BY <1>4, <2>2
  <2>5. Len(ops) \in {Len(o) : o \in Programs}
    BY <1>1
  <2>6. [b \in Batches |-> req'[b].answer] = [b \in Batches |-> req[b].answer]
    BY <2>2
  <2>7. {w \in durable' : w[1] \in Batches} = {w \in durable : w[1] \in Batches}
    BY <1>2
  <2>8. Atomic!Ask(r)
    BY <2>3, <2>4, <2>5, <2>6, <2>7 DEF Atomic!Ask
  <2> QED
    BY <1>4, <2>8 DEF Atomic!Next
<1> QED
  BY <1>3, <1>4

(* An answer that the batch has failed, unless it has been answered. *)
LEMMA FailureRefuses ==
  ASSUME BatchInv, NEW b \in Batches, req[b].pc \notin {"idle"} \cup Over, durable' = durable,
         NEW pc, NEW step, Moves(b, pc, req[b].ops, step, Answered(b, "failed"))
  PROVE  [Atomic!Next]_(Atomic!vars)
<1>a. Batches \subseteq Requests
  BY DEF Requests
<1>1. CASE req[b].answer # "none"
  BY <1>a, <1>1, QuietStutters DEF Answered
<1>2. CASE req[b].answer = "none"
  <2> DEFINE answer == [c \in Batches |-> req[c].answer]
  <2>1. /\ req'[b].ops = req[b].ops /\ req'[b].answer = "failed"
        /\ \A c \in Batches : c # b => req'[c] = req[c]
    BY <1>a, <1>2 DEF Moves, Answered
  <2>2. [c \in Batches |-> Len(req[c].ops)][b] > 0
    BY UnderWay
  <2>3. answer[b] = "none"
    BY <1>2
  <2>4. [c \in Batches |-> req'[c].answer] = [answer EXCEPT ![b] = "failed"]
    BY <2>1
  <2>5. [c \in Batches |-> Len(req'[c].ops)] = [c \in Batches |-> Len(req[c].ops)]
    BY <2>1
  <2>6. {w \in durable' : w[1] \in Batches} = {w \in durable : w[1] \in Batches}
    OBVIOUS
  <2>7. {w \in durable : w[1] \in Batches} \cap Atomic!Part(b) = {}
    BY UnderWay DEF Atomic!Part
  <2>8. Atomic!Refuse(b)
    BY <2>2, <2>3, <2>4, <2>5, <2>6, <2>7 DEF Atomic!Refuse
  <2> QED
    BY <2>8 DEF Atomic!Next
<1> QED
  BY <1>1, <1>2

(* The open transaction of a batch at its COMMIT holds its writes, all of   *)
(* them, and those of no other batch.                                       *)
LEMMA CommitLands ==
  ASSUME BatchInv, NEW b \in Batches, Commit(b)
  PROVE  [Atomic!Next]_(Atomic!vars)
<1>a. b \in Requests /\ Batches \subseteq Requests /\ BatchTypeOK
  BY DEF Requests, BatchInv
<1>1. Moves(b, "committed", req[b].ops, req[b].step, req[b].answer)
  BY <1>a, GotoMoves DEF Commit, Pcs
<1>2. durable' = durable \cup pending /\ req[b].pc = "commit"
  BY DEF Commit
<1> DEFINE answer == [c \in Batches |-> req[c].answer]
           filed  == {w \in durable : w[1] \in Batches}
<1>3. /\ req'[b].ops = req[b].ops /\ req'[b].answer = req[b].answer
      /\ \A c \in Batches : c # b => req'[c] = req[c]
  BY <1>a, <1>1 DEF Moves
<1>4. Atomic!Part(b) = {b} \X (1..Len(req[b].ops))
  BY DEF Atomic!Part
<1>5. [c \in Batches |-> Len(req[c].ops)][b] > 0 /\ answer[b] # "ok" /\ filed \cap Atomic!Part(b) = {}
  BY <1>2, <1>4, UnderWay DEF Over
<1>6. [c \in Batches |-> req'[c].answer] = answer
  BY <1>3
<1>7. [c \in Batches |-> Len(req'[c].ops)] = [c \in Batches |-> Len(req[c].ops)]
  BY <1>3
<1>8. {w \in pending : w[1] \in Batches} = {b} \X (1..Len(req[b].ops))
  <2>1. open = b
    BY <1>2 DEF BatchInv, OneOpen, InTransaction
  <2>2. ASSUME NEW w \in pending, w[1] \in Batches PROVE w \in {b} \X (1..Len(req[b].ops))
    <3>1. w[1] = b /\ w[2] \in 1..Len(req[b].ops)
      BY <2>1, <2>2 DEF BatchInv, OwnWrites
    <3>2. w = <<w[1], w[2]>>
      BY <1>a DEF BatchTypeOK, Writes
    <3> QED
      BY <3>1, <3>2
  <2>3. ASSUME NEW i \in 1..Len(req[b].ops) PROVE <<b, i>> \in pending
    <3>1. /\ \A k \in 1..(req[b].step - 1) : <<b, k>> \in pending
          /\ <<b, req[b].step>> \in pending
          /\ req[b].step = Len(req[b].ops)
      BY <1>2 DEF BatchInv, Written, InTransaction
    <3>2. req[b].step \in Nat \ {0}
      BY <1>a, RequestType DEF ReqType
    <3>3. i \in 1..(req[b].step - 1) \/ i = req[b].step
      BY <3>1, <3>2
    <3> QED
      BY <3>1, <3>3
  <2> QED
    BY <2>2, <2>3
<1>9. {w \in durable' : w[1] \in Batches} = filed \cup Atomic!Part(b)
  BY <1>2, <1>4, <1>8
<1>10. Atomic!Land(b)
  BY <1>5, <1>6, <1>7, <1>9 DEF Atomic!Land
<1> QED
  BY <1>10 DEF Atomic!Next

(* Who is answered with the results finds them in the file. *)
LEMMA RespondConfirms ==
  ASSUME BatchInv, NEW b \in Batches, Respond(b)
  PROVE  [Atomic!Next]_(Atomic!vars)
<1>a. b \in Requests /\ Batches \subseteq Requests /\ BatchTypeOK
  BY DEF Requests, BatchInv
<1>1. Moves(b, "done", req[b].ops, req[b].step, Answered(b, "ok"))
  BY <1>a, EndMoves DEF Respond
<1>2. durable' = durable /\ req[b].pc = "committed"
  BY DEF Respond
<1>3. CASE req[b].answer # "none"
  BY <1>a, <1>1, <1>2, <1>3, QuietStutters DEF Answered
<1>4. CASE req[b].answer = "none"
  <2> DEFINE answer == [c \in Batches |-> req[c].answer]
             filed  == {w \in durable : w[1] \in Batches}
  <2>1. /\ req'[b].ops = req[b].ops /\ req'[b].answer = "ok"
        /\ \A c \in Batches : c # b => req'[c] = req[c]
    BY <1>a, <1>1, <1>4 DEF Moves, Answered
  <2>2. [c \in Batches |-> Len(req[c].ops)][b] > 0
    <3>1. req[b].ops \in Seq(Op) /\ req[b].ops # <<>>
      BY <1>a, <1>2, BatchAssumption DEF BatchInv, Placed
    <3> QED
      BY <3>1
  <2>3. Atomic!Part(b) \subseteq filed
    <3>1. Present(b)
      BY <1>2 DEF BatchInv, Outcome
    <3> QED
      BY <3>1 DEF Atomic!Part, Present
  <2>4. [c \in Batches |-> req'[c].answer] = [answer EXCEPT ![b] = "ok"]
    BY <2>1
  <2>5. [c \in Batches |-> Len(req'[c].ops)] = [c \in Batches |-> Len(req[c].ops)]
    BY <2>1
  <2>6. {w \in durable' : w[1] \in Batches} = filed
    BY <1>2
  <2>7. answer[b] = "none"
    BY <1>4
  <2>8. Atomic!Confirm(b)
    BY <2>2, <2>3, <2>4, <2>5, <2>6, <2>7 DEF Atomic!Confirm
  <2> QED
    BY <2>8 DEF Atomic!Next
<1> QED
  BY <1>3, <1>4

LEMMA BatchStepLands ==
  ASSUME BatchInv, Unasked, [BatchNext]_batchVars
  PROVE  [Atomic!Next]_(Atomic!vars)
<1>a. Batches \subseteq Requests /\ BatchTypeOK
  BY DEF Requests, BatchInv
<1>1. ASSUME NEW r \in Requests, NEW pc \in Pcs, Goto(r, pc), durable' = durable
      PROVE  UNCHANGED Atomic!vars
  BY <1>a, <1>1, GotoMoves, QuietStutters
<1>2. ASSUME NEW r \in Requests, Find(r) PROVE UNCHANGED Atomic!vars
  <2>1. PICK pc \in {"write", "fail"} : Moves(r, pc, req[r].ops, req[r].step, req[r].answer)
    BY <1>a, <1>2, FindMoves
  <2>2. durable' = durable
    BY <1>2 DEF Find
  <2> QED
    BY <2>1, <2>2, QuietStutters
<1>3. ASSUME NEW r \in Requests, Write(r) PROVE UNCHANGED Atomic!vars
  <2>1. \E pc : Moves(r, pc, req[r].ops, req[r].step, req[r].answer)
    BY <1>a, <1>3, WriteMoves
  <2>2. \A b \in Batches : req'[b].ops = req[b].ops /\ req'[b].answer = req[b].answer
    BY <1>a, <2>1 DEF Moves
  <2>3. \/ durable' = durable
        \/ open = NoBatch /\ durable' = durable \cup {<<r, req[r].step>>}
    BY <1>a, <1>3, WriteMoves
  <2>4. open = NoBatch => r \notin Batches
    BY <1>3, BatchAssumption DEF Write, BatchInv, OneOpen, InTransaction
  <2> DEFINE w == <<r, req[r].step>>
  <2>5. w[1] = r
    OBVIOUS
  <2> HIDE DEF w
  <2>6. durable' = durable \/ (open = NoBatch /\ durable' = durable \cup {w})
    BY <2>3 DEF w
  <2>7. CASE durable' = durable
    BY <2>2, <2>7, AtomicStutters
  <2>8. CASE open = NoBatch /\ durable' = durable \cup {w}
    <3>1. w[1] \notin Batches
      BY <2>4, <2>5, <2>8
    <3> QED
      BY <2>2, <2>8, <3>1, AtomicStutters
  <2> QED
    BY <2>6, <2>7, <2>8
<1>4. ASSUME NEW r \in Requests, After(r) PROVE UNCHANGED Atomic!vars
  <2>1. durable' = durable
    BY <1>4 DEF After
  <2>2. PICK pc, step, answer :
          Moves(r, pc, req[r].ops, step, answer) /\ (r \in Batches => answer = req[r].answer)
    BY <1>a, <1>4, AfterMoves
  <2> QED
    BY <2>1, <2>2, QuietStutters
<1>5. ASSUME NEW r \in Requests, HookThrows(r) \/ HookHangs(r) PROVE UNCHANGED Atomic!vars
  BY <1>1, <1>5 DEF HookThrows, HookHangs, Pcs
<1>6. ASSUME NEW b \in Batches, CommitFails(b) PROVE UNCHANGED Atomic!vars
  BY <1>a, <1>1, <1>6 DEF CommitFails, Pcs
<1>7. ASSUME NEW b \in Batches, Begin(b) PROVE [Atomic!Next]_(Atomic!vars)
  <2>1. req[b].pc = "begin" /\ durable' = durable
    BY <1>7 DEF Begin
  <2>2. CASE Goto(b, "find")
    BY <1>a, <1>1, <2>1, <2>2 DEF Pcs
  <2>3. CASE End(b, "failed")
    BY <1>a, <2>1, <2>3, EndMoves, FailureRefuses DEF Over
  <2> QED
    BY <1>7, <2>2, <2>3 DEF Begin
<1>8. ASSUME NEW r \in Requests, Rollback(r) PROVE [Atomic!Next]_(Atomic!vars)
  <2>1. req[r].pc = "fail" /\ durable' = durable
        /\ Moves(r, "done", req[r].ops, req[r].step, Answered(r, "failed"))
    BY <1>a, <1>8, EndMoves DEF Rollback
  <2> QED
    BY <2>1, QuietStutters, FailureRefuses DEF Over
<1>9. ASSUME NEW b \in Batches, Timeout(b) PROVE [Atomic!Next]_(Atomic!vars)
  <2>1. Moves(b, req[b].pc, req[b].ops, req[b].step, Answered(b, "failed"))
    BY <1>a, <1>9, TimeoutMoves DEF Timeout, Answered
  <2> QED
    BY <1>9, <2>1, FailureRefuses DEF Timeout, Over
<1>10. CASE Restart
  BY <1>a, <1>10, RestartMoves, AtomicStutters DEF Restarted, Restart
<1>11. CASE UNCHANGED batchVars
  BY <1>11, AtomicStutters DEF batchVars
<1>12. ASSUME NEW r \in Requests, Commit(r) PROVE [Atomic!Next]_(Atomic!vars)
  BY <1>12, CommitLands DEF Commit
<1>13. ASSUME NEW r \in Requests, Respond(r) PROVE [Atomic!Next]_(Atomic!vars)
  BY <1>13, RespondConfirms DEF Respond
<1>14. ASSUME NEW b \in Batches, BatchRequest(b) PROVE [Atomic!Next]_(Atomic!vars)
  <2>1. req[b].pc = "request" /\ durable' = durable
    BY <1>14 DEF BatchRequest
  <2>2. CASE Goto(b, "begin")
    BY <1>a, <1>1, <2>1, <2>2 DEF Pcs
  <2>3. CASE End(b, "failed")
    BY <1>a, <2>1, <2>3, EndMoves, FailureRefuses DEF Over
  <2> QED
    BY <1>14, <2>2, <2>3 DEF BatchRequest
<1> QED
  BY <1>a, <1>2, <1>3, <1>4, <1>5, <1>6, <1>7, <1>8, <1>9, <1>10, <1>11, <1>12, <1>13, <1>14,
     ArriveAsks DEF BatchNext, Proceed

LEMMA AtomicInit == BatchInit => Atomic!Init
<1> SUFFICES ASSUME BatchInit PROVE Atomic!Init
  OBVIOUS
<1>1. \A b \in Batches : req[b].ops = <<>> /\ req[b].answer = "none"
  BY DEF BatchInit, Requests
<1>2. \A b \in Batches : Len(req[b].ops) = 0
  BY <1>1
<1>3. {w \in durable : w[1] \in Batches} = {}
  BY DEF BatchInit
<1> QED
  BY <1>1, <1>2, <1>3 DEF Atomic!Init

(* The batch API implements AtomicBatch, for any number of batches and      *)
(* single writes on the connection, any programs, and any timeouts,         *)
(* crashes, failed commits and hooks that hang: every step of it asks,      *)
(* lands, confirms, refuses or is not seen, and a crash between COMMIT and  *)
(* the answer leaves a batch that has landed and is never answered.         *)
THEOREM BatchesRefine == BatchSpec => BatchesLand
<1>1. BatchInit => Unasked
  BY DEF BatchInit, Unasked, Requests
<1>2. BatchTypeOK /\ Unasked /\ [BatchNext]_batchVars => Unasked'
  BY UnaskedStep
<1>3. BatchSpec => []Unasked
  BY <1>1, <1>2, BatchTypeCorrect, PTL DEF BatchSpec
<1>4. BatchInv /\ Unasked /\ [BatchNext]_batchVars => [Atomic!Next]_(Atomic!vars)
  BY BatchStepLands
<1> QED
  BY <1>3, <1>4, AtomicInit, BatchInvariant, PTL DEF BatchSpec, BatchesLand, Atomic!Spec

-----------------------------------------------------------------------------
(* The timeout is the only way a batch that failed can leave something.     *)

(* The batches of which none takes as long as its timeout. *)
PunctualSpec == BatchInit /\ [][BatchNext /\ \A b \in Batches : ~Timeout(b)]_batchVars

Fails(b) == req[b].answer = "failed" => req[b].pc = "done" /\ Absent(b)

LEMMA FailsMove ==
  ASSUME BatchInv, \A b \in Batches : Fails(b), durable' = durable,
         NEW r \in Requests, NEW pc, NEW ops, NEW step, NEW answer,
         Moves(r, pc, ops, step, answer),
         r \in Batches => req[r].pc \notin Over /\ (answer = req[r].answer \/ pc = "done")
  PROVE  \A b \in Batches : Fails(b)'
<1>a. Batches \subseteq Requests
  BY DEF Requests
<1>1. ASSUME NEW b \in Batches PROVE Fails(b)'
  <2>1. CASE b = r
    <3>1. Absent(b)
      BY <2>1 DEF BatchInv, Outcome, Over
    <3>2. req'[b].pc = pc /\ req'[b].answer = answer
      BY <2>1 DEF Moves
    <3>3. answer = "failed" => pc = "done"
      <4>1. req[b].pc # "done" /\ (answer = req[b].answer \/ pc = "done")
        BY <2>1 DEF Over
      <4> QED
        BY <4>1 DEF Fails
    <3>4. Absent(b)'
      BY <3>1 DEF Absent
    <3> QED
      BY <3>2, <3>3, <3>4 DEF Fails
  <2>2. CASE b # r
    BY <1>a, <2>2 DEF Fails, Absent, Moves
  <2> QED
    BY <2>1, <2>2
<1> QED
  BY <1>1

LEMMA FailsStep ==
  ASSUME BatchInv, \A b \in Batches : Fails(b),
         [BatchNext /\ \A b \in Batches : ~Timeout(b)]_batchVars
  PROVE  \A b \in Batches : Fails(b)'
<1> DEFINE Goal == \A b \in Batches : Fails(b)'
<1>a. Batches \subseteq Requests /\ BatchTypeOK
  BY DEF Requests, BatchInv
<1>1. ASSUME NEW r \in Requests, NEW pc \in Pcs, Goto(r, pc), durable' = durable, req[r].pc \notin Over
      PROVE  Goal
  BY <1>a, <1>1, GotoMoves, FailsMove
<1>2. ASSUME NEW r \in Requests, NEW a \in {"ok", "failed"}, End(r, a), durable' = durable,
             req[r].pc \notin Over
      PROVE  Goal
  BY <1>a, <1>2, EndMoves, FailsMove
<1>3. ASSUME NEW r \in Requests, Arrive(r) PROVE Goal
  <2>1. durable' = durable /\ req[r].pc \notin Over
    BY <1>3 DEF Arrive, Over
  <2>2. PICK ops \in Programs :
          Moves(r, IF r \in Batches THEN "request" ELSE "find", ops, req[r].step, req[r].answer)
    BY <1>a, <1>3, ArriveMoves
  <2> QED
    BY <2>1, <2>2, FailsMove
<1>4. ASSUME NEW r \in Requests, Find(r) PROVE Goal
  <2>1. durable' = durable /\ req[r].pc \notin Over
    BY <1>4 DEF Find, Over
  <2>2. PICK pc \in {"write", "fail"} : Moves(r, pc, req[r].ops, req[r].step, req[r].answer)
    BY <1>a, <1>4, FindMoves
  <2> QED
    BY <2>1, <2>2, FailsMove
<1>5. ASSUME NEW r \in Requests, After(r) PROVE Goal
  <2>1. durable' = durable /\ req[r].pc \notin Over
    BY <1>5 DEF After, Over
  <2>2. PICK pc, step, answer :
          Moves(r, pc, req[r].ops, step, answer) /\ (r \in Batches => answer = req[r].answer)
    BY <1>a, <1>5, AfterMoves
  <2> QED
    BY <2>1, <2>2, FailsMove
<1>6. ASSUME NEW r \in Requests, Write(r) PROVE Goal
  <2>1. PICK pc : Moves(r, pc, req[r].ops, req[r].step, req[r].answer)
    BY <1>a, <1>6, WriteMoves
  <2>2. req[r].pc = "write"
    BY <1>6 DEF Write
  <2>3. CASE durable' = durable
    BY <2>1, <2>2, <2>3, FailsMove DEF Over
  <2>4. CASE open = NoBatch /\ durable' = durable \cup {<<r, req[r].step>>}
    <3>1. r \notin Batches
      BY <2>2, <2>4, BatchAssumption DEF BatchInv, OneOpen, InTransaction
    <3>2. ASSUME NEW b \in Batches PROVE Fails(b)'
      <4>1. req'[b] = req[b]
        BY <1>a, <2>1, <3>1 DEF Moves
      <4>2. \A i \in Nat : <<b, i>> \in durable' <=> <<b, i>> \in durable
        BY <2>4, <3>1
      <4> QED
        BY <4>1, <4>2 DEF Fails, Absent
    <3> QED
      BY <3>2
  <2> QED
    BY <1>a, <1>6, <2>3, <2>4, WriteMoves
<1>7. ASSUME NEW r \in Requests, HookThrows(r) \/ HookHangs(r) PROVE Goal
  <2>1. PICK pc \in {"fail", "hung"} : Goto(r, pc)
    BY <1>7 DEF HookThrows, HookHangs
  <2>2. durable' = durable /\ req[r].pc \notin Over
    BY <1>7 DEF HookThrows, HookHangs, Over
  <2> QED
    BY <1>1, <2>1, <2>2 DEF Pcs
<1>8. ASSUME NEW b \in Batches, CommitFails(b) PROVE Goal
  BY <1>a, <1>1, <1>8 DEF CommitFails, Pcs, Over
<1>9. ASSUME NEW b \in Batches, Begin(b) PROVE Goal
  <2>1. durable' = durable /\ req[b].pc = "begin"
    BY <1>9 DEF Begin
  <2>2. CASE Goto(b, "find")
    BY <1>a, <1>1, <2>1, <2>2 DEF Pcs, Over
  <2>3. CASE End(b, "failed")
    BY <1>a, <1>2, <2>1, <2>3 DEF Over
  <2> QED
    BY <1>9, <2>2, <2>3 DEF Begin
<1>10. ASSUME NEW r \in Requests, Rollback(r) PROVE Goal
  BY <1>2, <1>10 DEF Rollback, Over
<1>11. ASSUME NEW b \in Batches, Commit(b) PROVE Goal
  <2>1. req[b].pc = "commit" /\ open = b
    BY <1>11 DEF Commit, BatchInv, OneOpen, InTransaction
  <2>2. Moves(b, "committed", req[b].ops, req[b].step, req[b].answer) /\ durable' = durable \cup pending
    BY <1>a, <1>11, GotoMoves DEF Commit, Pcs
  <2>3. ASSUME NEW c \in Batches PROVE Fails(c)'
    <3>1. CASE c = b
      <4>1. req[b].answer # "failed"
        BY <2>1 DEF Fails
      <4> QED
        BY <2>2, <3>1, <4>1 DEF Fails, Moves
    <3>2. CASE c # b
      <4>1. \A i \in Nat : <<c, i>> \notin pending
        BY <2>1, <3>2 DEF BatchInv, OwnWrites
      <4>2. req'[c] = req[c]
        BY <1>a, <2>2, <3>2 DEF Moves
      <4> QED
        BY <2>2, <4>1, <4>2 DEF Fails, Absent
    <3> QED
      BY <3>1, <3>2
  <2> QED
    BY <2>3
<1>12. CASE Restart
  <2>1. Restarted /\ durable' = durable
    BY <1>a, <1>12, RestartMoves DEF Restart
  <2> QED
    BY <1>a, <2>1 DEF Restarted, Fails, Absent
<1>13. CASE UNCHANGED batchVars
  BY <1>13 DEF batchVars, Fails, Absent
<1>14. ASSUME NEW r \in Requests, Commit(r) PROVE Goal
  BY <1>11, <1>14 DEF Commit
<1>17. ASSUME NEW b \in Batches, BatchRequest(b) PROVE Goal
  <2>1. durable' = durable /\ req[b].pc \notin Over /\ (Goto(b, "begin") \/ End(b, "failed"))
    BY <1>17 DEF BatchRequest, Over
  <2> QED
    BY <1>a, <1>1, <1>2, <2>1 DEF Pcs
<1>18. ASSUME NEW r \in Requests, Respond(r) PROVE Goal
  <2>1. r \in Batches /\ req[r].pc = "committed" /\ durable' = durable /\ End(r, "ok")
    BY <1>18 DEF Respond
  <2>2. Moves(r, "done", req[r].ops, req[r].step, Answered(r, "ok"))
    BY <1>a, <2>1, EndMoves
  <2>3. req[r].answer # "failed"
    BY <2>1 DEF Fails
  <2>4. ASSUME NEW b \in Batches PROVE Fails(b)'
    <3>1. CASE b = r
      BY <2>2, <2>3, <3>1 DEF Fails, Moves, Answered
    <3>2. CASE b # r
      BY <1>a, <2>1, <2>2, <3>2 DEF Fails, Absent, Moves
    <3> QED
      BY <3>1, <3>2
  <2> QED
    BY <2>4
<1>15. ASSUME NEW r \in Requests, Proceed(r) PROVE Goal
  BY <1>4, <1>5, <1>6, <1>7, <1>10, <1>14, <1>15, <1>18 DEF Proceed
<1>16. CASE BatchNext /\ \A b \in Batches : ~Timeout(b)
  BY <1>3, <1>7, <1>8, <1>9, <1>12, <1>15, <1>16, <1>17 DEF BatchNext
<1> QED
  BY <1>13, <1>16

(* As long as no batch takes as long as its timeout, a batch that is        *)
(* answered with a failure has no effect: what the run port_timeout finds   *)
(* has no other cause, be it a refused BEGIN, a failed write or hook, a     *)
(* failed COMMIT or a crash.                                                *)
THEOREM OnlyTimeoutsLeaveWrites == PunctualSpec => []FailedLeavesNothing
<1>1. PunctualSpec => []BatchInv
  <2>1. PunctualSpec => BatchSpec
    BY PTL DEF PunctualSpec, BatchSpec
  <2> QED
    BY <2>1, BatchInvariant
<1>2. BatchInit => \A b \in Batches : Fails(b)
  BY DEF BatchInit, Fails, Requests
<1>3. BatchInv /\ (\A b \in Batches : Fails(b)) /\ [BatchNext /\ \A b \in Batches : ~Timeout(b)]_batchVars
        => (\A b \in Batches : Fails(b))'
  BY FailsStep
<1>4. BatchInv /\ (\A b \in Batches : Fails(b)) => FailedLeavesNothing
  <2> SUFFICES ASSUME BatchInv, NEW b \in Batches, Absent(b) PROVE Landed(b) = {}
    BY DEF FailedLeavesNothing, Fails
  <2>1. req[b].ops \in Seq(Op) \cup {<<>>}
    BY BatchAssumption DEF BatchInv, BatchTypeOK, Requests
  <2>2. Len(req[b].ops) \in Nat
    BY <2>1
  <2> QED
    BY <2>2 DEF Landed, Absent
<1> QED
  BY <1>1, <1>2, <1>3, <1>4, PTL DEF PunctualSpec

-----------------------------------------------------------------------------
(* The session. *)

CallType == [pc : {"idle", "refreshing", "refused", "signing", "sent"}, of : Users \cup {NoUser}]

(* beforeSend refreshes the session of whom the store holds, or of nobody. *)
AutoIsUser == auto \in {user, NoUser}

(* A call that waits goes through somebody's refresh, and what is asked of  *)
(* the server for it is asked for that user.                                *)
Owned(c) ==
  /\ call[c].pc \in {"refreshing", "refused", "signing"} => call[c].of # NoUser
  /\ Awaits(refresh, c) => call[c].pc = "refreshing" /\ call[c].of = refresh.of
  /\ Awaits(signIn, c) => call[c].pc = "signing" /\ call[c].of = signIn.of

(* The load is first in the queue and nobody is signed in before it but by  *)
(* a save behind it; what was queued last is what the store holds.          *)
SavesInOrder ==
  /\ \A i \in 1..Len(queue) : queue[i] = Load => i = 1
  /\ \A i \in 1..Len(queue) :
       i = Len(queue) => queue[i] = user \/ (queue[i] = Load /\ user = NoUser)

AuthInv ==
  /\ AuthTypeOK /\ AutoIsUser /\ SavesInOrder /\ PersistsLatest
  /\ \A c \in Calls : Owned(c)

(* What is queued is never the load. *)
LEMMA SavesAreUsers ==
  ASSUME NEW u \in Users \cup {NoUser}
  PROVE  u # Load
BY AuthAssumption

(* save and clear keep the order. *)
LEMMA SaveStep ==
  ASSUME AuthInv, NEW u \in Users \cup {NoUser}, Save(u)
  PROVE  /\ user' = u /\ queue' \in Seq(Users \cup {NoUser, Load}) /\ queue' # <<>>
         /\ SavesInOrder'
<1>1. queue \in Seq(Users \cup {NoUser, Load}) /\ u # Load
  BY SavesAreUsers DEF AuthInv, AuthTypeOK
<1>2. queue' = Append(queue, u) /\ user' = u
  BY DEF Save
<1>3. queue' \in Seq(Users \cup {NoUser, Load}) /\ Len(queue') = Len(queue) + 1
  BY <1>1, <1>2
<1>4. queue'[Len(queue) + 1] = u /\ \A i \in 1..Len(queue) : queue'[i] = queue[i]
  BY <1>1, <1>2
<1>5. Len(queue) \in Nat
  BY <1>1
<1>6. \A i \in 1..Len(queue') : i \in 1..Len(queue) \/ i = Len(queue) + 1
  BY <1>3, <1>5
<1>7. \A i \in 1..Len(queue') : queue'[i] = Load => i = 1
  BY <1>1, <1>4, <1>6 DEF AuthInv, SavesInOrder
<1>8. \A i \in 1..Len(queue') : i = Len(queue') => queue'[i] = u
  BY <1>3, <1>4
<1> QED
  BY <1>2, <1>3, <1>5, <1>7, <1>8 DEF SavesInOrder

(* A request to sign in of u, for a call that has become calls[by] or for   *)
(* the application: the calls stay owned.                                   *)
LEMMA RequestStep ==
  ASSUME AuthInv, NEW by \in Calls \cup {App}, NEW u \in Users, NEW register \in BOOLEAN,
         NEW calls \in [Calls -> CallType],
         Request(by, u, register, calls), refresh' = refresh,
         \A c \in Calls : c # by => calls[c] = call[c],
         by \in Calls => /\ calls[by].pc = "signing" /\ calls[by].of = u
                         /\ ~Awaits(refresh, by)
  PROVE  /\ call' \in [Calls -> CallType]
         /\ signIn' \in [by : Calls \cup {App}, of : Users, register : BOOLEAN]
         /\ \A c \in Calls : Owned(c)'
         /\ \A c \in Calls : call'[c].pc = "sent" => call[c].pc = "sent"
<1>1. signIn' = [by |-> by, of |-> u, register |-> register]
  BY DEF Request
<1>2. signIn' \in [by : Calls \cup {App}, of : Users, register : BOOLEAN] /\ signIn'.by = by /\ signIn'.of = u
  BY <1>1
<1>3. call' = [c \in Calls |-> IF by # c /\ Awaits(signIn, c) THEN Idle ELSE calls[c]]
  BY DEF Request
<1>4. Idle \in CallType /\ Idle.pc = "idle"
  BY DEF Idle, CallType
<1>5. call' \in [Calls -> CallType]
  BY <1>3, <1>4
<1>6. ASSUME NEW c \in Calls PROVE Owned(c)' /\ (call'[c].pc = "sent" => call[c].pc = "sent")
  <2>1. Owned(c)
    BY DEF AuthInv
  <2>2. Awaits(refresh', c) <=> Awaits(refresh, c)
    BY DEF Awaits
  <2>3. Awaits(signIn', c) => c = by
    BY <1>2 DEF Awaits
  <2>4. CASE by # c /\ Awaits(signIn, c)
    <3>1. call'[c] = Idle
      BY <1>3, <2>4
    <3>2. ~Awaits(refresh, c)
      BY <2>1, <2>4 DEF Owned
    <3> QED
      BY <1>4, <2>2, <2>3, <2>4, <3>1, <3>2 DEF Owned, Awaits
  <2>5. CASE by # c /\ ~Awaits(signIn, c)
    <3>1. call'[c] = call[c]
      BY <1>3, <2>5
    <3> QED
      BY <2>1, <2>2, <2>3, <2>5, <3>1 DEF Owned, Awaits
  <2>6. CASE by = c
    <3>1. call'[c] = calls[c]
      BY <1>3, <2>6
    <3>2. u # NoUser
      BY AuthAssumption
    <3> QED
      BY <1>2, <2>2, <2>6, <3>1, <3>2 DEF Owned, Awaits
  <2> QED
    BY <2>4, <2>5, <2>6
<1> QED
  BY <1>2, <1>5, <1>6

(* A token of u was issued, and auto keeps to it. *)
LEMMA IssueStep ==
  ASSUME AuthInv, NEW u \in Users, Issued(u), auto' \in {u, NoUser},
         AuthTypeOK', \A c \in Calls : Owned(c)'
  PROVE  AuthInv'
<1>1. user' = u /\ queue' # <<>> /\ SavesInOrder'
  BY SaveStep DEF Issued
<1> QED
  BY <1>1 DEF AuthInv, AutoIsUser, PersistsLatest

(* The store and its queue are left alone. *)
LEMMA StoreSame ==
  ASSUME AuthInv, UNCHANGED <<user, storeVars>>, auto' \in {auto, NoUser},
         AuthTypeOK', \A c \in Calls : Owned(c)'
  PROVE  AuthInv'
BY DEF AuthInv, AutoIsUser, SavesInOrder, PersistsLatest, storeVars

LEMMA SendStep ==
  ASSUME AuthInv, NEW c \in Calls, Send(c)
  PROVE  AuthInv'
<1>1. call \in [Calls -> CallType] /\ user \in Users \cup {NoUser} /\ auto \in {user, NoUser}
  BY DEF AuthInv, AuthTypeOK, CallType, AutoIsUser
<1>2. call[c].pc = "idle" /\ ~Awaits(refresh, c) /\ ~Awaits(signIn, c)
  BY DEF AuthInv, Owned, Send
<1>3. UNCHANGED <<user, life, auto, storeVars, losses>>
  BY DEF Send
<1>4. CASE /\ call' = [call EXCEPT ![c] = Becomes("sent", auto)]
           /\ UNCHANGED <<refresh, signIn>>
  <2>1. Becomes("sent", auto) \in CallType /\ Becomes("sent", auto).pc = "sent"
    BY <1>1 DEF Becomes, CallType
  <2>2. call' \in [Calls -> CallType] /\ call'[c].pc = "sent"
    BY <1>1, <1>4, <2>1
  <2>3. ASSUME NEW d \in Calls PROVE Owned(d)'
    <3>1. d # c => call'[d] = call[d]
      BY <1>1, <1>4
    <3> QED
      BY <1>2, <1>4, <2>2, <3>1 DEF AuthInv, Owned, Awaits
  <2>4. AuthTypeOK'
    BY <1>3, <1>4, <2>2 DEF AuthInv, AuthTypeOK, CallType, storeVars
  <2> QED
    BY <1>3, <2>3, <2>4, StoreSame
<1>5. CASE /\ auto # NoUser /\ refresh' = [by |-> c, of |-> user]
           /\ call' = [d \in Calls |-> CASE d = c -> Becomes("refreshing", auto)
                                         [] d # c /\ Awaits(refresh, d) -> Becomes("refused", call[d].of)
                                         [] OTHER -> call[d]]
           /\ UNCHANGED signIn
  <2>1. user \in Users /\ auto = user /\ user # NoUser
    BY <1>1, <1>5
  <2>2. refresh' \in [by : Calls, of : Users] /\ refresh'.by = c /\ refresh'.of = user
    BY <1>5, <2>1
  <2>3. Becomes("refreshing", auto) \in CallType /\ Becomes("refreshing", auto).pc = "refreshing"
        /\ Becomes("refreshing", auto).of = user
    BY <1>1, <2>1 DEF Becomes, CallType
  <2>4. ASSUME NEW d \in Calls
        PROVE  /\ Becomes("refused", call[d].of) \in CallType
               /\ Becomes("refused", call[d].of).pc = "refused"
               /\ Becomes("refused", call[d].of).of = call[d].of
    BY <1>1 DEF Becomes, CallType
  <2>5. /\ call'[c] = Becomes("refreshing", auto)
        /\ \A d \in Calls : d # c => call'[d] = IF Awaits(refresh, d) THEN Becomes("refused", call[d].of)
                                                                   ELSE call[d]
    BY <1>5
  <2>6. call' \in [Calls -> CallType]
    <3>1. \A d \in Calls : call'[d] \in CallType
      BY <1>1, <2>3, <2>4, <2>5
    <3> QED
      BY <1>5, <3>1
  <2>7. ASSUME NEW d \in Calls PROVE Owned(d)'
    <3>1. Owned(d)
      BY DEF AuthInv
    <3>2. CASE d = c
      BY <1>2, <1>5, <2>1, <2>2, <2>3, <2>5, <3>2 DEF Owned, Awaits
    <3>3. CASE d # c /\ Awaits(refresh, d)
      <4>1. call'[d].pc = "refused" /\ call'[d].of = call[d].of
        BY <2>4, <2>5, <3>3
      <4>2. ~Awaits(signIn, d) /\ call[d].of # NoUser
        BY <3>1, <3>3 DEF Owned
      <4> QED
        BY <1>5, <2>2, <3>3, <4>1, <4>2 DEF Owned, Awaits
    <3>4. CASE d # c /\ ~Awaits(refresh, d)
      BY <1>5, <2>2, <2>5, <3>1, <3>4 DEF Owned, Awaits
    <3> QED
      BY <3>2, <3>3, <3>4
  <2>8. AuthTypeOK'
    BY <1>3, <1>5, <2>2, <2>6 DEF AuthInv, AuthTypeOK, CallType, storeVars
  <2> QED
    BY <1>3, <2>7, <2>8, StoreSame
<1>6. CASE /\ auto # NoUser /\ UNCHANGED refresh
           /\ Request(c, auto, FALSE, [call EXCEPT ![c] = Becomes("signing", auto)])
  <2> DEFINE calls == [call EXCEPT ![c] = Becomes("signing", auto)]
  <2>1. auto \in Users
    BY <1>1, <1>6
  <2>2. Becomes("signing", auto) \in CallType /\ Becomes("signing", auto).pc = "signing"
        /\ Becomes("signing", auto).of = auto
    BY <2>1 DEF Becomes, CallType
  <2>3. calls \in [Calls -> CallType] /\ calls[c] = Becomes("signing", auto)
        /\ \A d \in Calls : d # c => calls[d] = call[d]
    BY <1>1, <2>2
  <2>4. Request(c, auto, FALSE, calls)
    BY <1>6
  <2> HIDE DEF calls
  <2>5. /\ call' \in [Calls -> CallType] /\ \A d \in Calls : Owned(d)'
        /\ signIn' \in [by : Calls \cup {App}, of : Users, register : BOOLEAN]
    <3>1. FALSE \in BOOLEAN /\ c \in Calls \cup {App}
      OBVIOUS
    <3>2. refresh' = refresh /\ calls[c].pc = "signing" /\ calls[c].of = auto
      BY <1>6, <2>2, <2>3
    <3> QED
      BY <1>2, <2>1, <2>3, <2>4, <3>1, <3>2, RequestStep
  <2>6. AuthTypeOK'
    BY <1>3, <1>6, <2>5 DEF AuthInv, AuthTypeOK, CallType, storeVars
  <2> QED
    BY <1>3, <2>5, <2>6, StoreSame
<1> QED
  BY <1>4, <1>5, <1>6 DEF Send

(* One call goes on. *)
LEMMA Onward ==
  ASSUME AuthInv, NEW c \in Calls, NEW pc \in {"refused", "signing", "sent"},
         call' = [call EXCEPT ![c].pc = pc]
  PROVE  /\ call' \in [Calls -> CallType]
         /\ call'[c].pc = pc /\ call'[c].of = call[c].of
         /\ \A d \in Calls : d # c => call'[d] = call[d]
<1> DEFINE v == [call[c] EXCEPT !.pc = pc]
<1>1. call \in [Calls -> CallType] /\ call[c] \in CallType
  BY DEF AuthInv, AuthTypeOK, CallType
<1>2. v \in CallType /\ v.pc = pc /\ v.of = call[c].of
  BY <1>1 DEF CallType
<1>3. call' = [call EXCEPT ![c] = v]
  OBVIOUS
<1> HIDE DEF v
<1> QED
  BY <1>1, <1>2, <1>3

LEMMA ReauthenticateStep ==
  ASSUME AuthInv, NEW c \in Calls, Reauthenticate(c)
  PROVE  AuthInv'
<1> DEFINE calls == [call EXCEPT ![c].pc = "signing"]
           v == [call[c] EXCEPT !.pc = "signing"]
<1>1. call \in [Calls -> CallType] /\ call[c] \in CallType
  BY DEF AuthInv, AuthTypeOK, CallType
<1>2. v \in CallType /\ v.pc = "signing" /\ v.of = call[c].of
  BY <1>1 DEF CallType
<1>3. calls = [call EXCEPT ![c] = v] /\ Request(c, call[c].of, FALSE, calls)
  BY DEF Reauthenticate
<1>4. call[c].of \in Users /\ ~Awaits(refresh, c)
  BY <1>1 DEF AuthInv, Owned, Reauthenticate, CallType
<1>5. UNCHANGED <<user, life, auto, refresh, storeVars, losses>>
  BY DEF Reauthenticate
<1> HIDE DEF calls, v
<1>6. calls \in [Calls -> CallType] /\ calls[c] = v /\ \A d \in Calls : d # c => calls[d] = call[d]
  BY <1>1, <1>2, <1>3
<1>7. calls[c].pc = "signing" /\ calls[c].of = call[c].of
  BY <1>2, <1>6
<1>8. FALSE \in BOOLEAN /\ c \in Calls \cup {App} /\ refresh' = refresh
  BY <1>5
<1>9. /\ call' \in [Calls -> CallType] /\ \A d \in Calls : Owned(d)'
      /\ signIn' \in [by : Calls \cup {App}, of : Users, register : BOOLEAN]
  BY <1>3, <1>4, <1>6, <1>7, <1>8, RequestStep
<1>10. AuthTypeOK'
  BY <1>5, <1>9 DEF AuthInv, AuthTypeOK, CallType, storeVars
<1> QED
  BY <1>5, <1>9, <1>10, StoreSame

LEMMA AuthWithPasswordStep ==
  ASSUME AuthInv, NEW u \in Users, AuthWithPassword(u)
  PROVE  AuthInv'
<1>1. PICK register \in BOOLEAN : Request(App, u, register, call)
  BY DEF AuthWithPassword
<1>2. call \in [Calls -> CallType]
  BY DEF AuthInv, AuthTypeOK, CallType
<1>3. UNCHANGED <<user, life, refresh, storeVars, losses>> /\ auto' = NoUser
  BY DEF AuthWithPassword
<1>4. App \in Calls \cup {App} /\ App \notin Calls /\ refresh' = refresh
  BY <1>3, AuthAssumption
<1>5. /\ call' \in [Calls -> CallType] /\ \A d \in Calls : Owned(d)'
      /\ signIn' \in [by : Calls \cup {App}, of : Users, register : BOOLEAN]
  BY <1>1, <1>2, <1>4, RequestStep
<1>6. AuthTypeOK'
  BY <1>3, <1>5 DEF AuthInv, AuthTypeOK, CallType, storeVars
<1> QED
  BY <1>3, <1>5, <1>6, StoreSame

LEMMA RefreshedStep ==
  ASSUME AuthInv, NEW c \in Calls, Refreshed(c)
  PROVE  AuthInv'
<1>1. /\ Awaits(refresh, c) /\ refresh \in [by : Calls, of : Users]
  BY DEF Refreshed, Awaits, AuthInv, AuthTypeOK
<1>2. refresh.of \in Users
  BY <1>1
<1>3. /\ call' \in [Calls -> CallType] /\ call'[c].pc = "sent" /\ call'[c].of = call[c].of
      /\ \A d \in Calls : d # c => call'[d] = call[d]
  BY Onward DEF Refreshed
<1>4. Issued(refresh.of) /\ auto' \in {refresh.of, NoUser} /\ refresh' = NoRequest
      /\ signIn' = signIn /\ losses' = losses
  BY DEF Refreshed, AutoOf
<1>5. ASSUME NEW d \in Calls PROVE Owned(d)'
  <2>1. Owned(d) /\ Owned(c)
    BY DEF AuthInv
  <2>2. ~Awaits(refresh', d) /\ (Awaits(signIn', d) <=> Awaits(signIn, d)) /\ signIn' = signIn
    BY <1>4 DEF Awaits
  <2>3. CASE d = c
    BY <1>1, <1>3, <2>1, <2>2, <2>3 DEF Owned
  <2>4. CASE d # c
    BY <1>3, <2>1, <2>2, <2>4 DEF Owned
  <2> QED
    BY <2>3, <2>4
<1>6. user' = refresh.of /\ queue' \in Seq(Users \cup {NoUser, Load})
      /\ life' = "fresh" /\ saved' = saved /\ kept' = kept
  BY <1>2, <1>4, SaveStep DEF Issued
<1>7. AuthTypeOK'
  BY <1>2, <1>3, <1>4, <1>6 DEF AuthInv, AuthTypeOK, CallType
<1> QED
  BY <1>2, <1>4, <1>5, <1>7, IssueStep

LEMMA RefreshRefusedStep ==
  ASSUME AuthInv, NEW c \in Calls, RefreshRefused(c)
  PROVE  AuthInv'
<1>1. /\ call' \in [Calls -> CallType] /\ call'[c].pc = "refused" /\ call'[c].of = call[c].of
      /\ \A d \in Calls : d # c => call'[d] = call[d]
  BY Onward DEF RefreshRefused
<1>2. UNCHANGED <<user, life, auto, signIn, storeVars, losses>> /\ refresh' = NoRequest
      /\ Awaits(refresh, c)
  BY DEF RefreshRefused
<1>3. ASSUME NEW d \in Calls PROVE Owned(d)'
  <2>1. Owned(d) /\ Owned(c)
    BY DEF AuthInv
  <2>2. ~Awaits(refresh', d) /\ (Awaits(signIn', d) <=> Awaits(signIn, d)) /\ signIn' = signIn
    BY <1>2 DEF Awaits
  <2>3. CASE d = c
    BY <1>1, <1>2, <2>1, <2>2, <2>3 DEF Owned
  <2>4. CASE d # c
    BY <1>1, <2>1, <2>2, <2>4 DEF Owned
  <2> QED
    BY <2>3, <2>4
<1>4. AuthTypeOK'
  BY <1>1, <1>2 DEF AuthInv, AuthTypeOK, CallType, storeVars
<1> QED
  BY <1>2, <1>3, <1>4, StoreSame

LEMMA SignedInStep ==
  ASSUME AuthInv, SignedIn
  PROVE  AuthInv'
<1>1. signIn \in [by : Calls \cup {App}, of : Users, register : BOOLEAN] /\ signIn.of \in Users
  BY DEF SignedIn, AuthInv, AuthTypeOK
<1>2. call \in [Calls -> CallType]
  BY DEF AuthInv, AuthTypeOK, CallType
<1>3. Issued(signIn.of) /\ auto' \in {signIn.of, NoUser} /\ refresh' = refresh
      /\ signIn' = NoRequest /\ losses' = losses
  BY DEF SignedIn, AutoOf
<1>4. ASSUME NEW c \in Calls
      PROVE  /\ call'[c] \in CallType
             /\ Awaits(signIn, c) => call'[c].pc = "sent" /\ call'[c].of = call[c].of
             /\ ~Awaits(signIn, c) => call'[c] = call[c]
  <2> DEFINE v == [call[c] EXCEPT !.pc = "sent"]
  <2>1. v \in CallType /\ v.pc = "sent" /\ v.of = call[c].of
    BY <1>2 DEF CallType
  <2>2. call'[c] = IF Awaits(signIn, c) THEN v ELSE call[c]
    BY DEF SignedIn
  <2> HIDE DEF v
  <2> QED
    BY <1>2, <2>1, <2>2
<1>5. call' \in [Calls -> CallType]
  BY <1>4 DEF SignedIn
<1>6. ASSUME NEW c \in Calls PROVE Owned(c)'
  <2>1. Owned(c) /\ ~Awaits(signIn', c) /\ (Awaits(refresh', c) <=> Awaits(refresh, c))
    BY <1>3 DEF AuthInv, Awaits
  <2> QED
    BY <1>3, <1>4, <2>1 DEF Owned
<1>7. user' = signIn.of /\ queue' \in Seq(Users \cup {NoUser, Load})
      /\ life' = "fresh" /\ saved' = saved /\ kept' = kept
  BY <1>1, <1>3, SaveStep DEF Issued
<1>8. AuthTypeOK'
  BY <1>1, <1>3, <1>5, <1>7 DEF AuthInv, AuthTypeOK, CallType
<1> QED
  BY <1>1, <1>3, <1>6, <1>8, IssueStep

LEMMA SignInRefusedStep ==
  ASSUME AuthInv, SignInRefused
  PROVE  AuthInv'
<1>1. call \in [Calls -> CallType] /\ Idle \in CallType /\ Idle.pc = "idle"
  BY DEF AuthInv, AuthTypeOK, CallType, Idle
<1>2. UNCHANGED <<user, life, auto, refresh, storeVars>> /\ signIn' = NoRequest
      /\ losses' = losses + 1
  BY DEF SignInRefused, Loss
<1>3. call' = [c \in Calls |-> IF Awaits(signIn, c) THEN Idle ELSE call[c]]
  BY DEF SignInRefused
<1>4. call' \in [Calls -> CallType]
  BY <1>1, <1>3
<1>5. ASSUME NEW c \in Calls PROVE Owned(c)'
  <2>1. Owned(c) /\ ~Awaits(signIn', c) /\ (Awaits(refresh', c) <=> Awaits(refresh, c))
    BY <1>2 DEF AuthInv, Awaits
  <2>2. call'[c] = IF Awaits(signIn, c) THEN Idle ELSE call[c]
    BY <1>3
  <2>3. CASE Awaits(signIn, c)
    BY <1>1, <2>1, <2>2, <2>3 DEF Owned
  <2>4. CASE ~Awaits(signIn, c)
    BY <1>2, <2>1, <2>2, <2>4 DEF Owned
  <2> QED
    BY <2>3, <2>4
<1>6. AuthTypeOK'
  BY <1>2, <1>4 DEF AuthInv, AuthTypeOK, CallType, storeVars
<1> QED
  BY <1>2, <1>5, <1>6, StoreSame

LEMMA AnswerStep ==
  ASSUME AuthInv, NEW c \in Calls, Answer(c)
  PROVE  AuthInv'
<1>1. call \in [Calls -> CallType] /\ Idle \in CallType /\ Idle.pc = "idle"
  BY DEF AuthInv, AuthTypeOK, CallType, Idle
<1>2. UNCHANGED <<user, life, auto, refresh, signIn, storeVars, losses>>
      /\ call' = [call EXCEPT ![c] = Idle] /\ call[c].pc = "sent"
  BY DEF Answer
<1>3. call' \in [Calls -> CallType] /\ call'[c] = Idle /\ \A d \in Calls : d # c => call'[d] = call[d]
  BY <1>1, <1>2
<1>4. ASSUME NEW d \in Calls PROVE Owned(d)'
  <2>1. Owned(d) /\ Owned(c) /\ refresh' = refresh /\ signIn' = signIn
    BY <1>2 DEF AuthInv
  <2>2. CASE d = c
    BY <1>1, <1>2, <1>3, <2>1, <2>2 DEF Owned, Awaits
  <2>3. CASE d # c
    BY <1>3, <2>1, <2>3 DEF Owned, Awaits
  <2> QED
    BY <2>2, <2>3
<1>5. AuthTypeOK'
  BY <1>2, <1>3 DEF AuthInv, AuthTypeOK, CallType, storeVars
<1> QED
  BY <1>2, <1>4, <1>5, StoreSame

LEMMA ClearStep ==
  ASSUME AuthInv, Clear
  PROVE  AuthInv'
<1>1. Save(NoUser) /\ auto' = NoUser /\ UNCHANGED <<life, call, refresh, signIn, saved, kept, losses>>
  BY DEF Clear, AutoOf
<1>2. user' = NoUser /\ queue' \in Seq(Users \cup {NoUser, Load}) /\ queue' # <<>> /\ SavesInOrder'
  BY <1>1, SaveStep
<1>3. \A c \in Calls : Owned(c)'
  BY <1>1 DEF AuthInv, Owned, Awaits
<1>4. AuthTypeOK'
  BY <1>1, <1>2 DEF AuthInv, AuthTypeOK
<1> QED
  BY <1>1, <1>2, <1>3, <1>4 DEF AuthInv, AutoIsUser, PersistsLatest

LEMMA ExpireStep ==
  ASSUME AuthInv, Expire
  PROVE  AuthInv'
<1>1. UNCHANGED <<user, auto, call, refresh, signIn, storeVars, losses>>
      /\ life' \in {"expiring", "expired"}
  BY DEF Expire
<1>2. \A c \in Calls : Owned(c)'
  BY <1>1 DEF AuthInv, Owned, Awaits
<1>3. AuthTypeOK'
  BY <1>1 DEF AuthInv, AuthTypeOK, storeVars
<1> QED
  BY <1>1, <1>2, <1>3, StoreSame

LEMMA ReloadStep ==
  ASSUME AuthInv, Reload
  PROVE  AuthInv'
<1>1. /\ user' = NoUser /\ auto' = NoUser /\ life' = "fresh" /\ queue' = <<Load>> /\ kept' = TRUE
      /\ refresh' = NoRequest /\ signIn' = NoRequest /\ losses' = losses + 1
      /\ call' = [c \in Calls |-> Idle]
  BY DEF Reload, Loss
<1>2. saved' \in Users \cup {NoUser}
  <2>1. PICK s \in {saved} \cup {queue[i] : i \in {j \in Running : queue[j] # Load}} : saved' = s
    BY DEF Reload
  <2>2. \A i \in Running : i \in 1..Len(queue)
    BY DEF AuthInv, AuthTypeOK, Running
  <2>3. \A i \in 1..Len(queue) : queue[i] \in Users \cup {NoUser, Load}
    BY DEF AuthInv, AuthTypeOK
  <2> QED
    BY <2>1, <2>2, <2>3 DEF AuthInv, AuthTypeOK
<1>3. call' \in [Calls -> CallType] /\ \A c \in Calls : call'[c].pc = "idle"
  BY <1>1 DEF Idle, CallType
<1>4. \A c \in Calls : Owned(c)'
  BY <1>1, <1>3 DEF Owned, Awaits
<1>5. queue' \in Seq(Users \cup {NoUser, Load}) /\ Len(queue') = 1 /\ queue'[1] = Load /\ queue' # <<>>
  BY <1>1
<1>6. SavesInOrder'
  BY <1>1, <1>5 DEF SavesInOrder
<1>7. AuthTypeOK'
  BY <1>1, <1>2, <1>3, <1>5 DEF AuthInv, AuthTypeOK, CallType
<1> QED
  BY <1>1, <1>4, <1>5, <1>6, <1>7 DEF AuthInv, AutoIsUser, PersistsLatest

(* The first in the queue is done: what is left is in order, and no load. *)
LEMMA TailInOrder ==
  ASSUME AuthInv, queue # <<>>
  PROVE  /\ Tail(queue) \in Seq(Users \cup {NoUser, Load})
         /\ \A i \in 1..Len(Tail(queue)) : Tail(queue)[i] # Load
         /\ \A i \in 1..Len(Tail(queue)) : i = Len(Tail(queue)) => Tail(queue)[i] = user
         /\ Tail(queue) = <<>> => Len(queue) = 1
<1>1. queue \in Seq(Users \cup {NoUser, Load}) /\ Len(queue) \in Nat /\ Len(queue) # 0
  BY DEF AuthInv, AuthTypeOK
<1>2. /\ Tail(queue) \in Seq(Users \cup {NoUser, Load}) /\ Len(Tail(queue)) = Len(queue) - 1
      /\ \A i \in 1..(Len(queue) - 1) : Tail(queue)[i] = queue[i + 1]
  BY <1>1
<1>3. \A i \in 1..Len(Tail(queue)) : i + 1 \in 1..Len(queue) /\ i + 1 # 1
  BY <1>1, <1>2
<1>4. \A i \in 1..Len(Tail(queue)) : queue[i + 1] # Load
  BY <1>3 DEF AuthInv, SavesInOrder
<1>5. ASSUME NEW i \in 1..Len(Tail(queue)), i = Len(Tail(queue)) PROVE queue[i + 1] = user
  <2>1. i + 1 = Len(queue) /\ i + 1 \in 1..Len(queue)
    BY <1>1, <1>2, <1>3, <1>5
  <2> QED
    BY <1>4, <2>1 DEF AuthInv, SavesInOrder
<1>6. \A i \in 1..Len(Tail(queue)) : Tail(queue)[i] = queue[i + 1]
  BY <1>2
<1>7. Tail(queue) = <<>> => Len(queue) = 1
  <2>1. Len(<<>>) = 0
    OBVIOUS
  <2> QED
    BY <1>1, <1>2, <2>1
<1> QED
  BY <1>2, <1>4, <1>5, <1>6, <1>7

LEMMA LoadInitialStep ==
  ASSUME AuthInv, LoadInitial
  PROVE  AuthInv'
<1>1. queue # <<>> /\ Head(queue) = Load /\ UNCHANGED <<call, refresh, signIn, saved>>
  BY DEF LoadInitial
<1>2. \A c \in Calls : Owned(c)'
  BY <1>1 DEF AuthInv, Owned, Awaits
<1> DEFINE q == Tail(queue)
<1>3. /\ q \in Seq(Users \cup {NoUser, Load}) /\ Len(q) \in Nat
      /\ \A i \in 1..Len(q) : q[i] # Load
      /\ \A i \in 1..Len(q) : i = Len(q) => q[i] = user
      /\ q = <<>> => Len(queue) = 1
  BY <1>1, TailInOrder
<1>4. queue \in Seq(Users \cup {NoUser, Load}) /\ queue[1] = Load /\ Len(queue) \in Nat /\ Len(queue) # 0
  BY <1>1 DEF AuthInv, AuthTypeOK
<1>5. q = <<>> => user = NoUser
  <2>1. Len(queue) = 1 => queue[1] = user \/ user = NoUser
    BY <1>4 DEF AuthInv, SavesInOrder
  <2>2. user # Load
    BY AuthAssumption DEF AuthInv, AuthTypeOK
  <2> QED
    BY <1>3, <1>4, <2>1, <2>2
<1>6. CASE saved = NoUser /\ queue' = q /\ UNCHANGED <<user, life, auto, kept, losses>>
  <2> HIDE DEF q
  <2>1. SavesInOrder'
    BY <1>3, <1>6 DEF SavesInOrder
  <2>2. AuthTypeOK'
    BY <1>1, <1>3, <1>6 DEF AuthInv, AuthTypeOK
  <2> QED
    BY <1>1, <1>2, <1>5, <1>6, <2>1, <2>2 DEF AuthInv, AutoIsUser, PersistsLatest
<1>7. CASE saved # NoUser /\ user' = saved /\ life' \in {"fresh", "expiring", "expired"}
           /\ queue' = Append(q, saved) /\ auto' = AutoOf(saved) /\ UNCHANGED <<kept, losses>>
  <2> HIDE DEF q
  <2>1. saved \in Users \cup {NoUser} /\ saved # Load /\ auto' \in {saved, NoUser}
    BY <1>7, AuthAssumption DEF AuthInv, AuthTypeOK, AutoOf
  <2>2. /\ queue' \in Seq(Users \cup {NoUser, Load}) /\ Len(queue') = Len(q) + 1
        /\ queue'[Len(q) + 1] = saved /\ \A i \in 1..Len(q) : queue'[i] = q[i]
    BY <1>3, <1>7, <2>1
  <2>3. \A i \in 1..Len(queue') : i \in 1..Len(q) \/ i = Len(q) + 1
    BY <1>3, <2>2
  <2>4. \A i \in 1..Len(queue') : queue'[i] # Load
    BY <1>3, <2>1, <2>2, <2>3
  <2>5. SavesInOrder'
    BY <1>7, <2>2, <2>4 DEF SavesInOrder
  <2>6. AuthTypeOK'
    BY <1>1, <1>7, <2>1, <2>2 DEF AuthInv, AuthTypeOK
  <2>7. queue' # <<>>
    BY <1>3, <2>2
  <2> QED
    BY <1>2, <1>7, <2>1, <2>5, <2>6, <2>7 DEF AuthInv, AutoIsUser, PersistsLatest
<1>8. CASE Loss /\ queue' = q /\ kept' = FALSE /\ UNCHANGED <<user, life, auto>>
  <2> HIDE DEF q
  <2>1. SavesInOrder'
    BY <1>3, <1>8 DEF SavesInOrder
  <2>2. losses' \in Nat
    BY <1>8 DEF Loss, AuthInv, AuthTypeOK
  <2>3. AuthTypeOK'
    BY <1>1, <1>3, <1>8, <2>2 DEF AuthInv, AuthTypeOK
  <2> QED
    BY <1>2, <1>8, <2>1, <2>3 DEF AuthInv, AutoIsUser, PersistsLatest
<1> QED
  BY <1>6, <1>7, <1>8 DEF LoadInitial

LEMMA PersistStep ==
  ASSUME AuthInv, Persist
  PROVE  AuthInv'
<1>1. queue # <<>> /\ queue[1] # Load /\ queue' = Dequeued(1)
      /\ \/ saved' = queue[1] /\ kept' = TRUE /\ UNCHANGED losses
         \/ Loss /\ kept' = FALSE /\ UNCHANGED saved
  BY DEF Persist, Running
<1>2. UNCHANGED <<user, life, auto, call, refresh, signIn>>
  BY DEF Persist
<1>3. queue \in Seq(Users \cup {NoUser, Load}) /\ Len(queue) \in Nat /\ Len(queue) # 0
  BY <1>1 DEF AuthInv, AuthTypeOK
<1>4. queue' = Tail(queue)
  <2>1. SubSeq(queue, 1, 1 - 1) = <<>>
    BY <1>3
  <2>2. SubSeq(queue, 1 + 1, Len(queue)) = Tail(queue)
    BY <1>3
  <2> QED
    BY <1>1, <1>3, <2>1, <2>2 DEF Dequeued
<1>5. /\ queue' \in Seq(Users \cup {NoUser, Load})
      /\ \A i \in 1..Len(queue') : queue'[i] # Load
      /\ \A i \in 1..Len(queue') : i = Len(queue') => queue'[i] = user
      /\ queue' = <<>> => Len(queue) = 1
  BY <1>1, <1>4, TailInOrder
<1>6. SavesInOrder'
  BY <1>2, <1>5 DEF SavesInOrder
<1>7. queue[1] \in Users \cup {NoUser}
  BY <1>1, <1>3
<1>8. saved' \in Users \cup {NoUser} /\ kept' \in BOOLEAN /\ losses' \in Nat
  <2>1. kept' = TRUE \/ kept' = FALSE
    BY <1>1
  <2>2. kept' \in BOOLEAN
    BY <2>1
  <2>3. losses \in Nat /\ saved \in Users \cup {NoUser}
    BY DEF AuthInv, AuthTypeOK
  <2>4. saved' = queue[1] \/ saved' = saved
    BY <1>1
  <2>5. losses' = losses \/ losses' = losses + 1
    BY <1>1 DEF Loss
  <2>6. losses' \in Nat
    BY <2>3, <2>5
  <2> QED
    BY <1>7, <2>2, <2>3, <2>4, <2>6
<1>9. AuthTypeOK'
  BY <1>2, <1>5, <1>8 DEF AuthInv, AuthTypeOK
<1>10. Len(queue) = 1 => queue[1] = user
  BY <1>1, <1>3 DEF AuthInv, SavesInOrder
<1>11. PersistsLatest'
  BY <1>1, <1>2, <1>5, <1>10 DEF PersistsLatest
<1>12. \A c \in Calls : Owned(c)'
  BY <1>2 DEF AuthInv, Owned, Awaits
<1> QED
  BY <1>2, <1>6, <1>9, <1>11, <1>12 DEF AuthInv, AutoIsUser

LEMMA AuthInvInit ==
  ASSUME AuthInit
  PROVE  AuthInv
<1>1. /\ user = NoUser /\ saved = NoUser /\ life = "fresh" /\ auto = NoUser
      /\ refresh = NoRequest /\ signIn = NoRequest /\ kept = TRUE /\ losses = 0
      /\ call = [c \in Calls |-> Idle] /\ queue = <<Load>>
  BY DEF AuthInit
<1>2. call \in [Calls -> CallType] /\ \A c \in Calls : call[c].pc = "idle"
  BY <1>1 DEF Idle, CallType
<1>3. queue \in Seq(Users \cup {NoUser, Load}) /\ Len(queue) = 1 /\ queue[1] = Load /\ queue # <<>>
  BY <1>1
<1>4. \A c \in Calls : Owned(c)
  BY <1>1, <1>2 DEF Owned, Awaits
<1>5. AuthTypeOK
  BY <1>1, <1>2, <1>3 DEF AuthTypeOK, CallType
<1>6. SavesInOrder
  BY <1>1, <1>3 DEF SavesInOrder
<1> QED
  BY <1>1, <1>3, <1>4, <1>5, <1>6 DEF AuthInv, AutoIsUser, PersistsLatest

LEMMA AuthInvStep ==
  ASSUME AuthInv, [AuthNext]_authVars
  PROVE  AuthInv'
<1>1. ASSUME NEW c \in Calls, Send(c) \/ Answers(c) PROVE AuthInv'
  BY <1>1, SendStep, RefreshedStep, RefreshRefusedStep, ReauthenticateStep, AnswerStep DEF Answers
<1>2. ASSUME NEW u \in Users, AuthWithPassword(u) PROVE AuthInv'
  BY <1>2, AuthWithPasswordStep
<1>3. CASE UNCHANGED authVars
  BY <1>3 DEF authVars, storeVars, AuthInv, AuthTypeOK, AutoIsUser, SavesInOrder, PersistsLatest, Owned, Awaits
<1> QED
  BY <1>1, <1>2, <1>3, SignedInStep, SignInRefusedStep, ClearStep, ExpireStep, LoadInitialStep,
     PersistStep, ReloadStep DEF AuthNext

LEMMA AuthInvariant == AuthSpec => []AuthInv
BY AuthInvInit, AuthInvStep, PTL DEF AuthSpec

(* The store, its queue and the requests keep their shapes, for any number  *)
(* of users and calls.                                                      *)
THEOREM SessionTypeCorrect == AuthSpec => []AuthTypeOK
<1>1. AuthInv => AuthTypeOK
  BY DEF AuthInv
<1> QED
  BY <1>1, AuthInvariant, PTL

(* Once nothing is left to save, the storage holds what the store holds,    *)
(* for any number of users and calls, any length of the queue and any       *)
(* number of failed saves and reloads.                                      *)
THEOREM StorageFollows == AuthSpec => []PersistsLatest
<1>1. AuthInv => PersistsLatest
  BY DEF AuthInv
<1> QED
  BY <1>1, AuthInvariant, PTL

(* A call that is sent after it waited for somebody's refresh or sign-in is *)
(* sent as that user, for any number of calls that abort one another's.     *)
THEOREM CallsKeepOwner == AuthSpec => SentAsOwner
<1> DEFINE Kept(c) == call[c].pc # "sent" /\ call'[c].pc = "sent" /\ call'[c].of # NoUser =>
                        user' = call'[c].of /\ life' # "expired"
<1>1. ASSUME AuthInv, AuthNext, NEW c \in Calls PROVE Kept(c)
  <2>1. call \in [Calls -> CallType] /\ auto \in {user, NoUser} /\ Owned(c)
    BY <1>1 DEF AuthInv, AuthTypeOK, CallType, AutoIsUser
  <2>2. ASSUME NEW d \in Calls, Send(d) PROVE Kept(c)
    <3>1. user' = user /\ life' = life
      BY <2>2 DEF Send
    <3>2. CASE call' = [call EXCEPT ![d] = Becomes("sent", auto)] /\ (auto = NoUser \/ life = "fresh")
      <4>1. Becomes("sent", auto).of = auto
        BY DEF Becomes
      <4>2. call'[d] = Becomes("sent", auto) /\ (d # c => call'[c] = call[c])
        BY <2>1, <3>2
      <4> QED
        BY <2>1, <3>1, <3>2, <4>1, <4>2
    <3>3. CASE call' = [e \in Calls |-> CASE e = d -> Becomes("refreshing", auto)
                                         [] e # d /\ Awaits(refresh, e) -> Becomes("refused", call[e].of)
                                         [] OTHER -> call[e]]
      <4>1. \A o : Becomes("refreshing", o).pc # "sent" /\ Becomes("refused", o).pc # "sent"
        BY DEF Becomes
      <4>2. \/ call'[c] = Becomes("refreshing", auto) \/ call'[c] = Becomes("refused", call[c].of)
            \/ call'[c] = call[c]
        BY <3>3
      <4> QED
        BY <4>1, <4>2
    <3>4. CASE Request(d, auto, FALSE, [call EXCEPT ![d] = Becomes("signing", auto)])
      <4>1. Becomes("signing", auto).pc # "sent" /\ Idle.pc # "sent"
        BY DEF Becomes, Idle
      <4>2. \/ call'[c] = Idle \/ call'[c] = Becomes("signing", auto) \/ call'[c] = call[c]
        BY <2>1, <3>4 DEF Request
      <4> QED
        BY <4>1, <4>2
    <3> QED
      BY <2>2, <3>2, <3>3, <3>4 DEF Send
  <2>3. ASSUME NEW d \in Calls, Refreshed(d) PROVE Kept(c)
    <3>1. /\ call'[d].of = call[d].of /\ \A e \in Calls : e # d => call'[e] = call[e]
      BY <1>1, <2>3, Onward DEF Refreshed
    <3>2. Awaits(refresh, d) /\ user' = refresh.of /\ life' = "fresh"
      BY <2>3 DEF Refreshed, Issued, Save
    <3> QED
      BY <2>1, <3>1, <3>2 DEF Owned
  <2>4. ASSUME NEW d \in Calls, RefreshRefused(d) PROVE Kept(c)
    <3>1. call'[d].pc = "refused" /\ \A e \in Calls : e # d => call'[e] = call[e]
      BY <1>1, <2>4, Onward DEF RefreshRefused
    <3> QED
      BY <3>1
  <2>5. ASSUME NEW d \in Calls, Reauthenticate(d) PROVE Kept(c)
    <3> DEFINE v == [call[d] EXCEPT !.pc = "signing"]
    <3>1. v.pc # "sent" /\ Idle.pc # "sent"
      BY <2>1 DEF CallType, Idle
    <3>2. Request(d, call[d].of, FALSE, [call EXCEPT ![d] = v])
      BY <2>5 DEF Reauthenticate
    <3> HIDE DEF v
    <3>3. call'[c] = Idle \/ call'[c] = v \/ call'[c] = call[c]
      BY <2>1, <3>2 DEF Request
    <3> QED
      BY <3>1, <3>3
  <2>6. ASSUME NEW d \in Calls, Answer(d) PROVE Kept(c)
    <3>1. Idle.pc # "sent"
      BY DEF Idle
    <3> QED
      BY <2>1, <2>6, <3>1 DEF Answer
  <2>7. CASE SignedIn
    <3> DEFINE v == [call[c] EXCEPT !.pc = "sent"]
    <3>1. v.of = call[c].of
      BY <2>1 DEF CallType
    <3>2. call'[c] = IF Awaits(signIn, c) THEN v ELSE call[c]
      BY <2>7 DEF SignedIn
    <3>3. user' = signIn.of /\ life' = "fresh"
      BY <2>7 DEF SignedIn, Issued, Save
    <3> HIDE DEF v
    <3> QED
      BY <2>1, <3>1, <3>2, <3>3 DEF Owned
  <2>8. CASE SignInRefused
    <3>1. Idle.pc # "sent" /\ (call'[c] = Idle \/ call'[c] = call[c])
      BY <2>8 DEF SignInRefused, Idle
    <3> QED
      BY <3>1
  <2>9. ASSUME NEW u \in Users, AuthWithPassword(u) PROVE Kept(c)
    <3>1. Idle.pc # "sent" /\ (call'[c] = Idle \/ call'[c] = call[c])
      BY <2>9 DEF AuthWithPassword, Request, Idle
    <3> QED
      BY <3>1
  <2>10. CASE Reload
    <3>1. Idle.pc # "sent" /\ call'[c] = Idle
      BY <2>10 DEF Reload, Idle
    <3> QED
      BY <3>1
  <2>11. CASE Clear \/ Expire \/ LoadInitial \/ Persist
    BY <2>11 DEF Clear, Expire, LoadInitial, Persist
  <2> QED
    BY <1>1, <2>2, <2>3, <2>4, <2>5, <2>6, <2>7, <2>8, <2>9, <2>10, <2>11 DEF AuthNext, Answers
<1>2. AuthInv /\ [AuthNext]_authVars => [\A c \in Calls : Kept(c)]_authVars
  BY <1>1
<1> QED
  BY <1>2, AuthInvariant, PTL DEF AuthSpec, SentAsOwner

(* A sign-in takes the place of the one before it, whose call is let go. *)
LEMMA RequestAwaited ==
  ASSUME CallsAwaited, NEW by \in Calls \cup {App}, NEW u \in Users,
         NEW register \in BOOLEAN, NEW calls \in [Calls -> CallType],
         Request(by, u, register, calls), refresh' = refresh,
         \A c \in Calls : c # by => calls[c] = call[c],
         by \in Calls => calls[by].pc = "signing"
  PROVE  CallsAwaited'
<1>1. signIn' = [by |-> by, of |-> u, register |-> register]
  BY DEF Request
<1>2. signIn' # NoRequest /\ signIn'.by = by
  <2>1. signIn' \in [by : Calls \cup {App}, of : Users, register : BOOLEAN]
    BY <1>1
  <2> QED
    BY <1>1, <2>1, AuthAssumption
<1>3. call' = [c \in Calls |-> IF by # c /\ Awaits(signIn, c) THEN Idle ELSE calls[c]]
  BY DEF Request
<1>4. ASSUME NEW c \in Calls PROVE /\ call'[c].pc = "refreshing" => Awaits(refresh', c)
                                   /\ call'[c].pc = "signing" => Awaits(signIn', c)
  <2>1. CASE by = c
    BY <1>2, <1>3, <2>1 DEF Awaits
  <2>2. CASE by # c /\ Awaits(signIn, c)
    BY <1>3, <2>2 DEF Idle
  <2>3. CASE by # c /\ ~Awaits(signIn, c)
    <3>1. call'[c] = call[c]
      BY <1>3, <2>3
    <3> QED
      BY <2>3, <3>1 DEF CallsAwaited, Awaits
  <2> QED
    BY <2>1, <2>2, <2>3
<1> QED
  BY <1>4 DEF CallsAwaited, Awaits

(* A call moves on; the request it waited for, if it did, is over. *)
LEMMA MovedOn ==
  ASSUME AuthInv, CallsAwaited, NEW c \in Calls, NEW v \in CallType, v.pc \in {"idle", "refused", "sent"},
         call' = [call EXCEPT ![c] = v], signIn' = signIn,
         refresh' = refresh \/ Awaits(refresh, c)
  PROVE  CallsAwaited'
<1>1. call \in [Calls -> CallType]
  BY DEF AuthInv, AuthTypeOK, CallType
<1>2. ASSUME NEW d \in Calls PROVE /\ call'[d].pc = "refreshing" => Awaits(refresh', d)
                                   /\ call'[d].pc = "signing" => Awaits(signIn', d)
  <2>1. CASE d = c
    BY <1>1, <2>1
  <2>2. CASE d # c
    <3>1. call'[d] = call[d]
      BY <1>1, <2>2
    <3> QED
      BY <2>2, <3>1 DEF CallsAwaited, Awaits
  <2> QED
    BY <2>1, <2>2
<1> QED
  BY <1>2 DEF CallsAwaited, Awaits

LEMMA SendAwaited ==
  ASSUME AuthInv, CallsAwaited, NEW c \in Calls, Send(c)
  PROVE  CallsAwaited'
<1>1. call \in [Calls -> CallType] /\ user \in Users \cup {NoUser} /\ auto \in {user, NoUser}
  BY DEF AuthInv, AuthTypeOK, CallType, AutoIsUser
<1>2. CASE call' = [call EXCEPT ![c] = Becomes("sent", auto)] /\ UNCHANGED <<refresh, signIn>>
  <2>1. Becomes("sent", auto) \in CallType /\ Becomes("sent", auto).pc = "sent"
    BY <1>1 DEF Becomes, CallType
  <2> QED
    BY <1>2, <2>1, MovedOn
<1>3. CASE /\ auto # NoUser /\ refresh' = [by |-> c, of |-> user]
           /\ call' = [d \in Calls |-> CASE d = c -> Becomes("refreshing", auto)
                                         [] d # c /\ Awaits(refresh, d) -> Becomes("refused", call[d].of)
                                         [] OTHER -> call[d]]
           /\ UNCHANGED signIn
  <2>1. refresh' # NoRequest /\ refresh'.by = c
    <3>1. refresh' \in [by : Calls, of : Users]
      BY <1>1, <1>3
    <3> QED
      BY <1>3, <3>1, AuthAssumption
  <2>2. \A o : Becomes("refreshing", o).pc = "refreshing" /\ Becomes("refused", o).pc = "refused"
    BY DEF Becomes
  <2>3. ASSUME NEW d \in Calls PROVE /\ call'[d].pc = "refreshing" => Awaits(refresh', d)
                                     /\ call'[d].pc = "signing" => Awaits(signIn', d)
    <3>1. CASE d = c
      BY <1>3, <2>1, <2>2, <3>1 DEF Awaits
    <3>2. CASE d # c /\ Awaits(refresh, d)
      BY <1>3, <2>2, <3>2
    <3>3. CASE d # c /\ ~Awaits(refresh, d)
      <4>1. call'[d] = call[d]
        BY <1>3, <3>3
      <4> QED
        BY <1>3, <3>3, <4>1 DEF CallsAwaited
    <3> QED
      BY <3>1, <3>2, <3>3
  <2> QED
    BY <2>3 DEF CallsAwaited, Awaits
<1>4. CASE /\ auto # NoUser /\ UNCHANGED refresh
           /\ Request(c, auto, FALSE, [call EXCEPT ![c] = Becomes("signing", auto)])
  <2> DEFINE calls == [call EXCEPT ![c] = Becomes("signing", auto)]
  <2>1. Becomes("signing", auto) \in CallType /\ Becomes("signing", auto).pc = "signing"
    BY <1>1 DEF Becomes, CallType
  <2>2. /\ calls \in [Calls -> CallType] /\ calls[c].pc = "signing"
        /\ \A d \in Calls : d # c => calls[d] = call[d]
    BY <1>1, <2>1
  <2>3. auto \in Users /\ Request(c, auto, FALSE, calls) /\ refresh' = refresh
    BY <1>1, <1>4
  <2> HIDE DEF calls
  <2> QED
    BY <2>2, <2>3, RequestAwaited
<1> QED
  BY <1>2, <1>3, <1>4 DEF Send

LEMMA AwaitedStep ==
  ASSUME AuthInv, CallsAwaited, [AuthNext]_authVars
  PROVE  CallsAwaited'
<1>1. call \in [Calls -> CallType]
  BY DEF AuthInv, AuthTypeOK, CallType
<1>2. ASSUME NEW c \in Calls, Refreshed(c) \/ RefreshRefused(c) PROVE CallsAwaited'
  <2>1. PICK pc \in {"sent", "refused"} : call' = [call EXCEPT ![c].pc = pc]
    BY <1>2 DEF Refreshed, RefreshRefused
  <2> DEFINE v == [call[c] EXCEPT !.pc = pc]
  <2>2. v \in CallType /\ v.pc = pc /\ call' = [call EXCEPT ![c] = v]
    BY <1>1, <2>1 DEF CallType
  <2> HIDE DEF v
  <2>3. signIn' = signIn /\ Awaits(refresh, c)
    BY <1>2 DEF Refreshed, RefreshRefused
  <2> QED
    BY <2>2, <2>3, MovedOn
<1>3. ASSUME NEW c \in Calls, Reauthenticate(c) PROVE CallsAwaited'
  <2> DEFINE v == [call[c] EXCEPT !.pc = "signing"]
             calls == [call EXCEPT ![c] = v]
  <2>1. v \in CallType /\ v.pc = "signing"
    BY <1>1 DEF CallType
  <2>2. Request(c, call[c].of, FALSE, calls) /\ refresh' = refresh
    BY <1>3 DEF Reauthenticate
  <2> HIDE DEF v
  <2>3. /\ calls \in [Calls -> CallType] /\ calls[c].pc = "signing"
        /\ \A d \in Calls : d # c => calls[d] = call[d]
    BY <1>1, <2>1
  <2>4. call[c].of \in Users
    <3>1. call[c].of # NoUser
      BY <1>3 DEF Reauthenticate, AuthInv, Owned
    <3> QED
      BY <1>1, <3>1 DEF CallType
  <2> HIDE DEF calls
  <2> QED
    BY <2>2, <2>3, <2>4, RequestAwaited
<1>4. ASSUME NEW c \in Calls, Answer(c) PROVE CallsAwaited'
  <2>1. Idle \in CallType /\ Idle.pc = "idle"
    BY DEF Idle, CallType
  <2>2. call' = [call EXCEPT ![c] = Idle] /\ UNCHANGED <<refresh, signIn>>
    BY <1>4 DEF Answer
  <2> QED
    BY <2>1, <2>2, MovedOn
<1>5. CASE SignedIn \/ SignInRefused
  <2>1. \A c \in Calls : /\ Awaits(signIn, c) => call'[c].pc \in {"sent", "idle"}
                         /\ ~Awaits(signIn, c) => call'[c] = call[c]
    <3>1. CASE SignedIn
      BY <1>1, <3>1 DEF SignedIn, CallType
    <3>2. CASE SignInRefused
      BY <1>1, <3>2 DEF SignInRefused, Idle
    <3> QED
      BY <1>5, <3>1, <3>2
  <2>2. refresh' = refresh
    BY <1>5 DEF SignedIn, SignInRefused
  <2> QED
    BY <2>1, <2>2 DEF CallsAwaited, Awaits
<1>6. ASSUME NEW u \in Users, AuthWithPassword(u) PROVE CallsAwaited'
  <2>1. PICK register \in BOOLEAN : Request(App, u, register, call)
    BY <1>6 DEF AuthWithPassword
  <2>2. refresh' = refresh
    BY <1>6 DEF AuthWithPassword
  <2> QED
    BY <1>1, <2>1, <2>2, RequestAwaited, AuthAssumption
<1>7. CASE Reload
  BY <1>7 DEF Reload, Idle, CallsAwaited
<1>8. CASE Clear \/ Expire \/ LoadInitial \/ Persist \/ UNCHANGED authVars
  <2>1. UNCHANGED <<call, refresh, signIn>>
    BY <1>8 DEF Clear, Expire, LoadInitial, Persist, authVars
  <2> QED
    BY <2>1 DEF CallsAwaited, Awaits
<1> QED
  BY <1>2, <1>3, <1>4, <1>5, <1>6, <1>7, <1>8, SendAwaited DEF AuthNext, Answers

(* A call waits only for a request that is under way, however many calls     *)
(* abort one another's refreshes and sign-ins: the half of CallsEnd that is  *)
(* safety.                                                                   *)
THEOREM NoCallLeftBehind == AuthSpec => []CallsAwaited
<1>1. AuthInit => CallsAwaited
  BY DEF AuthInit, Idle, CallsAwaited
<1>2. AuthInv /\ CallsAwaited /\ [AuthNext]_authVars => CallsAwaited'
  BY AwaitedStep
<1> QED
  BY <1>1, <1>2, AuthInvariant, PTL DEF AuthSpec

-----------------------------------------------------------------------------
(* The parts together. *)

(* A run of the parts together is a run of each: a step of another part    *)
(* leaves it as it is.                                                     *)
LEMMA PartsRun == Spec => JobsSpec /\ BatchSpec /\ AuthSpec
<1>1. Init => JobsInit /\ BatchInit /\ AuthInit
  BY DEF Init
<1>2. [Next]_<<jobsVars, batchVars, authVars, part>>
        => [JobsNext]_jobsVars /\ [BatchNext]_batchVars /\ [AuthNext]_authVars
  BY DEF Next, OfJobs, OfBatch, OfSession
<1> QED
  BY <1>1, <1>2, PTL DEF Spec, JobsSpec, BatchSpec, AuthSpec

(* The job queue, the batches and the session keep their shapes, and a row *)
(* of the queue has a lease exactly while it is being processed, for any   *)
(* number of processes, jobs, requests, users and faults.                  *)
THEOREM PortTypeCorrect == Spec => []TypeOK
<1>1. JobsTypeOK /\ BatchTypeOK /\ AuthTypeOK => TypeOK
  BY DEF TypeOK
<1> QED
  BY <1>1, PartsRun, PortJobsTypeCorrect, BatchTypeCorrect, SessionTypeCorrect, PTL

(* What the run port checks of safety, for every value of the constants:   *)
(* batches are all or nothing and implement AtomicBatch, the session's     *)
(* storage follows its store and requests are sent as their owner; and     *)
(* with one process whose handlers return before their lease ends, no job  *)
(* runs twice at once and the queue keeps the life cycle of the Go queue.  *)
THEOREM PortIsSafe ==
  /\ Spec => []AllOrNothing /\ BatchesLand /\ []PersistsLatest /\ SentAsOwner
  /\ OneProcess /\ MaxRun <= LockDuration => (Spec => []ClaimedOnce /\ SameLifecycle)
<1>1. Spec => []AllOrNothing /\ BatchesLand /\ []PersistsLatest /\ SentAsOwner
  BY PartsRun, BatchesAreAtomic, BatchesRefine, StorageFollows, CallsKeepOwner
<1>2. ASSUME OneProcess, MaxRun <= LockDuration PROVE Spec => []ClaimedOnce /\ SameLifecycle
  BY <1>2, PartsRun, PortClaimsOnce, PortKeepsLifecycle
<1> QED
  BY <1>1, <1>2
=============================================================================
