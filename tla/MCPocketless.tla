---------------------------- MODULE MCPocketless ----------------------------
(***************************************************************************)
(* Three parts of the TypeScript port and its SDK in one run: part is the  *)
(* one a behaviour is about, the others stay as they are.  Queue and       *)
(* batches would meet if the queue were given the connection of the        *)
(* batches; it is not so here.                                             *)
(***************************************************************************)
EXTENDS PocketlessJobs, Batch, AuthSession, TLC

VARIABLE part

MCPrograms ==
  LET Do(kind, k) == [kind |-> kind, record |-> k]
      k == CHOOSE k \in Records : TRUE IN
  {<<Do("upsert", k)>>, <<Do("update", k), Do("delete", k)>>}

OfJobs(A) == part = "jobs" /\ A

OfBatch(A) == part = "batch" /\ A

OfSession(A) == part = "session" /\ A

Init ==
  /\ part \in {"jobs", "batch", "session"}
  /\ JobsInit /\ BatchInit /\ AuthInit
  /\ part # "jobs" => store = CHOOSE s \in Stores : TRUE

Next ==
  \/ OfJobs(JobsNext) /\ UNCHANGED <<batchVars, authVars, part>>
  \/ OfBatch(BatchNext) /\ UNCHANGED <<jobsVars, authVars, part>>
  \/ OfSession(AuthNext) /\ UNCHANGED <<jobsVars, batchVars, part>>

(* Timers fire, methods and handlers end, a process is restarted and polls. *)
JobsFairness ==
  /\ \A p \in Processes :
       /\ WF_jobsVars(OfJobs(Step(p))) /\ WF_jobsVars(OfJobs(Return(p)))
       /\ WF_jobsVars(OfJobs(Start(p))) /\ WF_jobsVars(OfJobs(Boot(p)))
  /\ WF_jobsVars(OfJobs(Tick))

(* Timers fire, and hooks return unless they hang. *)
BatchFairness ==
  /\ \A r \in Requests : WF_batchVars(OfBatch(Proceed(r)))
  /\ \A b \in Batches :
       WF_batchVars(OfBatch(Begin(b))) /\ WF_batchVars(OfBatch(Timeout(b)))

(* Requests have an answer, or fail. *)
AuthFairness ==
  /\ \A c \in Calls : WF_authVars(OfSession(Answers(c)))
  /\ WF_authVars(OfSession(SignedIn \/ SignInRefused))

Spec == Init /\ [][Next]_<<jobsVars, batchVars, authVars, part>>

FairSpec == Spec /\ JobsFairness /\ BatchFairness /\ AuthFairness

(* The parts keep their shapes. *)
TypeOK == JobsTypeOK /\ BatchTypeOK /\ AuthTypeOK
=============================================================================
