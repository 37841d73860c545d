-------------------------------- MODULE Jobs --------------------------------
(***************************************************************************)
(* The durable job queue of plugins/jobs: the _jobs table, and on every    *)
(* application instance (node) a Dispatcher whose poll loop claims rows    *)
(* and whose goroutines run the registered handlers and write the result   *)
(* back.  store.go holds the table operations, dispatcher.go the rest.     *)
(*                                                                         *)
(* Times are kept relative to the clock: row[j].due is run_at - now and    *)
(* row[j].lock is locked_until - now, counted down by Tick and never below *)
(* Floor, under which no comparison of the code can tell two values apart. *)
(* One clock step stands for one minute of the retry schedule.             *)
(***************************************************************************)
EXTENDS Integers, FiniteSets

CONSTANTS
  Jobs,          \* identifiers generateJobID may hand out
  Topics,
  Nodes,         \* application instances sharing the database
  NoLock,        \* SQL NULL in locked_until
  NoJob,
  Workers,       \* config.Workers, the capacity of workerPool
  BatchSize,     \* config.BatchSize
  LockDuration,  \* config.LockDuration
  Delays,        \* values of run_at - now that callers pass to EnqueueAt
  RetryLimits,   \* values of max_retries that callers pass
  Slots,         \* bound: goroutines one node may have alive
  MaxPoll,       \* bound: clock steps one poll may take
  MaxRuns,       \* bound: where the history of handler calls stops counting
  MaxFaults      \* bound: crashes and failed SQL statements

ASSUME JobsAssumption ==
  /\ NoLock \notin Int
  /\ NoJob \notin Jobs
  /\ Workers \in Nat \ {0}
  /\ BatchSize \in Nat \ {0}
  /\ LockDuration \in Nat \ {0}
  /\ Delays \subseteq Int
  /\ RetryLimits \subseteq Nat \ {0}
  /\ MaxPoll \in Nat
  /\ MaxFaults \in Nat
  /\ MaxRuns \in Nat

VARIABLES
  row,       \* the _jobs table
  disp,      \* the Dispatcher of each node: "stopped", "running", "stopping"
  poll,      \* its pollLoop goroutine
  att,       \* its executeJob goroutines, from the claim to the result
  handlers,  \* JobStore.handlers: topics registered on the node
  faults,    \* faults so far (bound only)
  runs       \* history: handler calls per job since it was last enqueued

vars == <<row, disp, poll, att, handlers, faults, runs>>

-----------------------------------------------------------------------------
Floor == -(MaxPoll + 1)

Older(t) == IF t > Floor THEN t - 1 ELSE t

OlderLock(l) == IF l = NoLock THEN NoLock ELSE Older(l)

(* handleFailure: retryCount * retryCount minutes. *)
Backoff(k) == k * k

Ids == Nodes \X Slots

IdsOf(n) == {n} \X Slots

Stored == {"pending", "processing", "completed", "failed"}

Row == [ status  : Stored \cup {"unborn", "deleted"},
         topic   : Topics,
         due     : Int,
         lock    : Int \cup {NoLock},
         retries : Nat,
         max     : Nat \ {0} ]

Attempt == [ phase   : {"free", "claimed", "queued", "running"},
             job     : Jobs \cup {NoJob},
             retries : Nat,
             max     : Nat,
             lease   : Int ]

Free == [phase |-> "free", job |-> NoJob, retries |-> 0, max |-> 0, lease |-> 0]

Live(a) == att[a].phase # "free"

Running(n) == {a \in IdsOf(n) : att[a].phase = "running"}

Claimed(n) == {a \in IdsOf(n) : att[a].phase = "claimed"}

FreeIds(n) == {a \in IdsOf(n) : ~Live(a)}

NoPoll == [phase |-> "idle", age |-> 0, topics |-> {}]

Exited == [NoPoll EXCEPT !.phase = "exited"]

(* Mutant: the claim forgets the lock. *)
LockIgnored(n, j) == TRUE

(* Mutant: locked_until <= now. *)
ExpiredEarly(n, j) == row[j].lock # NoLock /\ row[j].lock <= -poll[n].age

(* Mutant: no crash recovery. *)
NeverExpired(n, j) == FALSE

(* locked_until < {:now}, with {:now} the time the poll began. *)
Expired(n, j) == row[j].lock < -poll[n].age

TopicKnown(n, j) == row[j].topic \in poll[n].topics

(* The WHERE clause of the claim. *)
Claimable(n, j) ==
  /\ TopicKnown(n, j)
  /\ \/ /\ row[j].status = "pending"
        /\ row[j].due <= -poll[n].age
        /\ row[j].lock # NoLock => Expired(n, j)
     \/ row[j].status = "processing" /\ Expired(n, j)

(* Mutant: retries + 1 <= max_retries. *)
RetryableOnceMore(a) == att[a].retries + 1 <= att[a].max

(* handleFailure decides with the copy of retries made by the claim. *)
Retryable(a) == att[a].retries + 1 < att[a].max

(* UPDATE _jobs SET status = s, run_at = now + d, locked_until = l,        *)
(* retries = k WHERE id = j                                                *)
Set(j, s, d, l, k) ==
  row' = [row EXCEPT ![j] = [status |-> s, topic |-> row[j].topic, due |-> d,
                             lock |-> l, retries |-> k, max |-> row[j].max]]

(* Mutant: retries = retries + 1 forgotten. *)
RescheduleUncounted(j, k) == Set(j, "pending", Backoff(k), NoLock, row[j].retries)

(* handleFailure: the k-th retry. *)
Reschedule(j, k) == Set(j, "pending", Backoff(k), NoLock, row[j].retries + 1)

(* handleSuccess, and handleFailure when no retry is left. *)
Finish(j, s) == Set(j, s, row[j].due, NoLock, row[j].retries)

-----------------------------------------------------------------------------
Init ==
  /\ row \in [Jobs -> { [status |-> "unborn", topic |-> t, due |-> 0,
                         lock |-> NoLock, retries |-> 0, max |-> 1]
                        : t \in Topics }]
  /\ disp = [n \in Nodes |-> "stopped"]
  /\ poll = [n \in Nodes |-> Exited]
  /\ att = [a \in Ids |-> Free]
  /\ handlers = [n \in Nodes |-> {}]
  /\ faults = 0
  /\ runs = [j \in Jobs |-> 0]

(* EnqueueWithOptions: INSERT with status pending and locked_until NULL. *)
Enqueue(j, d, m) ==
  /\ row[j].status = "unborn"
  /\ row' = [row EXCEPT ![j] = [status |-> "pending", topic |-> row[j].topic, due |-> d,
                                lock |-> NoLock, retries |-> 0, max |-> m]]
  /\ UNCHANGED <<disp, poll, att, handlers, faults, runs>>

Delete(j) ==
  /\ row[j].status \in {"pending", "failed"}
  /\ Set(j, "deleted", 0, row[j].lock, 0)
  /\ runs' = [runs EXCEPT ![j] = 0]
  /\ UNCHANGED <<disp, poll, att, handlers, faults>>

(* Mutant: requeue takes any finished job. *)
RequeueFinished(j) ==
  /\ row[j].status \in {"failed", "completed"}
  /\ Set(j, "pending", 0, NoLock, 0)
  /\ runs' = [runs EXCEPT ![j] = 0]
  /\ UNCHANGED <<disp, poll, att, handlers, faults>>

Requeue(j) ==
  /\ row[j].status = "failed"
  /\ Set(j, "pending", 0, NoLock, 0)
  /\ runs' = [runs EXCEPT ![j] = 0]
  /\ UNCHANGED <<disp, poll, att, handlers, faults>>

Register(n, t) ==
  /\ t \notin handlers[n]
  /\ handlers' = [handlers EXCEPT ![n] = @ \cup {t}]
  /\ UNCHANGED <<row, disp, poll, att, faults, runs>>

-----------------------------------------------------------------------------
Start(n) ==
  /\ disp[n] = "stopped"
  /\ disp' = [disp EXCEPT ![n] = "running"]
  /\ poll' = [poll EXCEPT ![n] = NoPoll]
  /\ UNCHANGED <<row, att, handlers, faults, runs>>

(* Dispatcher.Stop: cancel the context, then wait for every goroutine. *)
Stop(n) ==
  /\ disp[n] = "running"
  /\ disp' = [disp EXCEPT ![n] = "stopping"]
  /\ UNCHANGED <<row, poll, att, handlers, faults, runs>>

(* Mutant: executeJob is not counted in the WaitGroup. *)
StopReturnEarly(n) ==
  /\ disp[n] = "stopping"
  /\ poll[n].phase = "exited"
  /\ disp' = [disp EXCEPT ![n] = "stopped"]
  /\ UNCHANGED <<row, poll, att, handlers, faults, runs>>

StopReturn(n) ==
  /\ disp[n] = "stopping"
  /\ poll[n].phase = "exited"
  /\ \A a \in IdsOf(n) : ~Live(a)
  /\ disp' = [disp EXCEPT ![n] = "stopped"]
  /\ UNCHANGED <<row, poll, att, handlers, faults, runs>>

(* The process dies: everything in memory is gone, the table stays. *)
Crash(n) ==
  /\ disp[n] # "stopped"
  /\ faults < MaxFaults
  /\ faults' = faults + 1
  /\ disp' = [disp EXCEPT ![n] = "stopped"]
  /\ poll' = [poll EXCEPT ![n] = Exited]
  /\ att' = [a \in Ids |-> IF a \in IdsOf(n) THEN Free ELSE att[a]]
  /\ handlers' = [handlers EXCEPT ![n] = {}]
  /\ UNCHANGED <<row, runs>>

-----------------------------------------------------------------------------
(* pollLoop: the ticker fired.  select picks at random when the context is *)
(* cancelled as well, so a stopping dispatcher may poll once more.         *)
PollBegin(n) ==
  /\ poll[n].phase = "idle"
  /\ handlers[n] # {}
  /\ poll' = [poll EXCEPT ![n] = [phase |-> "claiming", age |-> 0,
                                  topics |-> handlers[n]]]
  /\ UNCHANGED <<row, disp, att, handlers, faults, runs>>

(* Mutant: the loop looks at the context only when it has topics. *)
PollExitLate(n) ==
  /\ disp[n] = "stopping"
  /\ poll[n].phase = "idle"
  /\ handlers[n] # {}
  /\ poll' = [poll EXCEPT ![n] = Exited]
  /\ UNCHANGED <<row, disp, att, handlers, faults, runs>>

PollExit(n) ==
  /\ disp[n] = "stopping"
  /\ poll[n].phase = "idle"
  /\ poll' = [poll EXCEPT ![n] = Exited]
  /\ UNCHANGED <<row, disp, att, handlers, faults, runs>>

(* fetchOneJobSQLite: one UPDATE ... RETURNING, earliest run_at first. *)
Claim(n, j) ==
  /\ poll[n].phase = "claiming"
  /\ Cardinality(Claimed(n)) < BatchSize
  /\ Claimable(n, j)
  /\ \A k \in Jobs : Claimable(n, k) => row[j].due <= row[k].due
  /\ FreeIds(n) # {}
  /\ LET a == CHOOSE b \in FreeIds(n) : TRUE
         until == LockDuration - poll[n].age
     IN  /\ Set(j, "processing", row[j].due, until, row[j].retries)
         /\ att' = [att EXCEPT ![a] =
                      [phase |-> "claimed", job |-> j, lease |-> until,
                       retries |-> row[j].retries, max |-> row[j].max]]
  /\ UNCHANGED <<disp, poll, handlers, faults, runs>>

(* fetchAndExecute: go executeJob for every claimed row. *)
Dispatch(n) ==
  /\ poll' = [poll EXCEPT ![n] = NoPoll]
  /\ att' = [a \in Ids |-> IF a \in Claimed(n)
                           THEN [att[a] EXCEPT !.phase = "queued"] ELSE att[a]]
  /\ UNCHANGED <<row, disp, handlers, runs>>

PollEnd(n) ==
  /\ poll[n].phase = "claiming"
  /\ \/ Cardinality(Claimed(n)) = BatchSize
     \/ FreeIds(n) = {}
     \/ \A j \in Jobs : ~Claimable(n, j)
  /\ Dispatch(n)
  /\ UNCHANGED faults

(* A claim returns an error: the loop breaks, what it has is dispatched. *)
PollFail(n) ==
  /\ poll[n].phase = "claiming"
  /\ faults < MaxFaults
  /\ faults' = faults + 1
  /\ Dispatch(n)

-----------------------------------------------------------------------------
(* executeJob: take a slot of workerPool and call the handler. *)
Execute(n, a) ==
  /\ att[a].phase = "queued"
  /\ Cardinality(Running(n)) < Workers
  /\ att' = [att EXCEPT ![a].phase = "running"]
  /\ runs' = [runs EXCEPT ![att[a].job] = IF @ < MaxRuns THEN @ + 1 ELSE @]
  /\ UNCHANGED <<row, disp, poll, handlers, faults>>

(* executeJob: the context was cancelled before a slot was free. *)
Abandon(n, a) ==
  /\ att[a].phase = "queued"
  /\ disp[n] = "stopping"
  /\ att' = [att EXCEPT ![a] = Free]
  /\ UNCHANGED <<row, disp, poll, handlers, faults, runs>>

(* handleSuccess: WHERE id = j finds nothing if the row was deleted. *)
Succeed(n, a) ==
  /\ att[a].phase = "running"
  /\ LET j == att[a].job IN
       \/ row[j].status \in Stored /\ Finish(j, "completed")
       \/ row[j].status \notin Stored /\ UNCHANGED row
  /\ att' = [att EXCEPT ![a] = Free]
  /\ UNCHANGED <<disp, poll, handlers, faults, runs>>

(* handleFailure, for an error or a recovered panic. *)
Fail(n, a) ==
  /\ att[a].phase = "running"
  /\ LET j == att[a].job IN
       \/ row[j].status \in Stored /\ Retryable(a) /\ Reschedule(j, att[a].retries + 1)
       \/ row[j].status \in Stored /\ ~Retryable(a) /\ Finish(j, "failed")
       \/ row[j].status \notin Stored /\ UNCHANGED row
  /\ att' = [att EXCEPT ![a] = Free]
  /\ UNCHANGED <<disp, poll, handlers, faults, runs>>

(* The UPDATE of handleSuccess or handleFailure fails: only logged. *)
ResultLost(n, a) ==
  /\ att[a].phase = "running"
  /\ faults < MaxFaults
  /\ faults' = faults + 1
  /\ att' = [att EXCEPT ![a] = Free]
  /\ UNCHANGED <<row, disp, poll, handlers, runs>>

-----------------------------------------------------------------------------
Tick ==
  /\ \A n \in Nodes : poll[n].phase = "claiming" => poll[n].age < MaxPoll
  /\ row' = [j \in Jobs |->
               IF row[j].status \notin Stored THEN row[j]
               ELSE [status |-> row[j].status, topic |-> row[j].topic,
                     due |-> Older(row[j].due), lock |-> OlderLock(row[j].lock),
                     retries |-> row[j].retries, max |-> row[j].max]]
  /\ poll' = [n \in Nodes |-> IF poll[n].phase = "claiming"
                              THEN [poll[n] EXCEPT !.age = @ + 1] ELSE poll[n]]
  /\ att' = [a \in Ids |-> IF Live(a) THEN [att[a] EXCEPT !.lease = Older(@)]
                           ELSE att[a]]
  /\ UNCHANGED <<disp, handlers, faults, runs>>

Worker(n) == \E a \in IdsOf(n) :
  Execute(n, a) \/ Abandon(n, a) \/ Succeed(n, a) \/ Fail(n, a) \/ ResultLost(n, a)

Poller(n) ==
  \/ PollBegin(n) \/ PollExit(n) \/ PollEnd(n) \/ PollFail(n)
  \/ \E j \in Jobs : Claim(n, j)

Caller ==
  \/ \E j \in Jobs : Delete(j) \/ Requeue(j)
  \/ \E j \in Jobs, d \in Delays, m \in RetryLimits : Enqueue(j, d, m)

Admin(n) == Start(n) \/ Stop(n) \/ StopReturn(n) \/ \E t \in Topics : Register(n, t)

Next ==
  \/ Caller
  \/ \E n \in Nodes : Admin(n) \/ Crash(n) \/ Poller(n) \/ Worker(n)
  \/ Tick

Spec == Init /\ [][Next]_vars

(* The operating condition of config.LockDuration ("Worker execution       *)
(* timeout"): an attempt is over, or its process dead, before its lease    *)
(* expires.  The code does not enforce it; TimelySpec assumes it.          *)
Timely == \A a \in Ids : Live(a) => att[a].lease >= 0

TimelyNext == Next /\ Timely'

TimelySpec == Init /\ [][TimelyNext]_vars

-----------------------------------------------------------------------------
RowOK == row \in [Jobs -> Row]

AttOK == att \in [Ids -> Attempt] /\ \A a \in Ids : Live(a) => att[a].job \in Jobs

Poll == [phase : {"idle", "claiming", "exited"}, age : Nat, topics : SUBSET Topics]

NodeOK ==
  /\ disp \in [Nodes -> {"stopped", "running", "stopping"}]
  /\ poll \in [Nodes -> Poll]
  /\ handlers \in [Nodes -> SUBSET Topics]

CountOK == faults \in Nat /\ runs \in [Jobs -> Nat]

(* Every value has its type, retries of row and attempt included. *)
TypeOK == RowOK /\ AttOK /\ NodeOK /\ CountOK

(* Stop waits for everything Start began: a stopped dispatcher has neither *)
(* a poll loop nor a goroutine that could still write a result, and no     *)
(* more than Workers handlers run on a node at once, whatever the polls.   *)
StopQuiescent ==
  \A n \in Nodes :
    /\ disp[n] = "stopped" => poll[n].phase = "exited" /\ \A a \in IdsOf(n) : ~Live(a)
    /\ Cardinality(Running(n)) <= Workers

(* While attempts are timely, each owns its row: the row is processing,    *)
(* its lock is the attempt's lease, and the copy of retries and max that   *)
(* handleFailure will decide with is still the row's.                      *)
LeaseOwned ==
  \A a \in Ids : Live(a) =>
    LET r == row[att[a].job] IN
      /\ r.status = "processing"
      /\ r.lock = att[a].lease
      /\ r.retries = att[a].retries
      /\ r.max = att[a].max

(* No two live attempts are at the same job: with LeaseOwned, inductive. *)
OneAttempt == \A a, b \in Ids : Live(a) /\ Live(b) /\ att[a].job = att[b].job => a = b

(* Two attempts whose leases have not expired are never at the same job,   *)
(* on one node or on two.                                                  *)
LeaseExclusive ==
  \A a, b \in Ids :
    /\ Live(a) /\ Live(b) /\ att[a].job = att[b].job
    /\ att[a].lease >= 0 /\ att[b].lease >= 0
    => a = b

(* max_retries bounds the calls of the handler: a job runs at most that    *)
(* often, plus once for every crash or failed result write, and is given   *)
(* up (dead letter) only after it has been tried that often.               *)
ExecutionBudget ==
  \A j \in Jobs :
    /\ runs[j] <= row[j].max + faults
    /\ row[j].status = "failed" /\ runs[j] < MaxRuns => runs[j] >= row[j].max

(* A completed job is done: no later poll, retry, requeue or deletion and  *)
(* no late result of another attempt takes it out of that state.           *)
CompletedFinal ==
  [][\A j \in Jobs : row[j].status = "completed" => row'[j].status = "completed"]_vars

-----------------------------------------------------------------------------
Lifecycle == INSTANCE JobLifecycle WITH
  Limits <- RetryLimits,
  status <- [j \in Jobs |-> row[j].status],
  tries  <- [j \in Jobs |-> row[j].retries],
  limit  <- [j \in Jobs |-> row[j].max]

(* While attempts are timely the queue keeps the promise of JobLifecycle:  *)
(* each row moves only along pending, processing, completed or failed, and *)
(* is retried or given up exactly by the number of its failed tries.       *)
LifecycleSpec == Lifecycle!Spec

-----------------------------------------------------------------------------
(* The clock runs, goroutines are scheduled, and handlers return.  Strong  *)
(* fairness where the runtime gives more than weak: waiters on the         *)
(* workerPool channel are served in order, select in pollLoop chooses at   *)
(* random between a tick and the cancelled context, and only the bound     *)
(* MaxPoll makes the clock wait for a poll.                                *)
Fairness ==
  /\ SF_vars(Tick)
  /\ \A n \in Nodes :
       /\ WF_vars(PollBegin(n))
       /\ WF_vars(\E j \in Jobs : Claim(n, j))
       /\ WF_vars(PollEnd(n))
       /\ SF_vars(PollExit(n))
       /\ WF_vars(StopReturn(n))
       /\ \A a \in IdsOf(n) : SF_vars(Execute(n, a)) /\ WF_vars(Succeed(n, a) \/ Fail(n, a))

FairSpec == Spec /\ Fairness

(* No job is forgotten: once every node stays up with its handlers         *)
(* registered, a job that waits, or that a dead node left in processing,   *)
(* is completed, dead-lettered or deleted.                                 *)
Settles ==
  (\A n \in Nodes : <>[](disp[n] = "running" /\ handlers[n] = Topics))
  => \A j \in Jobs : row[j].status \in {"pending", "processing"}
                      ~> row[j].status \in {"completed", "failed", "deleted"}

(* Stop returns: whatever the poll loop and the workers are doing when the *)
(* context is cancelled, wg.Wait is not waited on for ever.                *)
StopReturns == \A n \in Nodes : disp[n] = "stopping" ~> disp[n] = "stopped"
=============================================================================
