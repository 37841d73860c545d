--------------------------- MODULE PocketlessJobs ---------------------------
(***************************************************************************)
(* The job queue of the TypeScript port (plugins/jobs/register.ts).  A     *)
(* process runs JavaScript: a method runs to its end without another of    *)
(* the process in between, so only the statements of another process on    *)
(* the same database come between two statements of a method (sync).       *)
(* MemoryJobsStore keeps the same rows in a Map of its one process.        *)
(*                                                                         *)
(* Times are relative: due counts ticks to runAt, lease ticks until        *)
(* lockedUntil < now, 0 when it is.                                        *)
(***************************************************************************)
EXTENDS Integers, FiniteSets

CONSTANTS
  Jobs,
  Processes,    \* servers sharing the database
  Stores,       \* which of "db", "memory" are instantiated
  NoLease,      \* lockedUntil = NULL
  NoSync,
  Workers,      \* config.workers
  BatchSize,    \* config.batchSize
  LockDuration, \* config.lockDuration
  RetryLimits,  \* the maxRetries callers pass
  Delays,       \* ticks from enqueue to runAt callers pass
  MaxRun,       \* assumption: ticks a handler takes
  MaxEvents     \* bound: crashes, stops and requeues

ASSUME PocketlessJobsAssumption ==
  /\ Stores \subseteq {"db", "memory"}
  /\ Workers \in Nat \ {0} /\ BatchSize \in Nat \ {0} /\ LockDuration \in Nat \ {0}
  /\ RetryLimits \subseteq Nat \ {0} /\ Delays \subseteq Nat
  /\ MaxRun \in Nat /\ MaxEvents \in Nat
  /\ NoLease \notin Nat
  /\ "memory" \in Stores => Cardinality(Processes) = 1

VARIABLES
  store,   \* the implementation of JobsStore
  row,     \* _jobs, or the Map
  proc,    \* "down", "stopped" (dispatcher = null) or "polling"
  sync,    \* the method a process is in the middle of
  runs,    \* handlers that have not returned, and whether activeWorkers of the
           \* present dispatcher counts them
  events

jobsVars == <<store, row, proc, sync, runs, events>>

Stored == {"pending", "processing", "completed", "failed"}

JobsInit ==
  /\ store \in Stores
  /\ row = [j \in Jobs |-> [status |-> "unborn", due |-> 0, lease |-> NoLease,
                            retries |-> 0, max |-> 1]]
  /\ proc = [p \in Processes |-> "stopped"]
  /\ sync = [p \in Processes |-> NoSync]
  /\ runs = {}
  /\ events = 0

-----------------------------------------------------------------------------
Free(p) == proc[p] # "down" /\ sync[p] = NoSync

Exists(j) == row[j].status \in Stored

(* UPDATE _jobs ... WHERE id = ?: nothing when the row is gone. *)
Update(j, r) == row' = IF Exists(j) THEN [row EXCEPT ![j] = r] ELSE row

Enter(p, s) == sync' = [sync EXCEPT ![p] = s]

Event == events < MaxEvents /\ events' = events + 1

Enqueue(p, j) ==
  /\ Free(p) /\ row[j].status = "unborn"
  /\ \E m \in RetryLimits, d \in Delays :
       row' = [row EXCEPT ![j] = [status |-> "pending", due |-> d, lease |-> NoLease,
                                  retries |-> 0, max |-> m]]
  /\ UNCHANGED <<store, proc, sync, runs, events>>

(* delete and requeue: the status is read, then the row is written by id.  *)
(* A row that is gone keeps no count of retries.                           *)
Check(p, j) ==
  /\ Free(p)
  /\ \/ row[j].status \in {"pending", "failed"}
        /\ Enter(p, [pc |-> "delete", job |-> j])
        /\ UNCHANGED events
     \/ row[j].status = "failed" /\ Enter(p, [pc |-> "requeue", job |-> j]) /\ Event
  /\ UNCHANGED <<store, row, proc, runs>>

DeleteRow(p) ==
  /\ sync[p] # NoSync /\ sync[p].pc = "delete"
  /\ Update(sync[p].job, [row[sync[p].job] EXCEPT !.status = "deleted", !.retries = 0,
                                                   !.lease = NoLease])
  /\ Enter(p, NoSync)
  /\ UNCHANGED <<store, proc, runs, events>>

RequeueRow(p) ==
  /\ sync[p] # NoSync /\ sync[p].pc = "requeue"
  /\ Update(sync[p].job, [row[sync[p].job] EXCEPT !.status = "pending", !.retries = 0,
                                                   !.due = 0, !.lease = NoLease])
  /\ Enter(p, NoSync)
  /\ UNCHANGED <<store, proc, runs, events>>

-----------------------------------------------------------------------------
(* Mutant: stuck jobs are not looked for. *)
ReadyPending ==
  {j \in Jobs : row[j].status = "pending" /\ row[j].due = 0}

(* Mutant: the lease is not looked at. *)
ReadyLeased ==
  {j \in Jobs : row[j].status \in {"pending", "processing"} /\ row[j].due = 0}

Ready ==
  {j \in Jobs : /\ row[j].status \in {"pending", "processing"}
                /\ row[j].due = 0
                /\ row[j].lease \in {NoLease, 0}}

(* The timer: fetchAndLock selects up to batchSize rows ... *)
Select(p) ==
  /\ Free(p) /\ proc[p] = "polling"
  /\ Ready # {}
  /\ \E todo \in SUBSET Ready :
       /\ todo = Ready \/ Cardinality(todo) = BatchSize
       /\ Cardinality(todo) <= BatchSize
       /\ Enter(p, [pc |-> "lock", todo |-> todo, got |-> {}])
  /\ UNCHANGED <<store, row, proc, runs, events>>

(* ... locks them one by one, by id ... *)
Lock(p) ==
  /\ sync[p] # NoSync /\ sync[p].pc = "lock"
  /\ \E j \in sync[p].todo :
       /\ Update(j, [row[j] EXCEPT !.status = "processing", !.lease = LockDuration + 1])
       /\ Enter(p, [sync[p] EXCEPT !.todo = @ \ {j}, !.got = @ \cup {j}])
  /\ UNCHANGED <<store, proc, runs, events>>

Active(p) == Cardinality({r \in runs : r.proc = p /\ r.counted})

(* ... and starts as many as there are workers left; the rest stay locked. *)
Execute(p) ==
  LET got  == sync[p].got
      room == IF Active(p) < Workers THEN Workers - Active(p) ELSE 0 IN
  /\ sync[p] # NoSync /\ sync[p].pc = "lock" /\ sync[p].todo = {}
  /\ \E started \in SUBSET got :
       /\ Cardinality(started) = IF Cardinality(got) < room THEN Cardinality(got) ELSE room
       /\ runs' = runs \cup {[proc |-> p, job |-> j, counted |-> TRUE, age |-> 0] : j \in started}
  /\ Enter(p, NoSync)
  /\ UNCHANGED <<store, row, proc, events>>

(* handleSuccess *)
Succeed(r) ==
  /\ Free(r.proc)
  /\ runs' = runs \ {r}
  /\ Update(r.job, [row[r.job] EXCEPT !.status = "completed", !.lease = NoLease])
  /\ UNCHANGED <<store, proc, sync, events>>

(* handleFailure: read retries and maxRetries, then write by id. *)
Fail(r) ==
  /\ Free(r.proc)
  /\ runs' = runs \ {r}
  /\ IF Exists(r.job)
       THEN Enter(r.proc, [pc |-> "fail", job |-> r.job, retries |-> row[r.job].retries,
                           max |-> row[r.job].max])
       ELSE UNCHANGED sync
  /\ UNCHANGED <<store, row, proc, events>>

(* retryCount * retryCount minutes. *)
Backoff(k) == k * k

(* Mutant: <= for <. *)
RetryableOnceMore(s) == s.retries + 1 <= s.max

Retryable(s) == s.retries + 1 < s.max

FailRow(p) ==
  LET s == sync[p] IN
  /\ s # NoSync /\ s.pc = "fail"
  /\ Update(s.job,
       IF Retryable(s)
       THEN [row[s.job] EXCEPT !.status = "pending", !.retries = s.retries + 1,
                               !.due = Backoff(s.retries + 1), !.lease = NoLease]
       ELSE [row[s.job] EXCEPT !.status = "failed", !.lease = NoLease])
  /\ Enter(p, NoSync)
  /\ UNCHANGED <<store, proc, runs, events>>

-----------------------------------------------------------------------------
Start(p) ==
  /\ Free(p) /\ proc[p] = "stopped"
  /\ proc' = [proc EXCEPT ![p] = "polling"]
  /\ UNCHANGED <<store, row, sync, runs, events>>

(* The timer is cleared and the dispatcher forgotten, with its count of    *)
(* active workers; its handlers go on.                                     *)
Stop(p) ==
  /\ Free(p) /\ proc[p] = "polling" /\ Event
  /\ proc' = [proc EXCEPT ![p] = "stopped"]
  /\ runs' = {[r EXCEPT !.counted = @ /\ r.proc # p] : r \in runs}
  /\ UNCHANGED <<store, row, sync>>

(* The rows of a memory store die with it; its next life is another Init.  *)
Crash(p) ==
  /\ store = "db" /\ proc[p] # "down" /\ Event
  /\ proc' = [proc EXCEPT ![p] = "down"]
  /\ runs' = {r \in runs : r.proc # p}
  /\ Enter(p, NoSync)
  /\ UNCHANGED <<store, row>>

(* The constructor: _recoverStuckJobs. *)
Boot(p) ==
  /\ proc[p] = "down"
  /\ proc' = [proc EXCEPT ![p] = "stopped"]
  /\ row' = [j \in Jobs |->
               IF row[j].status = "processing" /\ row[j].lease = 0
               THEN [row[j] EXCEPT !.status = "pending", !.lease = NoLease]
               ELSE row[j]]
  /\ UNCHANGED <<store, sync, runs, events>>

Earlier(t) == IF t \in {NoLease, 0} THEN t ELSE t - 1

(* A method takes no tick; a handler takes up to MaxRun. *)
Tick ==
  /\ \A p \in Processes : sync[p] = NoSync
  /\ \A r \in runs : r.age < MaxRun
  /\ \E j \in Jobs : Earlier(row[j].due) # row[j].due \/ Earlier(row[j].lease) # row[j].lease
  /\ row' = [j \in Jobs |-> [row[j] EXCEPT !.due = Earlier(@), !.lease = Earlier(@)]]
  /\ runs' = {[r EXCEPT !.age = @ + 1] : r \in runs}
  /\ UNCHANGED <<store, proc, sync, events>>

Step(p) == Select(p) \/ Lock(p) \/ Execute(p) \/ FailRow(p) \/ DeleteRow(p) \/ RequeueRow(p)

Return(p) == \E r \in runs : r.proc = p /\ (Succeed(r) \/ Fail(r))

JobsNext ==
  \/ \E p \in Processes :
       \/ \E j \in Jobs : Enqueue(p, j) \/ Check(p, j)
       \/ Step(p) \/ Return(p)
       \/ Start(p) \/ Stop(p) \/ Crash(p) \/ Boot(p)
  \/ Tick

JobsSpec == JobsInit /\ [][JobsNext]_jobsVars

-----------------------------------------------------------------------------
Row == [status : Stored \cup {"unborn", "deleted"}, due : Nat, lease : Nat \cup {NoLease},
        retries : Nat, max : Nat \ {0}]

Methods ==
  [pc : {"delete", "requeue"}, job : Jobs]
  \cup [pc : {"lock"}, todo : SUBSET Jobs, got : SUBSET Jobs]
  \cup [pc : {"fail"}, job : Jobs, retries : Nat, max : Nat \ {0}]

(* Shapes; and a row has a lease exactly while it is being processed, which *)
(* both queries for stuck jobs rely on (lockedUntil IS NOT NULL).           *)
JobsTypeOK ==
  /\ store \in {"db", "memory"}
  /\ row \in [Jobs -> Row]
  /\ proc \in [Processes -> {"down", "stopped", "polling"}]
  /\ sync \in [Processes -> Methods \cup {NoSync}]
  /\ runs \subseteq [proc : Processes, job : Jobs, counted : BOOLEAN, age : Nat]
  /\ events \in Nat
  /\ \A j \in Jobs : row[j].lease # NoLease <=> row[j].status = "processing"

(* With one process on the database: no job is run twice at the same time, *)
(* although a stop and a start leave handlers that the new dispatcher does *)
(* not count, a crash and a restart leave leases, and a requeue and the    *)
(* poll take jobs again, while handlers return before their lease ends.    *)
(* With two processes it is false, because ClaimedByOne is.                *)
ClaimedOnce == \A r1, r2 \in runs : r1.job = r2.job => r1 = r2

(* fetchAndLock pulls and locks a batch in a transaction (事务原子性,          *)
(* register.ts:638): two processes do not run one job at the same time.    *)
ClaimedByOne == \A r1, r2 \in runs : r1.job = r2.job => r1.proc = r2.proc

(* The port's queue makes the promise of the Go queue; its restart may     *)
(* also take back a job that is being processed, if its lease is over and  *)
(* nobody runs it.                                                         *)
Life == INSTANCE JobLifecycle WITH
  Limits <- RetryLimits,
  status <- [j \in Jobs |-> row[j].status],
  tries  <- [j \in Jobs |-> row[j].retries],
  limit  <- [j \in Jobs |-> row[j].max]

TakenBack ==
  \A j \in Jobs :
    /\ row'[j].retries = row[j].retries /\ row'[j].max = row[j].max
    /\ row'[j].status # row[j].status =>
         /\ row[j].status = "processing" /\ row[j].lease = 0 /\ row'[j].status = "pending"
         /\ \A r \in runs : r.job # j

SameLifecycle ==
  Life!Init /\ [][Life!Next \/ TakenBack]_(Life!vars)

(* A job that waits or is being processed is settled: by the poll, by the   *)
(* end of a lease nobody runs under (a batch larger than the free workers), *)
(* or after a restart.                                                      *)
JobsSettle ==
  \A j \in Jobs :
    row[j].status \in {"pending", "processing"}
      ~> row[j].status \in {"completed", "failed", "deleted"}
=============================================================================
