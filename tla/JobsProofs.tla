----------------------------- MODULE JobsProofs -----------------------------
(* Theorems about Jobs, for every number of jobs, nodes, slots and workers. *)
EXTENDS Jobs, FiniteSetTheorems, TLAPS

USE JobsAssumption

LEMMA OlderInt == ASSUME NEW t \in Int PROVE Older(t) \in Int
BY DEF Older, Floor

LEMMA BackoffInt == ASSUME NEW k \in Nat PROVE Backoff(k) \in Int
BY DEF Backoff

LEMMA OlderLockType ==
  ASSUME NEW l \in Int \cup {NoLock} PROVE OlderLock(l) \in Int \cup {NoLock}
BY OlderInt DEF OlderLock

LEMMA SetType ==
  ASSUME row \in [Jobs -> Row], NEW j \in Jobs, NEW s \in Stored \cup {"deleted"},
         NEW d \in Int, NEW l \in Int \cup {NoLock}, NEW k \in Nat, Set(j, s, d, l, k)
  PROVE  row' \in [Jobs -> Row]
BY DEF Set, Row, Stored

LEMMA IdsOfIds == ASSUME NEW n \in Nodes, NEW a \in IdsOf(n) PROVE a \in Ids
BY DEF IdsOf, Ids

(* A goroutine's step: what the result writers start from. *)
LEMMA LiveFacts ==
  ASSUME RowOK, AttOK, NEW a \in Ids, Live(a)
  PROVE  LET j == att[a].job IN
           /\ j \in Jobs
           /\ att[a].retries + 1 \in Nat
           /\ Backoff(att[a].retries + 1) \in Int
           /\ row[j].due \in Int
           /\ row[j].retries \in Nat /\ row[j].retries + 1 \in Nat
BY BackoffInt DEF RowOK, AttOK, Row, Attempt

LEMMA RowStep == TypeOK /\ [Next]_vars => RowOK'
<1> SUFFICES ASSUME TypeOK, [Next]_vars PROVE RowOK'
  OBVIOUS
<1>0. RowOK /\ AttOK /\ NodeOK
  BY DEF TypeOK
<1>1. ASSUME NEW j \in Jobs, NEW d \in Delays, NEW m \in RetryLimits, Enqueue(j, d, m)
      PROVE RowOK'
  <2>1. d \in Int /\ m \in Nat \ {0}
    OBVIOUS
  <2> QED
    BY <1>0, <1>1, <2>1 DEF RowOK, Enqueue, Row, Stored
<1>2. ASSUME NEW j \in Jobs, Delete(j) PROVE RowOK'
  <2>1. row[j].lock \in Int \cup {NoLock}
    BY <1>0 DEF RowOK, Row
  <2>2. Set(j, "deleted", 0, row[j].lock, 0)
    BY <1>2 DEF Delete
  <2> QED
    BY <1>0, <2>1, <2>2 DEF RowOK, Set, Row
<1>3. ASSUME NEW j \in Jobs, Requeue(j) PROVE RowOK'
  <2>1. Set(j, "pending", 0, NoLock, 0)
    BY <1>3 DEF Requeue
  <2> QED
    BY <1>0, <2>1 DEF RowOK, Set, Row, Stored
<1>4. ASSUME NEW n \in Nodes, NEW j \in Jobs, Claim(n, j) PROVE RowOK'
  <2> DEFINE until == LockDuration - poll[n].age
  <2>1. until \in Int
    BY <1>0 DEF NodeOK, Poll
  <2>2. row[j].due \in Int /\ row[j].retries \in Nat
    BY <1>0 DEF RowOK, Row
  <2>3. Set(j, "processing", row[j].due, until, row[j].retries)
    BY <1>4 DEF Claim
  <2> QED
    BY <1>0, <2>1, <2>2, <2>3, SetType DEF RowOK, Stored
<1>5. ASSUME NEW n \in Nodes, NEW a \in IdsOf(n), Fail(n, a) \/ Succeed(n, a)
      PROVE RowOK'
  <2> DEFINE j == att[a].job
             k == att[a].retries + 1
  <2>1. a \in Ids /\ Live(a)
    BY <1>5, IdsOfIds DEF Fail, Succeed, Live
  <2>2. CASE UNCHANGED row
    BY <1>0, <2>2 DEF RowOK
  <2>3. CASE Set(j, "pending", Backoff(k), NoLock, row[j].retries + 1)
    BY <1>0, <2>1, <2>3, LiveFacts, SetType DEF RowOK, Stored
  <2>4. ASSUME NEW s \in {"completed", "failed"}, Set(j, s, row[j].due, NoLock, row[j].retries)
        PROVE RowOK'
    BY <1>0, <2>1, <2>4, LiveFacts, SetType DEF RowOK, Stored
  <2> QED
    BY <1>5, <2>2, <2>3, <2>4 DEF Fail, Succeed, Reschedule, Finish
<1>6. CASE Tick
  BY <1>0, <1>6, OlderInt, OlderLockType DEF RowOK, Tick, Row
<1>7. CASE UNCHANGED row
  BY <1>0, <1>7 DEF RowOK
<1> QED
  BY <1>1, <1>2, <1>3, <1>4, <1>5, <1>6, <1>7
  DEF Next, Caller, Admin, Poller, Worker, Start, Stop, StopReturn, Register, Crash,
      PollBegin, PollExit, PollEnd, PollFail, Dispatch, Execute, Abandon, ResultLost, vars

LEMMA AttStep == TypeOK /\ [Next]_vars => AttOK'
<1> SUFFICES ASSUME TypeOK, [Next]_vars PROVE AttOK'
  OBVIOUS
<1>0. RowOK /\ AttOK /\ NodeOK
  BY DEF TypeOK
<1>1. ASSUME NEW n \in Nodes, Crash(n) PROVE AttOK'
  BY <1>0, <1>1 DEF AttOK, Crash, Free, Attempt, Live
<1>2. ASSUME NEW n \in Nodes, NEW j \in Jobs, Claim(n, j) PROVE AttOK'
  <2> DEFINE b == CHOOSE b \in FreeIds(n) : TRUE
  <2>1. b \in Ids
    BY <1>2, IdsOfIds DEF Claim, FreeIds
  <2>2. LockDuration - poll[n].age \in Int /\ row[j].retries \in Nat /\ row[j].max \in Nat
    BY <1>0 DEF NodeOK, Poll, RowOK, Row
  <2>3. [ phase |-> "claimed", job |-> j, lease |-> LockDuration - poll[n].age,
          retries |-> row[j].retries, max |-> row[j].max ] \in Attempt
    BY <2>2 DEF Attempt
  <2> QED
    BY <1>0, <1>2, <2>1, <2>3 DEF Claim, AttOK, Live
<1>3. ASSUME NEW n \in Nodes, Dispatch(n) PROVE AttOK'
  <2>1. \A a \in Ids : /\ att'[a] \in Attempt
                       /\ att'[a].phase # "free" => att'[a].job \in Jobs
    BY <1>0, <1>3 DEF AttOK, Dispatch, Claimed, Attempt, Live
  <2> QED
    BY <1>3, <2>1 DEF Dispatch, AttOK, Live
<1>4. ASSUME NEW n \in Nodes, NEW a \in IdsOf(n), Execute(n, a) PROVE AttOK'
  BY <1>0, <1>4, IdsOfIds DEF AttOK, Execute, Attempt, Live
<1>5. ASSUME NEW n \in Nodes, NEW a \in IdsOf(n), att' = [att EXCEPT ![a] = Free]
      PROVE AttOK'
  BY <1>0, <1>5, IdsOfIds DEF AttOK, Free, Attempt, Live
<1>6. CASE Tick
  <2>1. \A a \in Ids : /\ att'[a] \in Attempt
                       /\ att'[a].phase # "free" => att'[a].job \in Jobs
    BY <1>0, <1>6, OlderInt DEF AttOK, Tick, Live, Attempt
  <2> QED
    BY <1>6, <2>1 DEF Tick, AttOK, Live
<1>7. CASE UNCHANGED att
  BY <1>0, <1>7 DEF AttOK, Live
<1> QED
  BY <1>1, <1>2, <1>3, <1>4, <1>5, <1>6, <1>7
  DEF Next, Caller, Admin, Poller, Worker, Enqueue, Delete, Requeue, Start, Stop, StopReturn,
      Register, PollBegin, PollExit, PollEnd, PollFail, Abandon, Succeed, Fail, ResultLost, vars

LEMMA NodeStep == TypeOK /\ [Next]_vars => NodeOK'
<1> SUFFICES ASSUME TypeOK, [Next]_vars PROVE NodeOK'
  OBVIOUS
<1>0. NodeOK
  BY DEF TypeOK
<1>1. ASSUME NEW n \in Nodes, Admin(n) \/ Crash(n) PROVE NodeOK'
  BY <1>0, <1>1 DEF NodeOK, Poll, Admin, Start, Stop, StopReturn, Register, Crash, NoPoll, Exited
<1>2. ASSUME NEW n \in Nodes, Dispatch(n) PROVE NodeOK'
  BY <1>0, <1>2 DEF NodeOK, Poll, Dispatch, NoPoll
<1>3. ASSUME NEW n \in Nodes, PollBegin(n) \/ PollExit(n) PROVE NodeOK'
  BY <1>0, <1>3 DEF NodeOK, Poll, PollBegin, PollExit, NoPoll, Exited
<1>4. CASE Tick
  <2>1. \A n \in Nodes : poll[n] \in Poll /\ [poll[n] EXCEPT !.age = @ + 1] \in Poll
    BY <1>0 DEF NodeOK, Poll
  <2>2. /\ poll' = [n \in Nodes |-> IF poll[n].phase = "claiming"
                                    THEN [poll[n] EXCEPT !.age = @ + 1] ELSE poll[n]]
        /\ disp' = disp /\ handlers' = handlers
    BY <1>4 DEF Tick
  <2>3. poll' \in [Nodes -> Poll]
    BY <2>1, <2>2
  <2> QED
    BY <1>0, <2>2, <2>3 DEF NodeOK
<1>5. CASE UNCHANGED <<disp, poll, handlers>>
  BY <1>0, <1>5 DEF NodeOK
<1> QED
  BY <1>1, <1>2, <1>3, <1>4, <1>5
  DEF Next, Caller, Poller, Worker, Enqueue, Delete, Requeue, PollEnd, PollFail, Claim,
      Execute, Abandon, Succeed, Fail, ResultLost, vars

LEMMA CountStep == TypeOK /\ [Next]_vars => CountOK'
<1> SUFFICES ASSUME TypeOK, [Next]_vars PROVE CountOK'
  OBVIOUS
<1>0. CountOK
  BY DEF TypeOK
<1>1. ASSUME NEW j \in Jobs, Delete(j) \/ Requeue(j) PROVE CountOK'
  BY <1>0, <1>1 DEF CountOK, Delete, Requeue
<1>2. ASSUME NEW n \in Nodes, NEW a \in IdsOf(n), Execute(n, a) PROVE CountOK'
  <2>1. att[a].job \in Jobs
    BY <1>2, IdsOfIds DEF TypeOK, AttOK, Execute, Live
  <2> QED
    BY <1>0, <1>2, <2>1 DEF CountOK, Execute
<1>3. CASE runs' = runs /\ (faults' = faults \/ faults' = faults + 1)
  BY <1>0, <1>3 DEF CountOK
<1> QED
  BY <1>1, <1>2, <1>3
  DEF Next, Caller, Admin, Poller, Worker, Enqueue, Start, Stop, StopReturn, Register, Crash,
      PollBegin, PollExit, PollEnd, PollFail, Dispatch, Claim, Abandon, Succeed, Fail,
      ResultLost, Tick, vars

LEMMA TypeInit == Init => TypeOK
BY DEF Init, TypeOK, RowOK, AttOK, NodeOK, CountOK, Row, Poll, Exited, NoPoll, Free, Attempt, Live

(* Types hold whether or not handlers respect their leases. *)
THEOREM TypeCorrect == Spec => []TypeOK
<1>1. Init => TypeOK
  BY TypeInit
<1>2. TypeOK /\ [Next]_vars => TypeOK'
  BY RowStep, AttStep, NodeStep, CountStep DEF TypeOK
<1> QED
  BY <1>1, <1>2, PTL DEF Spec

-----------------------------------------------------------------------------
(* The inductive invariant behind the leases.  Timely is in it because a   *)
(* claim finds a processing row only once its lock has expired, and with   *)
(* Timely and LeaseOwned a row with a live attempt has an unexpired lock.  *)
LeaseInv == TypeOK /\ Timely /\ LeaseOwned /\ OneAttempt

(* A row that a caller may change, or a poll may claim, has no live attempt. *)
LEMMA IdleRow ==
  ASSUME LeaseInv, NEW j \in Jobs,
         \/ row[j].status # "processing"
         \/ \E n \in Nodes : Claimable(n, j)
  PROVE  \A a \in Ids : Live(a) => att[a].job # j
<1> SUFFICES ASSUME NEW a \in Ids, Live(a), att[a].job = j PROVE FALSE
  OBVIOUS
<1>1. row[j].status = "processing" /\ row[j].lock = att[a].lease
  BY DEF LeaseInv, LeaseOwned
<1>2. att[a].lease \in Int /\ att[a].lease >= 0
  BY DEF LeaseInv, Timely, TypeOK, AttOK, Attempt
<1>3. PICK n \in Nodes : Claimable(n, j)
  BY <1>1
<1>4. Expired(n, j)
  BY <1>1, <1>3 DEF Claimable
<1>5. poll[n].age \in Nat
  BY DEF LeaseInv, TypeOK, NodeOK, Poll
<1> QED
  BY <1>1, <1>2, <1>4, <1>5 DEF Expired

(* Changing a row without a live attempt disturbs no attempt. *)
LEMMA OtherRow ==
  ASSUME LeaseInv, NEW j \in Jobs, \A a \in Ids : Live(a) => att[a].job # j,
         \A k \in Jobs : k # j => row'[k] = row[k], UNCHANGED att
  PROVE  LeaseOwned' /\ OneAttempt'
<1>1. \A a \in Ids : Live(a) => att[a].job \in Jobs
  BY DEF LeaseInv, TypeOK, AttOK
<1> QED
  BY <1>1 DEF LeaseInv, LeaseOwned, OneAttempt, Live

(* Ending attempts, or moving them to another phase, keeps the others' rows. *)
LEMMA FewerAttempts ==
  ASSUME LeaseInv, UNCHANGED row,
         \A a \in Ids : att'[a].phase # "free" =>
            /\ Live(a)
            /\ att'[a].job = att[a].job /\ att'[a].lease = att[a].lease
            /\ att'[a].retries = att[a].retries /\ att'[a].max = att[a].max
  PROVE  LeaseOwned' /\ OneAttempt'
BY DEF LeaseInv, LeaseOwned, OneAttempt, Live

LEMMA LeaseStep == LeaseInv /\ [Next]_vars => LeaseOwned' /\ OneAttempt'
<1> SUFFICES ASSUME LeaseInv, [Next]_vars PROVE LeaseOwned' /\ OneAttempt'
  OBVIOUS
<1>0. RowOK /\ AttOK /\ NodeOK
  BY DEF LeaseInv, TypeOK
<1>1. ASSUME NEW j \in Jobs, NEW d \in Delays, NEW m \in RetryLimits, Enqueue(j, d, m)
      PROVE LeaseOwned' /\ OneAttempt'
  <2>1. \A k \in Jobs : k # j => row'[k] = row[k]
    BY <1>0, <1>1 DEF Enqueue, RowOK
  <2> QED
    BY <1>1, <2>1, IdleRow, OtherRow DEF Enqueue
<1>2. ASSUME NEW j \in Jobs, Delete(j) \/ Requeue(j) PROVE LeaseOwned' /\ OneAttempt'
  <2>1. \A k \in Jobs : k # j => row'[k] = row[k]
    BY <1>0, <1>2 DEF Delete, Requeue, Set, RowOK
  <2> QED
    BY <1>2, <2>1, IdleRow, OtherRow DEF Delete, Requeue
<1>3. ASSUME NEW n \in Nodes, NEW j \in Jobs, Claim(n, j) PROVE LeaseOwned' /\ OneAttempt'
  <2> DEFINE b == CHOOSE b \in FreeIds(n) : TRUE
             until == LockDuration - poll[n].age
  <2>1. b \in Ids
    BY <1>3, IdsOfIds DEF Claim, FreeIds
  <2>2. \A a \in Ids : Live(a) => att[a].job # j /\ att[a].job \in Jobs
    BY <1>0, <1>3, IdleRow DEF Claim, AttOK
  <2>3. /\ row'[j] = [status |-> "processing", topic |-> row[j].topic, due |-> row[j].due,
                      lock |-> until, retries |-> row[j].retries, max |-> row[j].max]
        /\ \A k \in Jobs : k # j => row'[k] = row[k]
    BY <1>0, <1>3 DEF Claim, Set, RowOK
  <2>4. /\ att'[b] = [phase |-> "claimed", job |-> j, lease |-> until,
                      retries |-> row[j].retries, max |-> row[j].max]
        /\ \A a \in Ids : a # b => att'[a] = att[a]
    BY <1>0, <1>3, <2>1 DEF Claim, AttOK
  <2>5. \A a \in Ids : att'[a].phase # "free" =>
          a = b \/ (Live(a) /\ att'[a] = att[a] /\ row'[att[a].job] = row[att[a].job])
    BY <2>2, <2>3, <2>4 DEF Live
  <2> HIDE DEF b, until
  <2>6. /\ att'[b].job = j /\ att'[b].lease = until
        /\ att'[b].retries = row[j].retries /\ att'[b].max = row[j].max
    BY <2>4
  <2>7. LeaseOwned'
    BY <2>3, <2>5, <2>6 DEF LeaseInv, LeaseOwned, Live
  <2>8. OneAttempt'
    BY <2>2, <2>5, <2>6 DEF LeaseInv, OneAttempt, Live
  <2> QED
    BY <2>7, <2>8
<1>4. ASSUME NEW n \in Nodes, NEW a \in IdsOf(n), Fail(n, a) \/ Succeed(n, a)
      PROVE LeaseOwned' /\ OneAttempt'
  <2> DEFINE j == att[a].job
  <2>1. a \in Ids /\ Live(a)
    BY <1>4, IdsOfIds DEF Fail, Succeed, Live
  <2>2. \A k \in Jobs : k # j => row'[k] = row[k]
    BY <1>0, <1>4 DEF Fail, Succeed, Reschedule, Finish, Set, RowOK
  <2>3. \A b \in Ids : att'[b].phase # "free" =>
          b # a /\ att'[b] = att[b] /\ Live(b) /\ att[b].job # j /\ att[b].job \in Jobs
    BY <1>0, <1>4, <2>1 DEF Fail, Succeed, LeaseInv, AttOK, OneAttempt, Live, Free
  <2> QED
    BY <2>2, <2>3 DEF LeaseInv, LeaseOwned, OneAttempt, Live
<1>5. ASSUME NEW n \in Nodes, NEW a \in IdsOf(n),
             Execute(n, a) \/ Abandon(n, a) \/ ResultLost(n, a)
      PROVE LeaseOwned' /\ OneAttempt'
  BY <1>0, <1>5, IdsOfIds, FewerAttempts
  DEF Execute, Abandon, ResultLost, AttOK, Attempt, Free, Live
<1>6. ASSUME NEW n \in Nodes, Crash(n) PROVE LeaseOwned' /\ OneAttempt'
  BY <1>0, <1>6, FewerAttempts DEF Crash, AttOK, Free, Live
<1>7. ASSUME NEW n \in Nodes, PollEnd(n) \/ PollFail(n) PROVE LeaseOwned' /\ OneAttempt'
  <2>1. UNCHANGED row /\ att' = [a \in Ids |-> IF a \in Claimed(n)
                              THEN [att[a] EXCEPT !.phase = "queued"] ELSE att[a]]
    BY <1>7 DEF PollEnd, PollFail, Dispatch
  <2> QED
    BY <1>0, <2>1, FewerAttempts DEF AttOK, Attempt, Claimed, Live
<1>8. CASE Tick
  <2>1. \A a \in Ids : Live(a) =>
          LET j == att[a].job IN
            /\ j \in Jobs /\ att[a].lease \in Int
            /\ row[j].status = "processing" /\ row[j].lock = att[a].lease
            /\ row[j].retries = att[a].retries /\ row[j].max = att[a].max
    BY <1>0 DEF LeaseInv, LeaseOwned, AttOK, Attempt
  <2>2. \A j \in Jobs : row[j].status = "processing" =>
          /\ row'[j].status = "processing" /\ row'[j].lock = OlderLock(row[j].lock)
          /\ row'[j].retries = row[j].retries /\ row'[j].max = row[j].max
    BY <1>8 DEF Tick, Stored
  <2>3. \A a \in Ids :
          /\ att'[a].phase # "free" <=> Live(a)
          /\ Live(a) => /\ att'[a].job = att[a].job /\ att'[a].lease = Older(att[a].lease)
                        /\ att'[a].retries = att[a].retries /\ att'[a].max = att[a].max
    BY <1>0, <1>8 DEF Tick, AttOK, Attempt, Live
  <2> QED
    BY <2>1, <2>2, <2>3 DEF LeaseInv, LeaseOwned, OneAttempt, OlderLock, Live
<1>9. CASE UNCHANGED <<row, att>>
  BY <1>9, FewerAttempts DEF Live
<1> QED
  BY <1>1, <1>2, <1>3, <1>4, <1>5, <1>6, <1>7, <1>8, <1>9
  DEF Next, Caller, Admin, Poller, Worker, Start, Stop, StopReturn, Register,
      PollBegin, PollExit, vars

LEMMA LeaseInit == Init => Timely /\ LeaseOwned /\ OneAttempt
BY DEF Init, Timely, LeaseOwned, OneAttempt, Live, Free

(* As long as every attempt ends before its lease does, no interleaving of *)
(* polls, crashes, retries, requeues and restarts, on any number of nodes, *)
(* lets a row slip from under the attempt that claimed it.                 *)
THEOREM LeaseInvariant == TimelySpec => []LeaseInv
<1>1. Init => LeaseInv
  BY TypeInit, LeaseInit DEF LeaseInv
<1>2. LeaseInv /\ [TimelyNext]_vars => LeaseInv'
  <2> SUFFICES ASSUME LeaseInv, [TimelyNext]_vars PROVE LeaseInv'
    OBVIOUS
  <2>1. [Next]_vars
    BY DEF TimelyNext
  <2>2. Timely'
    BY DEF TimelyNext, LeaseInv, Timely, vars, Live
  <2>3. TypeOK'
    BY <2>1, RowStep, AttStep, NodeStep, CountStep DEF LeaseInv, TypeOK
  <2> QED
    BY <2>1, <2>2, <2>3, LeaseStep DEF LeaseInv
<1> QED
  BY <1>1, <1>2, PTL DEF TimelySpec

(* The row of a live attempt is its own: status, lock and retry count. *)
THEOREM RowIsOwned == TimelySpec => []LeaseOwned
<1>1. LeaseInv => LeaseOwned
  BY DEF LeaseInv
<1> QED
  BY <1>1, LeaseInvariant, PTL

(* No two workers ever hold a valid lease on the same job. *)
THEOREM MutualExclusion == TimelySpec => []LeaseExclusive
<1>1. LeaseInv => LeaseExclusive
  BY DEF LeaseInv, OneAttempt, LeaseExclusive
<1> QED
  BY <1>1, LeaseInvariant, PTL
-----------------------------------------------------------------------------
(* What a step does to the lives of the jobs: either every row keeps its   *)
(* status and its retry count, or one row moves along an edge of its life. *)
Keeps(i) ==
  /\ row'[i].status = row[i].status
  /\ row'[i].retries = row[i].retries
  /\ row'[i].max = row[i].max

Moved(j, s, k, m) ==
  /\ row'[j].status = s /\ row'[j].retries = k /\ row'[j].max = m
  /\ \A i \in Jobs : i # j => Keeps(i)

Edge(j) ==
  \/ row[j].status = "unborn" /\ \E m \in RetryLimits : Moved(j, "pending", 0, m)
  \/ row[j].status \in {"pending", "failed"} /\ Moved(j, "deleted", 0, row[j].max)
  \/ row[j].status = "failed" /\ Moved(j, "pending", 0, row[j].max)
  \/ row[j].status = "pending" /\ Moved(j, "processing", row[j].retries, row[j].max)
  \/ row[j].status = "processing" /\ Moved(j, "completed", row[j].retries, row[j].max)
  \/ /\ row[j].status = "processing" /\ row[j].retries + 1 < row[j].max
     /\ Moved(j, "pending", row[j].retries + 1, row[j].max)
  \/ /\ row[j].status = "processing" /\ ~(row[j].retries + 1 < row[j].max)
     /\ Moved(j, "failed", row[j].retries, row[j].max)

LEMMA SetMoves ==
  ASSUME RowOK, NEW j \in Jobs, NEW s, NEW d, NEW l, NEW k, Set(j, s, d, l, k)
  PROVE  Moved(j, s, k, row[j].max)
BY DEF RowOK, Set, Moved, Keeps

LEMMA StepMoves ==
  LeaseInv /\ [Next]_vars => (\A i \in Jobs : Keeps(i)) \/ \E j \in Jobs : Edge(j)
<1> DEFINE Goal == (\A i \in Jobs : Keeps(i)) \/ \E j \in Jobs : Edge(j)
<1> SUFFICES ASSUME LeaseInv, [Next]_vars PROVE Goal
  OBVIOUS
<1>0. RowOK /\ AttOK
  BY DEF LeaseInv, TypeOK
<1>1. ASSUME NEW j \in Jobs, NEW d \in Delays, NEW m \in RetryLimits, Enqueue(j, d, m)
      PROVE Goal
  <2>1. Moved(j, "pending", 0, m)
    BY <1>0, <1>1 DEF Enqueue, RowOK, Moved, Keeps
  <2> QED
    BY <1>1, <2>1 DEF Enqueue, Edge
<1>2. ASSUME NEW j \in Jobs, Delete(j) PROVE Goal
  <2>1. Moved(j, "deleted", 0, row[j].max)
    BY <1>0, <1>2, SetMoves DEF Delete
  <2> QED
    BY <1>2, <2>1 DEF Delete, Edge
<1>3. ASSUME NEW j \in Jobs, Requeue(j) PROVE Goal
  <2>1. Moved(j, "pending", 0, row[j].max)
    BY <1>0, <1>3, SetMoves DEF Requeue
  <2> QED
    BY <1>3, <2>1 DEF Requeue, Edge
<1>4. ASSUME NEW n \in Nodes, NEW j \in Jobs, Claim(n, j) PROVE Goal
  <2>1. Moved(j, "processing", row[j].retries, row[j].max)
    BY <1>0, <1>4, SetMoves DEF Claim
  <2>2. row[j].status \in {"pending", "processing"}
    BY <1>4 DEF Claim, Claimable
  <2>3. CASE row[j].status = "pending"
    BY <2>1, <2>3 DEF Edge
  <2>4. CASE row[j].status = "processing"
    BY <2>1, <2>4 DEF Moved, Keeps
  <2> QED
    BY <2>2, <2>3, <2>4
<1>5. ASSUME NEW n \in Nodes, NEW a \in IdsOf(n), Succeed(n, a) \/ Fail(n, a) PROVE Goal
  <2> DEFINE j == att[a].job
  <2>1. a \in Ids /\ Live(a) /\ j \in Jobs
    BY <1>0, <1>5, IdsOfIds DEF Fail, Succeed, Live, AttOK
  <2>2. /\ row[j].status = "processing"
        /\ row[j].retries = att[a].retries /\ row[j].max = att[a].max
    BY <2>1 DEF LeaseInv, LeaseOwned
  <2>3. CASE Finish(j, "completed")
    BY <1>0, <2>1, <2>2, <2>3, SetMoves DEF Finish, Edge
  <2>4. CASE Retryable(a) /\ Reschedule(j, att[a].retries + 1)
    <3>1. row[j].retries + 1 < row[j].max
      BY <2>2, <2>4 DEF Retryable
    <3>2. Moved(j, "pending", row[j].retries + 1, row[j].max)
      BY <1>0, <2>1, <2>4, SetMoves DEF Reschedule
    <3> QED
      BY <2>1, <2>2, <3>1, <3>2 DEF Edge
  <2>5. CASE ~Retryable(a) /\ Finish(j, "failed")
    <3>1. ~(row[j].retries + 1 < row[j].max)
      BY <2>2, <2>5 DEF Retryable
    <3>2. Moved(j, "failed", row[j].retries, row[j].max)
      BY <1>0, <2>1, <2>5, SetMoves DEF Finish
    <3> QED
      BY <2>1, <2>2, <3>1, <3>2 DEF Edge
  <2>6. CASE UNCHANGED row
    BY <2>6 DEF Keeps
  <2> QED
    BY <1>5, <2>3, <2>4, <2>5, <2>6 DEF Succeed, Fail
<1>6. CASE Tick
  BY <1>6 DEF Tick, Keeps
<1>7. CASE UNCHANGED row
  BY <1>7 DEF Keeps
<1> QED
  BY <1>1, <1>2, <1>3, <1>4, <1>5, <1>6, <1>7
  DEF Next, Caller, Admin, Poller, Worker, Start, Stop, StopReturn, Register, Crash,
      PollBegin, PollExit, PollEnd, PollFail, Dispatch, Execute, Abandon, ResultLost, vars

LEMMA TimelyStep == [TimelyNext]_vars => [Next]_vars
BY DEF TimelyNext

(* No poll of an expired lock, requeue, deletion or late result writes to  *)
(* the row of a completed job.                                             *)
THEOREM CompletedStays == TimelySpec => CompletedFinal
<1>1. LeaseInv /\ [TimelyNext]_vars
      => [\A j \in Jobs : row[j].status = "completed" => row'[j].status = "completed"]_vars
  BY StepMoves, TimelyStep DEF Edge, Moved, Keeps
<1> QED
  BY <1>1, LeaseInvariant, PTL DEF TimelySpec, CompletedFinal

-----------------------------------------------------------------------------
(* A row's retry count against its limit: a pending or taken job has a try *)
(* left, and one is in the dead letter exactly when it had no other.       *)
TriesLeft ==
  \A j \in Jobs :
    /\ row[j].retries < row[j].max
    /\ row[j].status = "failed" => row[j].retries + 1 = row[j].max
    /\ row[j].status = "unborn" => row[j].retries = 0

TriesInv == LeaseInv /\ TriesLeft

LEMMA TriesStep == TriesInv /\ [Next]_vars => TriesLeft'
<1> SUFFICES ASSUME TriesInv, [Next]_vars, NEW i \in Jobs
             PROVE  /\ row'[i].retries < row'[i].max
                    /\ row'[i].status = "failed" => row'[i].retries + 1 = row'[i].max
                    /\ row'[i].status = "unborn" => row'[i].retries = 0
  BY DEF TriesLeft
<1>1. /\ row[i].retries \in Nat /\ row[i].max \in Nat \ {0}
      /\ row[i].retries < row[i].max
      /\ row[i].status = "failed" => row[i].retries + 1 = row[i].max
      /\ row[i].status = "unborn" => row[i].retries = 0
  BY DEF TriesInv, LeaseInv, TypeOK, RowOK, Row, TriesLeft
<1>2. CASE Keeps(i)
  BY <1>1, <1>2 DEF Keeps
<1>3. CASE Edge(i)
  BY <1>1, <1>3 DEF Edge, Moved
<1> QED
  BY <1>2, <1>3, StepMoves DEF TriesInv, Edge, Moved

LEMMA TriesInvariant == TimelySpec => []TriesInv
<1>1. Init => TriesInv
  BY TypeInit, LeaseInit DEF TriesInv, LeaseInv, TriesLeft, Init
<1>2. TriesInv /\ LeaseInv' /\ [TimelyNext]_vars => TriesInv'
  BY TriesStep, TimelyStep DEF TriesInv
<1> QED
  BY <1>1, <1>2, LeaseInvariant, PTL DEF TimelySpec

-----------------------------------------------------------------------------
(* Every step of the queue is a step of the promised life, or changes      *)
(* nothing the promise speaks of.                                          *)
LEMMA LifecycleInit == Init => Lifecycle!Init
BY DEF Init, Lifecycle!Init

LEMMA LifecycleStep ==
  TriesInv /\ [TimelyNext]_vars => [Lifecycle!Next]_(Lifecycle!vars)
<1> SUFFICES ASSUME TriesInv, [TimelyNext]_vars
             PROVE  [Lifecycle!Next]_(Lifecycle!vars)
  OBVIOUS
<1>0. \A j \in Jobs : row[j].retries \in Nat /\ row[j].max \in Nat
  BY DEF TriesInv, LeaseInv, TypeOK, RowOK, Row
<1>1. CASE \A i \in Jobs : Keeps(i)
  BY <1>1 DEF Keeps, Lifecycle!vars
<1>2. ASSUME NEW j \in Jobs, Edge(j) PROVE Lifecycle!Next
  <2>1. ASSUME row[j].status = "unborn", NEW m \in RetryLimits, Moved(j, "pending", 0, m)
        PROVE Lifecycle!Submit(j)
    <3>1. row[j].retries = 0
      BY <2>1 DEF TriesInv, TriesLeft
    <3> QED
      BY <2>1, <3>1 DEF Moved, Keeps, Lifecycle!Submit, Lifecycle!Move
  <2>2. ASSUME row[j].status \in {"pending", "failed"}, Moved(j, "deleted", 0, row[j].max)
        PROVE Lifecycle!Withdraw(j)
    BY <2>2 DEF Moved, Keeps, Lifecycle!Withdraw, Lifecycle!Move, Lifecycle!Restart
  <2>3. ASSUME row[j].status = "failed", Moved(j, "pending", 0, row[j].max)
        PROVE Lifecycle!Resubmit(j)
    BY <2>3 DEF Moved, Keeps, Lifecycle!Resubmit, Lifecycle!Move, Lifecycle!Restart
  <2>4. ASSUME row[j].status = "pending", Moved(j, "processing", row[j].retries, row[j].max)
        PROVE Lifecycle!Take(j)
    BY <2>4 DEF Moved, Keeps, Lifecycle!Take, Lifecycle!Move
  <2>5. ASSUME row[j].status = "processing",
               Moved(j, "completed", row[j].retries, row[j].max)
        PROVE Lifecycle!Complete(j)
    BY <2>5 DEF Moved, Keeps, Lifecycle!Complete, Lifecycle!Move
  <2>6. ASSUME row[j].status = "processing", row[j].retries + 1 < row[j].max,
               Moved(j, "pending", row[j].retries + 1, row[j].max)
        PROVE Lifecycle!Retry(j)
    BY <2>6 DEF Moved, Keeps, Lifecycle!Retry, Lifecycle!Move
  <2>7. ASSUME row[j].status = "processing", ~(row[j].retries + 1 < row[j].max),
               Moved(j, "failed", row[j].retries, row[j].max)
        PROVE Lifecycle!GiveUp(j)
    <3>1. row[j].retries + 1 = row[j].max
      BY <1>0, <2>7 DEF TriesInv, TriesLeft
    <3> QED
      BY <2>7, <3>1 DEF Moved, Keeps, Lifecycle!GiveUp, Lifecycle!Move
  <2> QED
    BY <1>2, <2>1, <2>2, <2>3, <2>4, <2>5, <2>6, <2>7 DEF Edge, Lifecycle!Next
<1> QED
  BY <1>1, <1>2, StepMoves, TimelyStep DEF TriesInv

(* The queue implements the promise: leases, polls, crashes and retries of *)
(* any number of nodes are invisible to whoever enqueued the job.          *)
THEOREM ImplementsLifecycle == TimelySpec => LifecycleSpec
<1>1. Init => Lifecycle!Init
  BY LifecycleInit
<1>2. TriesInv /\ [TimelyNext]_vars => [Lifecycle!Next]_(Lifecycle!vars)
  BY LifecycleStep
<1> QED
  BY <1>1, <1>2, TriesInvariant, PTL DEF TimelySpec, LifecycleSpec, Lifecycle!Spec
-----------------------------------------------------------------------------
(* The handler calls of a job, exact below MaxRuns, against its retries:   *)
(* one call for every retry, one for the attempt that runs or that ended   *)
(* the job, and at most one more for every fault, because a crash or a     *)
(* lost result takes at most one attempt of the job with it.               *)
InHandler(j) == \E a \in Ids : att[a].phase = "running" /\ att[a].job = j

Spent(j) == InHandler(j) \/ row[j].status \in {"completed", "failed"}

Counted(j) ==
  /\ Spent(j)  => runs[j] <= row[j].retries + 1 + faults
  /\ ~Spent(j) => runs[j] <= row[j].retries + faults
  /\ runs[j] < MaxRuns => runs[j] >= row[j].retries
  /\ runs[j] < MaxRuns /\ Spent(j) => runs[j] >= row[j].retries + 1

CallsCounted == \A j \in Jobs : Counted(j)

BudgetInv == TriesInv /\ CallsCounted

LEMMA CountTypes ==
  ASSUME LeaseInv, NEW i \in Jobs
  PROVE  /\ runs[i] \in Nat /\ faults \in Nat
         /\ row[i].retries \in Nat /\ row[i].max \in Nat
BY DEF LeaseInv, TypeOK, CountOK, RowOK, Row

(* A step that calls no handler of the job: a fault pays for the attempt   *)
(* it ends.                                                                *)
LEMMA NoCall ==
  ASSUME BudgetInv, NEW i \in Jobs, Keeps(i), runs'[i] = runs[i],
         \/ (InHandler(i)' <=> InHandler(i)) /\ faults' \in {faults, faults + 1}
         \/ (InHandler(i)' => InHandler(i)) /\ faults' = faults + 1
  PROVE  Counted(i)'
<1>1. /\ runs[i] \in Nat /\ faults \in Nat /\ row[i].retries \in Nat
      /\ Counted(i)
  BY CountTypes DEF BudgetInv, TriesInv, CallsCounted
<1>2. row'[i].retries = row[i].retries /\ row'[i].status = row[i].status
  BY DEF Keeps
<1>3. CASE (Spent(i)' <=> Spent(i)) /\ faults' \in {faults, faults + 1}
  BY <1>1, <1>2, <1>3 DEF Counted
<1>4. CASE (Spent(i)' => Spent(i)) /\ faults' = faults + 1
  BY <1>1, <1>2, <1>4 DEF Counted
<1> QED
  BY <1>2, <1>3, <1>4 DEF Spent

LEMMA BudgetStep == BudgetInv /\ [Next]_vars => CallsCounted'
<1> SUFFICES ASSUME BudgetInv, [Next]_vars, NEW i \in Jobs PROVE Counted(i)'
  BY DEF CallsCounted
<1>0. LeaseInv /\ RowOK /\ AttOK /\ runs \in [Jobs -> Nat]
  BY DEF BudgetInv, TriesInv, LeaseInv, TypeOK, CountOK
<1>t. /\ runs[i] \in Nat /\ faults \in Nat
      /\ row[i].retries \in Nat /\ row[i].max \in Nat
      /\ Counted(i)
  BY <1>0, CountTypes DEF BudgetInv, CallsCounted
<1>1. ASSUME NEW j \in Jobs, NEW d \in Delays, NEW m \in RetryLimits, Enqueue(j, d, m)
      PROVE Counted(i)'
  <2>1. UNCHANGED <<att, faults, runs>>
    BY <1>1 DEF Enqueue
  <2>2. CASE i # j
    BY <1>0, <1>1, <2>1, <2>2, NoCall DEF Enqueue, RowOK, Keeps, InHandler
  <2>3. CASE i = j
    <3>1. row[i].status = "unborn" /\ row[i].retries = 0
      BY <1>1, <2>3 DEF Enqueue, BudgetInv, TriesInv, TriesLeft
    <3>2. ~InHandler(i) /\ ~InHandler(i)'
      BY <1>0, <2>1, <3>1, IdleRow DEF InHandler, Live
    <3>3. row'[i].status = "pending" /\ row'[i].retries = 0
      BY <1>0, <1>1, <2>3 DEF Enqueue, RowOK
    <3>4. ~Spent(i) /\ ~Spent(i)'
      BY <3>1, <3>2, <3>3 DEF Spent
    <3> QED
      BY <1>t, <2>1, <3>1, <3>3, <3>4 DEF Counted
  <2> QED
    BY <2>2, <2>3
<1>2. ASSUME NEW j \in Jobs, Delete(j) \/ Requeue(j) PROVE Counted(i)'
  <2>1. /\ UNCHANGED <<att, faults>>
        /\ runs' = [runs EXCEPT ![j] = 0]
        /\ row[j].status # "processing"
    BY <1>2 DEF Delete, Requeue
  <2>2. \E s \in {"deleted", "pending"} : Moved(j, s, 0, row[j].max)
    BY <1>0, <1>2, SetMoves DEF Delete, Requeue
  <2>3. CASE i # j
    BY <1>0, <2>1, <2>2, <2>3, NoCall DEF Moved, InHandler
  <2>4. CASE i = j
    <3>1. ~InHandler(i)'
      BY <1>0, <2>1, <2>4, IdleRow DEF InHandler, Live
    <3>2. row'[i].status \in {"deleted", "pending"} /\ row'[i].retries = 0 /\ runs'[i] = 0
      BY <1>0, <2>1, <2>2, <2>4 DEF Moved
    <3>3. ~Spent(i)'
      BY <3>1, <3>2 DEF Spent
    <3> QED
      BY <1>t, <2>1, <3>2, <3>3 DEF Counted
  <2> QED
    BY <2>3, <2>4
<1>3. ASSUME NEW n \in Nodes, NEW j \in Jobs, Claim(n, j) PROVE Counted(i)'
  <2> DEFINE b == CHOOSE b \in FreeIds(n) : TRUE
  <2>1. b \in Ids /\ ~Live(b)
    BY <1>3, IdsOfIds DEF Claim, FreeIds
  <2>2. att'[b].phase = "claimed" /\ \A a \in Ids : a # b => att'[a] = att[a]
    BY <1>0, <1>3, <2>1 DEF Claim, AttOK
  <2> HIDE DEF b
  <2>3. InHandler(i)' <=> InHandler(i)
    BY <2>1, <2>2 DEF InHandler, Live
  <2>4. UNCHANGED <<faults, runs>>
    BY <1>3 DEF Claim
  <2>5. Moved(j, "processing", row[j].retries, row[j].max)
    BY <1>0, <1>3, SetMoves DEF Claim
  <2>6. CASE i # j
    BY <2>3, <2>4, <2>5, <2>6, NoCall DEF Moved
  <2>7. CASE i = j
    <3>1. row[i].status \in {"pending", "processing"}
      BY <1>3, <2>7 DEF Claim, Claimable
    <3>2. row'[i].status = "processing" /\ row'[i].retries = row[i].retries
      BY <2>5, <2>7 DEF Moved
    <3>3. Spent(i)' <=> Spent(i)
      BY <2>3, <3>1, <3>2 DEF Spent
    <3> QED
      BY <1>t, <2>4, <3>2, <3>3 DEF Counted
  <2> QED
    BY <2>6, <2>7
<1>4. ASSUME NEW n \in Nodes, NEW a \in IdsOf(n), Succeed(n, a) \/ Fail(n, a)
      PROVE Counted(i)'
  <2> DEFINE j == att[a].job
  <2>1. a \in Ids /\ Live(a) /\ att[a].phase = "running" /\ j \in Jobs
    BY <1>0, <1>4, IdsOfIds DEF Fail, Succeed, Live, AttOK
  <2>2. /\ att'[a].phase = "free" /\ \A c \in Ids : c # a => att'[c] = att[c]
        /\ UNCHANGED <<faults, runs>>
    BY <1>0, <1>4, <2>1 DEF Succeed, Fail, AttOK, Free
  <2>3. CASE i # j
    <3>1. InHandler(i)' <=> InHandler(i)
      BY <2>1, <2>2, <2>3 DEF InHandler
    <3>2. Keeps(i)
      BY <1>0, <1>4, <2>3 DEF Succeed, Fail, Reschedule, Finish, Set, RowOK, Keeps
    <3> QED
      BY <2>2, <3>1, <3>2, NoCall
  <2>4. CASE i = j
    <3>1. Spent(i)
      BY <2>1, <2>4 DEF InHandler, Spent
    <3>2. ~InHandler(i)'
      BY <1>0, <2>1, <2>2, <2>4 DEF InHandler, LeaseInv, OneAttempt, Live
    <3>3. row[j].status = "processing"
      BY <1>0, <2>1 DEF LeaseInv, LeaseOwned
    <3>4. \/ \E s \in {"completed", "failed"} : Finish(j, s)
          \/ Reschedule(j, att[a].retries + 1)
      BY <1>4, <3>3 DEF Succeed, Fail, Stored
    <3>5. CASE \E s \in {"completed", "failed"} : Finish(j, s)
      <4>1. row'[i].status \in {"completed", "failed"} /\ row'[i].retries = row[i].retries
        BY <1>0, <2>1, <2>4, <3>5, SetMoves DEF Finish, Moved
      <4>2. Spent(i)'
        BY <4>1 DEF Spent
      <4> QED
        BY <1>t, <2>2, <3>1, <4>1, <4>2 DEF Counted
    <3>6. CASE Reschedule(j, att[a].retries + 1)
      <4>1. row'[i].status = "pending" /\ row'[i].retries = row[i].retries + 1
        BY <1>0, <2>1, <2>4, <3>6, SetMoves DEF Reschedule, Moved
      <4>2. ~Spent(i)'
        BY <3>2, <4>1 DEF Spent
      <4> QED
        BY <1>t, <2>2, <3>1, <4>1, <4>2 DEF Counted
    <3> QED
      BY <3>4, <3>5, <3>6
  <2> QED
    BY <2>3, <2>4
<1>5. ASSUME NEW n \in Nodes, NEW a \in IdsOf(n), Execute(n, a) PROVE Counted(i)'
  <2> DEFINE j == att[a].job
  <2>1. a \in Ids /\ Live(a) /\ att[a].phase = "queued" /\ j \in Jobs
    BY <1>0, <1>5, IdsOfIds DEF Execute, Live, AttOK
  <2>2. /\ att'[a].phase = "running" /\ att'[a].job = j
        /\ \A c \in Ids : c # a => att'[c] = att[c]
        /\ UNCHANGED <<row, faults>>
        /\ runs' = [runs EXCEPT ![j] = IF runs[j] < MaxRuns THEN runs[j] + 1 ELSE runs[j]]
    BY <1>0, <1>5, <2>1 DEF Execute, AttOK, Attempt
  <2>3. CASE i # j
    <3>1. InHandler(i)' <=> InHandler(i)
      BY <2>1, <2>2, <2>3 DEF InHandler
    <3> QED
      BY <1>0, <2>2, <2>3, <3>1, NoCall DEF Keeps
  <2>4. CASE i = j
    <3>1. ~InHandler(i)
      BY <1>0, <2>1, <2>4 DEF InHandler, LeaseInv, OneAttempt, Live
    <3>2. row[i].status = "processing"
      BY <1>0, <2>1, <2>4 DEF LeaseInv, LeaseOwned
    <3>3. ~Spent(i) /\ Spent(i)'
      BY <2>1, <2>2, <2>4, <3>1, <3>2 DEF Spent, InHandler
    <3>4. runs'[i] = IF runs[i] < MaxRuns THEN runs[i] + 1 ELSE runs[i]
      BY <1>0, <2>2, <2>4
    <3> QED
      BY <1>t, <2>2, <3>3, <3>4 DEF Counted
  <2> QED
    BY <2>3, <2>4
<1>6. ASSUME NEW n \in Nodes, NEW a \in IdsOf(n), Abandon(n, a) \/ ResultLost(n, a)
      PROVE Counted(i)'
  <2>1. /\ a \in Ids /\ UNCHANGED <<row, runs>>
        /\ att'[a].phase = "free" /\ \A c \in Ids : c # a => att'[c] = att[c]
        /\ \/ att[a].phase = "queued" /\ faults' = faults
           \/ faults' = faults + 1
    BY <1>0, <1>6, IdsOfIds DEF Abandon, ResultLost, AttOK, Free
  <2>2. \/ (InHandler(i)' <=> InHandler(i)) /\ faults' = faults
        \/ (InHandler(i)' => InHandler(i)) /\ faults' = faults + 1
    BY <2>1 DEF InHandler
  <2> QED
    BY <2>1, <2>2, NoCall DEF Keeps
<1>7. ASSUME NEW n \in Nodes, Crash(n) PROVE Counted(i)'
  <2>1. InHandler(i)' => InHandler(i)
    BY <1>0, <1>7 DEF Crash, InHandler, AttOK, Free
  <2> QED
    BY <1>7, <2>1, NoCall DEF Crash, Keeps
<1>8. ASSUME NEW n \in Nodes, PollEnd(n) \/ PollFail(n) PROVE Counted(i)'
  <2>1. UNCHANGED <<row, runs>> /\ faults' \in {faults, faults + 1}
    BY <1>8 DEF PollEnd, PollFail, Dispatch
  <2>2. att' = [a \in Ids |-> IF a \in Claimed(n)
                              THEN [att[a] EXCEPT !.phase = "queued"] ELSE att[a]]
    BY <1>8 DEF PollEnd, PollFail, Dispatch
  <2>3. InHandler(i)' <=> InHandler(i)
    BY <1>0, <2>2 DEF InHandler, Claimed, AttOK, Attempt
  <2> QED
    BY <2>1, <2>3, NoCall DEF Keeps
<1>9. CASE Tick
  <2>1. Keeps(i) /\ UNCHANGED <<faults, runs>>
    BY <1>9 DEF Tick, Keeps
  <2>2. \A a \in Ids : att'[a].phase = att[a].phase /\ att'[a].job = att[a].job
    BY <1>0, <1>9 DEF Tick, AttOK, Attempt
  <2> QED
    BY <2>1, <2>2, NoCall DEF InHandler
<1>10. CASE UNCHANGED <<row, att, faults, runs>>
  BY <1>10, NoCall DEF Keeps, InHandler
<1> QED
  BY <1>1, <1>2, <1>3, <1>4, <1>5, <1>6, <1>7, <1>8, <1>9, <1>10
  DEF Next, Caller, Admin, Poller, Worker, Start, Stop, StopReturn, Register,
      PollBegin, PollExit, vars

LEMMA BudgetBound == BudgetInv => ExecutionBudget
<1> SUFFICES ASSUME BudgetInv, NEW j \in Jobs
             PROVE  /\ runs[j] <= row[j].max + faults
                    /\ row[j].status = "failed" /\ runs[j] < MaxRuns
                       => runs[j] >= row[j].max
  BY DEF ExecutionBudget
<1>1. /\ runs[j] \in Nat /\ faults \in Nat
      /\ row[j].retries \in Nat /\ row[j].max \in Nat
      /\ Counted(j)
  BY CountTypes DEF BudgetInv, TriesInv, CallsCounted
<1>2. /\ row[j].retries < row[j].max
      /\ row[j].status = "failed" => row[j].retries + 1 = row[j].max /\ Spent(j)
  BY DEF BudgetInv, TriesInv, TriesLeft, Spent
<1> QED
  BY <1>1, <1>2 DEF Counted

(* max_retries is a budget of handler calls: a job is called at most that  *)
(* often and once more per fault, whatever crashes, retries and requeues   *)
(* do, and is dead-lettered only when the budget is used up.               *)
THEOREM CallsWithinBudget == TimelySpec => []ExecutionBudget
<1>1. Init => BudgetInv
  BY TypeInit, LeaseInit
  DEF Init, BudgetInv, TriesInv, LeaseInv, TriesLeft, CallsCounted, Counted, Spent,
      InHandler, Free
<1>2. BudgetInv /\ TriesInv' /\ [TimelyNext]_vars => BudgetInv'
  BY BudgetStep, TimelyStep DEF BudgetInv
<1>3. BudgetInv => ExecutionBudget
  BY BudgetBound
<1> QED
  BY <1>1, <1>2, <1>3, TriesInvariant, PTL DEF TimelySpec
-----------------------------------------------------------------------------
(* Only a dispatcher that has not stopped claims, polls or works: Claim    *)
(* and PollBegin need a poll loop that has not exited.                     *)
Quiet ==
  \A n \in Nodes : disp[n] = "stopped" =>
    poll[n].phase = "exited" /\ \A a \in IdsOf(n) : ~Live(a)

(* Finiteness is part of the invariant: Slots itself need not be finite.   *)
PoolBounded ==
  \A n \in Nodes : IsFiniteSet(Running(n)) /\ Cardinality(Running(n)) <= Workers

StopInv == TypeOK /\ Quiet /\ PoolBounded

LEMMA OneNode ==
  ASSUME NEW n \in Nodes, NEW a \in IdsOf(n), NEW m \in Nodes, m # n PROVE a \notin IdsOf(m)
BY DEF IdsOf

(* A step that makes no goroutine of a stopped node, and wakes none. *)
LEMMA StaysQuiet ==
  ASSUME Quiet, NEW n \in Nodes, disp'[n] = "stopped" => disp[n] = "stopped",
         disp[n] = "stopped" => poll'[n].phase = poll[n].phase,
         \A a \in IdsOf(n) : att'[a].phase # "free" => Live(a)
  PROVE  disp'[n] = "stopped" =>
           poll'[n].phase = "exited" /\ \A a \in IdsOf(n) : att'[a].phase = "free"
BY DEF Quiet, Live

LEMMA QuietStep == TypeOK /\ Quiet /\ [Next]_vars => Quiet'
<1> SUFFICES ASSUME TypeOK, Quiet, [Next]_vars, NEW m \in Nodes
             PROVE  disp'[m] = "stopped" =>
                      poll'[m].phase = "exited" /\ \A c \in IdsOf(m) : att'[c].phase = "free"
  BY DEF Quiet, Live, IdsOf
<1> DEFINE Goal == disp'[m] = "stopped" =>
                     poll'[m].phase = "exited" /\ \A c \in IdsOf(m) : att'[c].phase = "free"
<1>0. AttOK /\ NodeOK
  BY DEF TypeOK
<1>1. ASSUME NEW n \in Nodes, Start(n) \/ Stop(n) PROVE Goal
  <2>1. UNCHANGED att
    BY <1>1 DEF Start, Stop
  <2>2. CASE m = n
    BY <1>0, <1>1, <2>2 DEF Start, Stop, NodeOK
  <2>3. CASE m # n
    BY <1>0, <1>1, <2>1, <2>3, StaysQuiet DEF Start, Stop, NodeOK, Live
  <2> QED
    BY <2>2, <2>3
<1>2. ASSUME NEW n \in Nodes, StopReturn(n) PROVE Goal
  <2>1. UNCHANGED <<att, poll>>
    BY <1>2 DEF StopReturn
  <2>2. CASE m = n
    BY <1>2, <2>1, <2>2 DEF StopReturn, Live
  <2>3. CASE m # n
    BY <1>0, <1>2, <2>1, <2>3, StaysQuiet DEF StopReturn, NodeOK, Live
  <2> QED
    BY <2>2, <2>3
<1>3. ASSUME NEW n \in Nodes, Crash(n) PROVE Goal
  <2>1. CASE m = n
    BY <1>0, <1>3, <2>1, IdsOfIds DEF Crash, NodeOK, Exited, NoPoll, Free
  <2>2. CASE m # n
    <3>1. /\ disp'[m] = disp[m] /\ poll'[m] = poll[m]
          /\ \A c \in IdsOf(m) : att'[c] = att[c]
      BY <1>0, <1>3, <2>2, IdsOfIds, OneNode DEF Crash, NodeOK
    <3> QED
      BY <3>1, StaysQuiet DEF Live
  <2> QED
    BY <2>1, <2>2
<1>4. ASSUME NEW n \in Nodes, PollBegin(n) \/ PollExit(n) PROVE Goal
  <2>1. UNCHANGED <<att, disp>>
    BY <1>4 DEF PollBegin, PollExit
  <2>2. disp[m] = "stopped" => poll'[m].phase = poll[m].phase
    <3> SUFFICES ASSUME disp[m] = "stopped" PROVE m # n
      BY <1>0, <1>4 DEF PollBegin, PollExit, NodeOK
    <3> QED
      BY <1>4 DEF PollBegin, PollExit, Quiet
  <2> QED
    BY <2>1, <2>2, StaysQuiet DEF Live
<1>5. ASSUME NEW n \in Nodes, PollEnd(n) \/ PollFail(n) PROVE Goal
  <2>1. /\ poll[n].phase = "claiming" /\ UNCHANGED disp
        /\ poll' = [poll EXCEPT ![n] = NoPoll]
        /\ att' = [a \in Ids |-> IF a \in Claimed(n)
                              THEN [att[a] EXCEPT !.phase = "queued"] ELSE att[a]]
    BY <1>5 DEF PollEnd, PollFail, Dispatch
  <2>2. disp[m] = "stopped" => poll'[m].phase = poll[m].phase
    BY <1>0, <2>1 DEF Quiet, NodeOK
  <2>3. \A c \in IdsOf(m) : att'[c].phase # "free" => Live(c)
    BY <2>1, IdsOfIds DEF Claimed, Live
  <2> QED
    BY <2>1, <2>2, <2>3, StaysQuiet
<1>6. ASSUME NEW n \in Nodes, NEW j \in Jobs, Claim(n, j) PROVE Goal
  <2> DEFINE b == CHOOSE b \in FreeIds(n) : TRUE
  <2>1. b \in IdsOf(n) /\ b \in Ids
    BY <1>6, IdsOfIds DEF Claim, FreeIds
  <2>2. UNCHANGED <<disp, poll>> /\ poll[n].phase = "claiming"
    BY <1>6 DEF Claim
  <2>3. \A a \in Ids : a # b => att'[a] = att[a]
    BY <1>0, <1>6, <2>1 DEF Claim, AttOK
  <2> HIDE DEF b
  <2>4. CASE m = n
    BY <2>2, <2>4 DEF Quiet
  <2>5. CASE m # n
    <3>1. \A c \in IdsOf(m) : att'[c] = att[c]
      BY <2>1, <2>3, <2>5, IdsOfIds, OneNode
    <3> QED
      BY <2>2, <3>1, StaysQuiet DEF Live
  <2> QED
    BY <2>4, <2>5
<1>7. ASSUME NEW n \in Nodes, Worker(n) PROVE Goal
  <2>1. UNCHANGED <<disp, poll>>
    BY <1>7 DEF Worker, Execute, Abandon, Succeed, Fail, ResultLost
  <2>2. PICK a \in IdsOf(n) : /\ Live(a)
                              /\ \A c \in Ids : c # a => att'[c] = att[c]
    BY <1>0, <1>7, IdsOfIds
    DEF Worker, Execute, Abandon, Succeed, Fail, ResultLost, Live, AttOK
  <2>3. \A c \in IdsOf(m) : att'[c].phase # "free" => Live(c)
    BY <2>2, IdsOfIds DEF Live
  <2> QED
    BY <2>1, <2>3, StaysQuiet
<1>8. CASE Tick
  <2>1. UNCHANGED disp
    BY <1>8 DEF Tick
  <2>2. poll'[m].phase = poll[m].phase
    BY <1>0, <1>8 DEF Tick, NodeOK, Poll
  <2>3. \A c \in IdsOf(m) : att'[c].phase # "free" => Live(c)
    BY <1>0, <1>8, IdsOfIds DEF Tick, Live, AttOK
  <2> QED
    BY <2>1, <2>2, <2>3, StaysQuiet
<1>9. CASE UNCHANGED <<disp, poll, att>>
  BY <1>9, StaysQuiet DEF Live
<1> QED
  BY <1>1, <1>2, <1>3, <1>4, <1>5, <1>6, <1>7, <1>8, <1>9
  DEF Next, Caller, Admin, Poller, Enqueue, Delete, Requeue, Register, vars

LEMMA PoolShrinks ==
  ASSUME PoolBounded, NEW m \in Nodes,
         \A c \in IdsOf(m) : att'[c].phase = "running" => att[c].phase = "running"
  PROVE  IsFiniteSet(Running(m)') /\ Cardinality(Running(m)') <= Workers
<1>1. Running(m)' \subseteq Running(m)
  BY DEF Running, IdsOf
<1>2. IsFiniteSet(Running(m)) /\ Cardinality(Running(m)) <= Workers
  BY DEF PoolBounded
<1>3. IsFiniteSet(Running(m)') /\ Cardinality(Running(m)') <= Cardinality(Running(m))
  BY <1>1, <1>2, FS_Subset
<1>4. Cardinality(Running(m)) \in Nat /\ Cardinality(Running(m)') \in Nat
  BY <1>2, <1>3, FS_CardinalityType
<1> QED
  BY <1>2, <1>3, <1>4

LEMMA PoolStep == TypeOK /\ PoolBounded /\ [Next]_vars => PoolBounded'
<1> SUFFICES ASSUME TypeOK, PoolBounded, [Next]_vars, NEW m \in Nodes
             PROVE  IsFiniteSet(Running(m)') /\ Cardinality(Running(m)') <= Workers
  BY DEF PoolBounded
<1> DEFINE Shrinks == \A c \in Ids : att'[c].phase = "running" => att[c].phase = "running"
           Goal == IsFiniteSet(Running(m)') /\ Cardinality(Running(m)') <= Workers
<1>0. AttOK
  BY DEF TypeOK
<1>s. Shrinks => Goal
  BY PoolShrinks, IdsOfIds
<1>1. ASSUME NEW n \in Nodes, NEW a \in IdsOf(n), Execute(n, a) PROVE Goal
  <2>1. /\ a \in Ids /\ a \notin Running(n)
        /\ att'[a].phase = "running" /\ \A c \in Ids : c # a => att'[c] = att[c]
    BY <1>0, <1>1, IdsOfIds DEF Execute, Running, AttOK, Attempt
  <2>2. CASE m # n
    <3>1. \A c \in IdsOf(m) : att'[c] = att[c]
      BY <2>1, <2>2, IdsOfIds, OneNode
    <3> QED
      BY <3>1, PoolShrinks
  <2>3. CASE m = n
    <3>1. Running(m)' = Running(m) \cup {a}
      BY <2>1, <2>3, IdsOfIds DEF Running, IdsOf
    <3>2. IsFiniteSet(Running(m)) /\ Cardinality(Running(m)) < Workers
      BY <1>1, <2>3 DEF PoolBounded, Execute
    <3> DEFINE S == Running(m)
    <3>3. a \notin S
      BY <2>1, <2>3
    <3> HIDE DEF S
    <3>4. IsFiniteSet(S \cup {a}) /\ Cardinality(S \cup {a}) = Cardinality(S) + 1
      BY <3>2, <3>3, FS_AddElement DEF S
    <3>5. Cardinality(S) \in Nat
      BY <3>2, FS_CardinalityType DEF S
    <3>6. S \cup {a} = Running(m)' /\ Cardinality(S) < Workers
      BY <3>1, <3>2 DEF S
    <3> QED
      BY <3>4, <3>5, <3>6, JobsAssumption DEF JobsAssumption
  <2> QED
    BY <2>2, <2>3
<1>2. ASSUME NEW n \in Nodes, Crash(n) PROVE Shrinks
  BY <1>0, <1>2 DEF Crash, AttOK, Free
<1>3. ASSUME NEW n \in Nodes, NEW j \in Jobs, Claim(n, j) PROVE Shrinks
  <2> DEFINE b == CHOOSE b \in FreeIds(n) : TRUE
  <2>1. b \in Ids
    BY <1>3, IdsOfIds DEF Claim, FreeIds
  <2>2. att'[b].phase = "claimed" /\ \A a \in Ids : a # b => att'[a] = att[a]
    BY <1>0, <1>3, <2>1 DEF Claim, AttOK
  <2> QED
    BY <2>1, <2>2
<1>4. ASSUME NEW n \in Nodes, Dispatch(n) PROVE Shrinks
  BY <1>0, <1>4 DEF Dispatch, Claimed, AttOK, Attempt
<1>5. ASSUME NEW n \in Nodes, NEW a \in IdsOf(n), att' = [att EXCEPT ![a] = Free]
      PROVE Shrinks
  BY <1>0, <1>5, IdsOfIds DEF Free, AttOK
<1>6. CASE Tick
  BY <1>0, <1>s, <1>6 DEF Tick, AttOK, Attempt
<1>7. CASE UNCHANGED att
  BY <1>s, <1>7
<1> QED
  BY <1>s, <1>1, <1>2, <1>3, <1>4, <1>5, <1>6, <1>7
  DEF Next, Caller, Admin, Poller, Worker, Enqueue, Delete, Requeue, Start, Stop, StopReturn,
      Register, PollBegin, PollExit, PollEnd, PollFail, Abandon, Succeed, Fail, ResultLost, vars

LEMMA StopInit == Init => Quiet /\ PoolBounded
<1> SUFFICES ASSUME Init, NEW n \in Nodes
             PROVE  /\ poll[n].phase = "exited" /\ \A a \in IdsOf(n) : ~Live(a)
                    /\ IsFiniteSet(Running(n)) /\ Cardinality(Running(n)) <= Workers
  BY DEF Quiet, PoolBounded
<1>1. poll[n].phase = "exited"
  BY DEF Init, Exited, NoPoll
<1>2. \A a \in IdsOf(n) : att[a].phase = "free"
  BY IdsOfIds DEF Init, Free
<1>3. Running(n) = {}
  BY <1>2 DEF Running
<1>4. IsFiniteSet(Running(n)) /\ Cardinality(Running(n)) = 0
  BY <1>3, FS_EmptySet
<1> QED
  BY <1>1, <1>2, <1>4 DEF Live

(* Stop leaves nothing behind and the worker pool is never exceeded, for   *)
(* any number of nodes, polls, batches and attempts, timely or not.        *)
THEOREM StopIsQuiescent == Spec => []StopQuiescent
<1>1. Init => StopInv
  BY TypeInit, StopInit DEF StopInv
<1>2. StopInv /\ TypeOK' /\ [Next]_vars => StopInv'
  BY QuietStep, PoolStep DEF StopInv
<1>3. StopInv => StopQuiescent
  BY DEF StopInv, Quiet, PoolBounded, StopQuiescent
<1> QED
  BY <1>1, <1>2, <1>3, TypeCorrect, PTL DEF Spec

-----------------------------------------------------------------------------
(* Whatever crashes, fails or comes late: a row that is being processed    *)
(* has a lock, at most LockDuration ahead (a NULL would never be < now,    *)
(* and the job lost to every poll), and any other job has none, so that    *)
(* the claim of a pending row never waits for a lock.                      *)
Locked(r) ==
  /\ r.status = "processing" => r.lock \in Int /\ r.lock <= LockDuration
  /\ r.status \in Stored \ {"processing"} => r.lock = NoLock

LocksEnd == \A j \in Jobs : Locked(row[j])

LEMMA SetLocks ==
  ASSUME RowOK, LocksEnd, NEW j \in Jobs, NEW s, NEW d, NEW l, NEW k, Set(j, s, d, l, k),
         s = "processing" => l \in Int /\ l <= LockDuration,
         s \in Stored \ {"processing"} => l = NoLock
  PROVE  LocksEnd'
BY DEF RowOK, Set, LocksEnd, Locked

LEMMA LocksStep == TypeOK /\ LocksEnd /\ [Next]_vars => LocksEnd'
<1> SUFFICES ASSUME TypeOK, LocksEnd, [Next]_vars PROVE LocksEnd'
  OBVIOUS
<1>0. RowOK /\ AttOK /\ NodeOK
  BY DEF TypeOK
<1>1. ASSUME NEW j \in Jobs, NEW d, NEW m, Enqueue(j, d, m) PROVE LocksEnd'
  BY <1>0, <1>1 DEF Enqueue, LocksEnd, Locked, RowOK
<1>2. ASSUME NEW j \in Jobs, Delete(j) \/ Requeue(j) PROVE LocksEnd'
  BY <1>0, <1>2, SetLocks DEF Delete, Requeue, Stored
<1>3. ASSUME NEW n \in Nodes, NEW j \in Jobs, Claim(n, j) PROVE LocksEnd'
  <2> DEFINE until == LockDuration - poll[n].age
  <2>1. until \in Int /\ until <= LockDuration
    BY <1>0 DEF NodeOK, Poll
  <2>2. Set(j, "processing", row[j].due, until, row[j].retries)
    BY <1>3 DEF Claim
  <2> HIDE DEF until
  <2> QED
    BY <1>0, <2>1, <2>2, SetLocks
<1>4. ASSUME NEW n \in Nodes, NEW a \in IdsOf(n), Succeed(n, a) \/ Fail(n, a) PROVE LocksEnd'
  <2>1. att[a].job \in Jobs
    BY <1>0, <1>4, IdsOfIds DEF Succeed, Fail, Live, AttOK
  <2>2. CASE UNCHANGED row
    BY <2>2 DEF LocksEnd
  <2>3. CASE \E s \in {"pending", "completed", "failed"} : \E d, k : Set(att[a].job, s, d, NoLock, k)
    BY <1>0, <2>1, <2>3, SetLocks
  <2> QED
    BY <1>4, <2>2, <2>3 DEF Succeed, Fail, Reschedule, Finish
<1>5. CASE Tick
  <2> SUFFICES ASSUME NEW j \in Jobs PROVE Locked(row'[j])
    BY DEF LocksEnd
  <2>1. CASE row[j].status \notin Stored
    BY <1>5, <2>1 DEF Tick, LocksEnd
  <2>2. CASE row[j].status \in Stored
    <3>1. row'[j].status = row[j].status /\ row'[j].lock = OlderLock(row[j].lock)
      BY <1>5, <2>2 DEF Tick
    <3>2. Locked(row[j])
      BY DEF LocksEnd
    <3>3. \A l \in Int : l <= LockDuration => Older(l) \in Int /\ Older(l) <= LockDuration
      BY OlderInt DEF Older
    <3> QED
      BY <3>1, <3>2, <3>3 DEF Locked, OlderLock
  <2> QED
    BY <2>1, <2>2
<1>6. CASE UNCHANGED row
  BY <1>6 DEF LocksEnd
<1> QED
  BY <1>1, <1>2, <1>3, <1>4, <1>5, <1>6
  DEF Next, Caller, Admin, Poller, Worker, Start, Stop, StopReturn, Register, Crash,
      PollBegin, PollExit, PollEnd, PollFail, Dispatch, Execute, Abandon, ResultLost, vars

(* No job is stranded, for any number of nodes and attempts of any length: *)
(* what liveness needs of the table when a process dies between claim and  *)
(* result.                                                                 *)
THEOREM NothingStranded == Spec => []LocksEnd
<1>1. Init => LocksEnd
  BY DEF Init, LocksEnd, Locked, Stored
<1>2. TypeOK /\ LocksEnd /\ [Next]_vars => LocksEnd'
  BY LocksStep
<1> QED
  BY <1>1, <1>2, TypeCorrect, PTL DEF Spec
=============================================================================
