------------------------ MODULE PocketlessJobsProofs ------------------------
(* Theorems about PocketlessJobs. *)
EXTENDS PocketlessJobs, TLAPS

Statuses == Stored \cup {"unborn", "deleted"}

RowsOK == row \in [Jobs -> Row]

RunType == [proc : Processes, job : Jobs, counted : BOOLEAN, age : Nat]

(* One row is written, and how. *)
RowSet(j, s, d, l, k, m) ==
  /\ RowsOK'
  /\ row'[j].status = s /\ row'[j].due = d /\ row'[j].lease = l
  /\ row'[j].retries = k /\ row'[j].max = m
  /\ \A i \in Jobs : i # j => row'[i] = row[i]

LEMMA RowFields ==
  ASSUME RowsOK, NEW j \in Jobs
  PROVE  /\ row[j] \in Row
         /\ row[j].status \in Statuses /\ row[j].due \in Nat /\ row[j].lease \in Nat \cup {NoLease}
         /\ row[j].retries \in Nat /\ row[j].max \in Nat \ {0}
BY DEF RowsOK, Row, Statuses

LEMMA RowPut ==
  ASSUME RowsOK, NEW j \in Jobs, NEW v \in Row, row' = [row EXCEPT ![j] = v]
  PROVE  RowSet(j, v.status, v.due, v.lease, v.retries, v.max)
<1>1. row'[j] = v /\ \A i \in Jobs : i # j => row'[i] = row[i]
  BY DEF RowsOK
<1>2. RowsOK'
  BY DEF RowsOK
<1> QED
  BY <1>1, <1>2 DEF RowSet

(* The three forms in which the methods write a row that exists. *)
LEMMA SetLease ==
  ASSUME RowsOK, NEW j \in Jobs, NEW s \in Statuses, NEW l \in Nat \cup {NoLease}, Exists(j),
         Update(j, [row[j] EXCEPT !.status = s, !.lease = l])
  PROVE  RowSet(j, s, row[j].due, l, row[j].retries, row[j].max)
<1> DEFINE v == [row[j] EXCEPT !.status = s, !.lease = l]
<1>1. row[j] \in Row
  BY RowFields
<1>2. v \in Row
  BY <1>1 DEF Row, Statuses
<1>3. /\ v.status = s /\ v.due = row[j].due /\ v.lease = l
      /\ v.retries = row[j].retries /\ v.max = row[j].max
  BY <1>1 DEF Row
<1>4. row' = [row EXCEPT ![j] = v]
  BY DEF Update
<1> HIDE DEF v
<1>5. RowSet(j, v.status, v.due, v.lease, v.retries, v.max)
  BY <1>2, <1>4, RowPut
<1> QED
  BY <1>3, <1>5

LEMMA SetRetries ==
  ASSUME RowsOK, NEW j \in Jobs, NEW s \in Statuses, NEW k \in Nat, Exists(j),
         Update(j, [row[j] EXCEPT !.status = s, !.retries = k, !.lease = NoLease])
  PROVE  RowSet(j, s, row[j].due, NoLease, k, row[j].max)
<1> DEFINE v == [row[j] EXCEPT !.status = s, !.retries = k, !.lease = NoLease]
<1>1. row[j] \in Row
  BY RowFields
<1>2. v \in Row
  BY <1>1 DEF Row, Statuses
<1>3. /\ v.status = s /\ v.due = row[j].due /\ v.lease = NoLease
      /\ v.retries = k /\ v.max = row[j].max
  BY <1>1 DEF Row
<1>4. row' = [row EXCEPT ![j] = v]
  BY DEF Update
<1> HIDE DEF v
<1>5. RowSet(j, v.status, v.due, v.lease, v.retries, v.max)
  BY <1>2, <1>4, RowPut
<1> QED
  BY <1>3, <1>5

LEMMA SetDue ==
  ASSUME RowsOK, NEW j \in Jobs, NEW s \in Statuses, NEW k \in Nat, NEW d \in Nat, Exists(j),
         Update(j, [row[j] EXCEPT !.status = s, !.retries = k, !.due = d, !.lease = NoLease])
  PROVE  RowSet(j, s, d, NoLease, k, row[j].max)
<1> DEFINE v == [row[j] EXCEPT !.status = s, !.retries = k, !.due = d, !.lease = NoLease]
<1>1. row[j] \in Row
  BY RowFields
<1>2. v \in Row
  BY <1>1 DEF Row, Statuses
<1>3. /\ v.status = s /\ v.due = d /\ v.lease = NoLease
      /\ v.retries = k /\ v.max = row[j].max
  BY <1>1 DEF Row
<1>4. row' = [row EXCEPT ![j] = v]
  BY DEF Update
<1> HIDE DEF v
<1>5. RowSet(j, v.status, v.due, v.lease, v.retries, v.max)
  BY <1>2, <1>4, RowPut
<1> QED
  BY <1>3, <1>5

LEMMA RowBorn ==
  ASSUME RowsOK, NEW p \in Processes, NEW j \in Jobs, Enqueue(p, j)
  PROVE  \E m \in RetryLimits, d \in Delays :
           RowSet(j, "pending", d, NoLease, 0, m) /\ m \in Nat \ {0}
<1>1. PICK m \in RetryLimits, d \in Delays :
        row' = [row EXCEPT ![j] = [status |-> "pending", due |-> d, lease |-> NoLease,
                                   retries |-> 0, max |-> m]]
  BY DEF Enqueue
<1> DEFINE v == [status |-> "pending", due |-> d, lease |-> NoLease, retries |-> 0, max |-> m]
<1>2. m \in Nat \ {0} /\ d \in Nat
  BY PocketlessJobsAssumption
<1>3. v \in Row
  BY <1>2 DEF Row, Stored
<1>4. /\ v.status = "pending" /\ v.due = d /\ v.lease = NoLease
      /\ v.retries = 0 /\ v.max = m
  OBVIOUS
<1> HIDE DEF v
<1>5. RowSet(j, v.status, v.due, v.lease, v.retries, v.max)
  BY <1>1, <1>3, RowPut DEF v
<1> QED
  BY <1>2, <1>4, <1>5

(* A restart and a tick write every row. *)
LEMMA RowsBooted ==
  ASSUME RowsOK, NEW p \in Processes, Boot(p)
  PROVE  /\ RowsOK'
         /\ \A j \in Jobs :
              \/ /\ row[j].status = "processing" /\ row[j].lease = 0
                 /\ row'[j].status = "pending" /\ row'[j].lease = NoLease
                 /\ row'[j].due = row[j].due
                 /\ row'[j].retries = row[j].retries /\ row'[j].max = row[j].max
              \/ /\ ~(row[j].status = "processing" /\ row[j].lease = 0)
                 /\ row'[j] = row[j]
<1> DEFINE v(j) == [row[j] EXCEPT !.status = "pending", !.lease = NoLease]
           stuck(j) == row[j].status = "processing" /\ row[j].lease = 0
<1>1. ASSUME NEW j \in Jobs
      PROVE  /\ v(j) \in Row /\ row[j] \in Row
             /\ v(j).status = "pending" /\ v(j).lease = NoLease /\ v(j).due = row[j].due
             /\ v(j).retries = row[j].retries /\ v(j).max = row[j].max
  <2>1. row[j] \in Row
    BY RowFields
  <2>2. v(j) \in Row
    BY <2>1 DEF Row, Stored
  <2> QED
    BY <2>1, <2>2 DEF Row
<1>2. row' = [j \in Jobs |-> IF stuck(j) THEN v(j) ELSE row[j]]
  BY DEF Boot
<1> HIDE DEF v
<1>3. RowsOK'
  BY <1>1, <1>2 DEF RowsOK
<1> QED
  BY <1>1, <1>2, <1>3

LEMMA RowsTicked ==
  ASSUME RowsOK, Tick
  PROVE  /\ RowsOK'
         /\ \A j \in Jobs :
              /\ row'[j].status = row[j].status /\ row'[j].lease = Earlier(row[j].lease)
              /\ row'[j].retries = row[j].retries /\ row'[j].max = row[j].max
<1> DEFINE v(j) == [row[j] EXCEPT !.due = Earlier(@), !.lease = Earlier(@)]
<1>1. ASSUME NEW j \in Jobs
      PROVE  /\ v(j) \in Row
             /\ v(j).status = row[j].status /\ v(j).lease = Earlier(row[j].lease)
             /\ v(j).retries = row[j].retries /\ v(j).max = row[j].max
  <2>1. row[j] \in Row /\ row[j].due \in Nat /\ row[j].lease \in Nat \cup {NoLease}
    BY RowFields
  <2>2. Earlier(row[j].due) \in Nat /\ Earlier(row[j].lease) \in Nat \cup {NoLease}
    BY <2>1, PocketlessJobsAssumption DEF Earlier
  <2> DEFINE d == Earlier(row[j].due)
             l == Earlier(row[j].lease)
  <2>3. v(j) = [row[j] EXCEPT !.due = d, !.lease = l]
    OBVIOUS
  <2> HIDE DEF d, l
  <2>4. [row[j] EXCEPT !.due = d, !.lease = l] \in Row
    BY <2>1, <2>2 DEF Row, d, l
  <2> QED
    BY <2>1, <2>3, <2>4 DEF Row, l
<1>2. row' = [j \in Jobs |-> v(j)]
  BY DEF Tick
<1> HIDE DEF v
<1>3. RowsOK'
  BY <1>1, <1>2 DEF RowsOK
<1> QED
  BY <1>1, <1>2, <1>3
-----------------------------------------------------------------------------
MethodsOK == sync \in [Processes -> Methods \cup {NoSync}]

(* lockedUntil IS NOT NULL exactly while the job is being processed. *)
LeaseShape == \A j \in Jobs : row[j].lease # NoLease <=> row[j].status = "processing"

LEMMA MethodFields ==
  ASSUME MethodsOK, NEW p \in Processes, sync[p] # NoSync
  PROVE  /\ sync[p].pc \in {"delete", "requeue", "lock", "fail"}
         /\ sync[p].pc \in {"delete", "requeue", "fail"} => sync[p].job \in Jobs
         /\ sync[p].pc = "fail" => sync[p].retries \in Nat /\ sync[p].max \in Nat \ {0}
         /\ sync[p].pc = "lock" =>
              /\ sync[p] \in [pc : {"lock"}, todo : SUBSET Jobs, got : SUBSET Jobs]
              /\ sync[p].todo \subseteq Jobs /\ sync[p].got \subseteq Jobs
<1>1. sync[p] \in Methods
  BY DEF MethodsOK
<1>2. CASE sync[p] \in [pc : {"delete", "requeue"}, job : Jobs]
  BY <1>2
<1>3. CASE sync[p] \in [pc : {"lock"}, todo : SUBSET Jobs, got : SUBSET Jobs]
  BY <1>3
<1>4. CASE sync[p] \in [pc : {"fail"}, job : Jobs, retries : Nat, max : Nat \ {0}]
  BY <1>4
<1> QED
  BY <1>1, <1>2, <1>3, <1>4 DEF Methods

LEMMA Entered ==
  ASSUME MethodsOK, NEW p \in Processes, NEW s \in Methods \cup {NoSync}, Enter(p, s)
  PROVE  /\ MethodsOK' /\ sync'[p] = s
         /\ \A q \in Processes : q # p => sync'[q] = sync[q]
BY DEF MethodsOK, Enter

(* What each method writes: nothing when the row is gone. *)
LEMMA MethodWrites ==
  ASSUME RowsOK, MethodsOK, NEW p \in Processes, DeleteRow(p) \/ RequeueRow(p) \/ FailRow(p)
  PROVE  LET s == sync[p] IN
         /\ s # NoSync /\ s.job \in Jobs
         /\ ~Exists(s.job) => row' = row
         /\ Exists(s.job) =>
              \/ /\ s.pc = "delete"
                 /\ RowSet(s.job, "deleted", row[s.job].due, NoLease, 0, row[s.job].max)
              \/ s.pc = "requeue" /\ RowSet(s.job, "pending", 0, NoLease, 0, row[s.job].max)
              \/ /\ s.pc = "fail" /\ Retryable(s)
                 /\ RowSet(s.job, "pending", Backoff(s.retries + 1), NoLease, s.retries + 1,
                           row[s.job].max)
              \/ /\ s.pc = "fail" /\ ~Retryable(s)
                 /\ RowSet(s.job, "failed", row[s.job].due, NoLease, row[s.job].retries,
                           row[s.job].max)
<1> DEFINE s == sync[p]
<1>1. s # NoSync /\ s.pc \in {"delete", "requeue", "fail"}
  BY DEF DeleteRow, RequeueRow, FailRow
<1>2. s.job \in Jobs /\ (s.pc = "fail" => s.retries \in Nat)
  BY <1>1, MethodFields
<1>3. ~Exists(s.job) => row' = row
  BY DEF DeleteRow, RequeueRow, FailRow, Update
<1>4. {"deleted", "pending", "failed"} \subseteq Statuses /\ 0 \in Nat /\ NoLease \in Nat \cup {NoLease}
  BY DEF Statuses, Stored
<1>5. ASSUME Exists(s.job), DeleteRow(p)
      PROVE  s.pc = "delete" /\ RowSet(s.job, "deleted", row[s.job].due, NoLease, 0, row[s.job].max)
  BY <1>2, <1>4, <1>5, SetRetries DEF DeleteRow
<1>6. ASSUME Exists(s.job), RequeueRow(p)
      PROVE  s.pc = "requeue" /\ RowSet(s.job, "pending", 0, NoLease, 0, row[s.job].max)
  BY <1>2, <1>4, <1>6, SetDue DEF RequeueRow
<1>7. ASSUME Exists(s.job), FailRow(p), Retryable(s)
      PROVE  /\ s.pc = "fail"
             /\ RowSet(s.job, "pending", Backoff(s.retries + 1), NoLease, s.retries + 1,
                       row[s.job].max)
  <2> DEFINE k == s.retries + 1
             d == Backoff(k)
  <2>1. s.pc = "fail" /\ s.retries \in Nat
    BY <1>2, <1>7 DEF FailRow
  <2>2. k \in Nat
    BY <2>1
  <2>3. d \in Nat
    BY <2>2 DEF Backoff
  <2>4. Update(s.job, [row[s.job] EXCEPT !.status = "pending", !.retries = k, !.due = d,
                                         !.lease = NoLease])
    BY <1>7 DEF FailRow
  <2> HIDE DEF s, k, d
  <2>5. RowSet(s.job, "pending", d, NoLease, k, row[s.job].max)
    BY <1>2, <1>4, <1>7, <2>2, <2>3, <2>4, SetDue
  <2> QED
    BY <2>1, <2>5 DEF k, d
<1>8. ASSUME Exists(s.job), FailRow(p), ~Retryable(s)
      PROVE  /\ s.pc = "fail"
             /\ RowSet(s.job, "failed", row[s.job].due, NoLease, row[s.job].retries,
                       row[s.job].max)
  <2>1. s.pc = "fail"
    BY <1>8 DEF FailRow
  <2>2. Update(s.job, [row[s.job] EXCEPT !.status = "failed", !.lease = NoLease])
    BY <1>8 DEF FailRow
  <2> HIDE DEF s
  <2> QED
    BY <1>2, <1>4, <1>8, <2>1, <2>2, SetLease
<1> HIDE DEF s
<1>9. Exists(s.job) =>
        \/ s.pc = "delete" /\ RowSet(s.job, "deleted", row[s.job].due, NoLease, 0, row[s.job].max)
        \/ s.pc = "requeue" /\ RowSet(s.job, "pending", 0, NoLease, 0, row[s.job].max)
        \/ /\ s.pc = "fail" /\ Retryable(s)
           /\ RowSet(s.job, "pending", Backoff(s.retries + 1), NoLease, s.retries + 1,
                     row[s.job].max)
        \/ /\ s.pc = "fail" /\ ~Retryable(s)
           /\ RowSet(s.job, "failed", row[s.job].due, NoLease, row[s.job].retries,
                     row[s.job].max)
  BY <1>5, <1>6, <1>7, <1>8
<1> QED
  BY <1>1, <1>2, <1>3, <1>9 DEF s

LEMMA LockWrites ==
  ASSUME RowsOK, MethodsOK, NEW p \in Processes, Lock(p)
  PROVE  \E j \in sync[p].todo :
           /\ j \in Jobs /\ MethodsOK'
           /\ sync[p] # NoSync /\ sync[p].pc = "lock"
           /\ sync'[p].pc = "lock" /\ sync'[p].todo = sync[p].todo \ {j}
           /\ sync'[p].got = sync[p].got \cup {j}
           /\ \A q \in Processes : q # p => sync'[q] = sync[q]
           /\ ~Exists(j) => row' = row
           /\ Exists(j) => RowSet(j, "processing", row[j].due, LockDuration + 1,
                                  row[j].retries, row[j].max)
<1>1. /\ sync[p] # NoSync /\ sync[p].pc = "lock"
      /\ sync[p] \in [pc : {"lock"}, todo : SUBSET Jobs, got : SUBSET Jobs]
  BY MethodFields DEF Lock
<1>2. PICK j \in sync[p].todo :
        /\ Update(j, [row[j] EXCEPT !.status = "processing", !.lease = LockDuration + 1])
        /\ Enter(p, [sync[p] EXCEPT !.todo = @ \ {j}, !.got = @ \cup {j}])
  BY DEF Lock
<1>3. j \in Jobs
  BY <1>1
<1> DEFINE s == [sync[p] EXCEPT !.todo = @ \ {j}, !.got = @ \cup {j}]
<1>4. /\ s \in [pc : {"lock"}, todo : SUBSET Jobs, got : SUBSET Jobs]
      /\ s.pc = "lock" /\ s.todo = sync[p].todo \ {j} /\ s.got = sync[p].got \cup {j}
  BY <1>1, <1>3
<1>5. s \in Methods \cup {NoSync}
  BY <1>4 DEF Methods
<1> HIDE DEF s
<1>6. MethodsOK' /\ sync'[p] = s /\ \A q \in Processes : q # p => sync'[q] = sync[q]
  BY <1>2, <1>5, Entered DEF s
<1>7. ~Exists(j) => row' = row
  BY <1>2 DEF Update
<1>8. LockDuration + 1 \in Nat \cup {NoLease} /\ "processing" \in Statuses
  BY PocketlessJobsAssumption DEF Statuses, Stored
<1>9. Exists(j) => RowSet(j, "processing", row[j].due, LockDuration + 1, row[j].retries, row[j].max)
  BY <1>2, <1>3, <1>8, SetLease
<1> QED
  BY <1>1, <1>3, <1>4, <1>6, <1>7, <1>9

(* A handler that returns leaves runs; a job that exists is written, or    *)
(* remembered by the method.                                               *)
LEMMA ReturnWrites ==
  ASSUME RowsOK, MethodsOK, NEW r \in RunType, Succeed(r) \/ Fail(r)
  PROVE  /\ MethodsOK' /\ runs' = runs \ {r} /\ sync[r.proc] = NoSync
         /\ \A q \in Processes : q # r.proc => sync'[q] = sync[q]
         /\ \/ /\ row' = row
               /\ \/ ~Exists(r.job) /\ sync' = sync
                  \/ /\ Exists(r.job)
                     /\ sync'[r.proc].pc = "fail" /\ sync'[r.proc].job = r.job
                     /\ sync'[r.proc].retries = row[r.job].retries
                     /\ sync'[r.proc].max = row[r.job].max
            \/ /\ Exists(r.job) /\ sync' = sync
               /\ RowSet(r.job, "completed", row[r.job].due, NoLease, row[r.job].retries,
                         row[r.job].max)
<1>1. r.proc \in Processes /\ r.job \in Jobs
  BY DEF RunType
<1>2. runs' = runs \ {r} /\ sync[r.proc] = NoSync
  BY DEF Succeed, Fail, Free
<1>3. CASE Succeed(r)
  <2>1. sync' = sync /\ (~Exists(r.job) => row' = row)
    BY <1>3 DEF Succeed, Update
  <2>2. "completed" \in Statuses /\ NoLease \in Nat \cup {NoLease}
    BY DEF Statuses, Stored
  <2>3. Exists(r.job) => RowSet(r.job, "completed", row[r.job].due, NoLease, row[r.job].retries,
                                row[r.job].max)
    BY <1>1, <1>3, <2>2, SetLease DEF Succeed
  <2> QED
    BY <1>2, <2>1, <2>3 DEF MethodsOK
<1>4. CASE Fail(r)
  <2>1. row' = row
    BY <1>4 DEF Fail
  <2>2. CASE ~Exists(r.job)
    BY <1>2, <1>4, <2>1, <2>2 DEF Fail, MethodsOK
  <2>3. CASE Exists(r.job)
    <3> DEFINE s == [pc |-> "fail", job |-> r.job, retries |-> row[r.job].retries,
                     max |-> row[r.job].max]
    <3>1. row[r.job].retries \in Nat /\ row[r.job].max \in Nat \ {0}
      BY <1>1, RowFields
    <3>2. s \in Methods \cup {NoSync}
      BY <1>1, <3>1 DEF Methods
    <3>3. Enter(r.proc, s)
      BY <1>4, <2>3 DEF Fail
    <3>4. /\ s.pc = "fail" /\ s.job = r.job
          /\ s.retries = row[r.job].retries /\ s.max = row[r.job].max
      OBVIOUS
    <3> HIDE DEF s
    <3>5. MethodsOK' /\ sync'[r.proc] = s /\ \A q \in Processes : q # r.proc => sync'[q] = sync[q]
      BY <1>1, <3>2, <3>3, Entered
    <3> QED
      BY <1>2, <2>1, <2>3, <3>4, <3>5
  <2> QED
    BY <2>2, <2>3
<1> QED
  BY <1>3, <1>4
-----------------------------------------------------------------------------
Handlers == runs \subseteq RunType

Served == proc \in [Processes -> {"down", "stopped", "polling"}]

LEMMA TypeParts ==
  JobsTypeOK <=> /\ store \in {"db", "memory"} /\ events \in Nat
                 /\ RowsOK /\ Served /\ MethodsOK /\ Handlers /\ LeaseShape
BY DEF JobsTypeOK, RowsOK, Served, MethodsOK, Handlers, RunType, LeaseShape

(* A row that is written keeps the shape when it has a lease exactly as a  *)
(* job that is being processed.                                            *)
LEMMA ShapeSet ==
  ASSUME LeaseShape, NEW j \in Jobs, NEW s, NEW d, NEW l, NEW k, NEW m,
         RowSet(j, s, d, l, k, m), l # NoLease <=> s = "processing"
  PROVE  RowsOK' /\ LeaseShape'
BY DEF LeaseShape, RowSet

LEMMA CountsKept ==
  ASSUME Handlers, NEW p \in Processes, Stop(p)
  PROVE  /\ Handlers'
         /\ \A r \in runs' : \E s \in runs :
              r.proc = s.proc /\ r.job = s.job /\ r.age = s.age
              /\ r = [s EXCEPT !.counted = @ /\ s.proc # p]
<1>1. ASSUME NEW s \in RunType
      PROVE  LET r == [s EXCEPT !.counted = @ /\ s.proc # p] IN
             r \in RunType /\ r.proc = s.proc /\ r.job = s.job /\ r.age = s.age
  BY <1>1 DEF RunType
<1>2. runs' = {[s EXCEPT !.counted = @ /\ s.proc # p] : s \in runs}
  BY DEF Stop
<1>3. \A s \in runs : s \in RunType
  BY DEF Handlers
<1>4. Handlers'
  BY <1>1, <1>2, <1>3 DEF Handlers
<1>5. ASSUME NEW r \in runs'
      PROVE  \E s \in runs : /\ r.proc = s.proc /\ r.job = s.job /\ r.age = s.age
                             /\ r = [s EXCEPT !.counted = @ /\ s.proc # p]
  <2>1. PICK s \in runs : r = [s EXCEPT !.counted = @ /\ s.proc # p]
    BY <1>2
  <2> QED
    BY <1>1, <1>3, <2>1
<1> QED
  BY <1>4, <1>5

LEMMA HandlersAge ==
  ASSUME Handlers, Tick
  PROVE  /\ Handlers'
         /\ \A r \in runs' : \E s \in runs :
              r.proc = s.proc /\ r.job = s.job /\ r.age = s.age + 1 /\ s.age < MaxRun
              /\ r = [s EXCEPT !.age = @ + 1]
<1>1. ASSUME NEW s \in RunType
      PROVE  LET r == [s EXCEPT !.age = @ + 1] IN
             r \in RunType /\ r.proc = s.proc /\ r.job = s.job /\ r.age = s.age + 1
  BY <1>1 DEF RunType
<1>2. runs' = {[s EXCEPT !.age = @ + 1] : s \in runs} /\ \A s \in runs : s.age < MaxRun
  BY DEF Tick
<1>3. \A s \in runs : s \in RunType
  BY DEF Handlers
<1>4. Handlers'
  BY <1>1, <1>2, <1>3 DEF Handlers
<1>5. ASSUME NEW r \in runs'
      PROVE  \E s \in runs : /\ r.proc = s.proc /\ r.job = s.job /\ r.age = s.age + 1
                             /\ s.age < MaxRun /\ r = [s EXCEPT !.age = @ + 1]
  <2>1. PICK s \in runs : r = [s EXCEPT !.age = @ + 1]
    BY <1>2
  <2> QED
    BY <1>1, <1>2, <1>3, <2>1
<1> QED
  BY <1>4, <1>5

(* The handlers a batch starts are all of jobs it got. *)
LEMMA Started ==
  ASSUME Handlers, MethodsOK, NEW p \in Processes, Execute(p)
  PROVE  /\ Handlers' /\ MethodsOK' /\ sync'[p] = NoSync
         /\ \A q \in Processes : q # p => sync'[q] = sync[q]
         /\ sync[p] # NoSync /\ sync[p].pc = "lock"
         /\ runs \subseteq runs'
         /\ \A r \in runs' \ runs :
              /\ r.job \in sync[p].got
              /\ r = [proc |-> p, job |-> r.job, counted |-> TRUE, age |-> 0]
<1>1. /\ sync[p] # NoSync /\ sync[p].pc = "lock" /\ sync[p].got \subseteq Jobs
  BY MethodFields DEF Execute
<1>2. PICK started \in SUBSET sync[p].got :
        runs' = runs \cup {[proc |-> p, job |-> j, counted |-> TRUE, age |-> 0] : j \in started}
  BY DEF Execute
<1>3. ASSUME NEW j \in started
      PROVE  LET r == [proc |-> p, job |-> j, counted |-> TRUE, age |-> 0] IN
             r \in RunType /\ r.job = j /\ j \in sync[p].got
  <2>1. TRUE \in BOOLEAN /\ 0 \in Nat
    OBVIOUS
  <2>2. j \in Jobs
    BY <1>1
  <2> QED
    BY <2>1, <2>2 DEF RunType
<1>4. Handlers'
  BY <1>2, <1>3 DEF Handlers
<1>5. ASSUME NEW r \in runs' \ runs
      PROVE  /\ r.job \in sync[p].got
             /\ r = [proc |-> p, job |-> r.job, counted |-> TRUE, age |-> 0]
  <2>1. PICK j \in started : r = [proc |-> p, job |-> j, counted |-> TRUE, age |-> 0]
    BY <1>2
  <2> QED
    BY <1>3, <2>1
<1>6. MethodsOK' /\ sync'[p] = NoSync /\ \A q \in Processes : q # p => sync'[q] = sync[q]
  BY Entered DEF Execute
<1>7. runs \subseteq runs'
  BY <1>2
<1> QED
  BY <1>1, <1>4, <1>5, <1>6, <1>7

LEMMA CheckEnters ==
  ASSUME MethodsOK, NEW p \in Processes, NEW j \in Jobs, Check(p, j)
  PROVE  /\ MethodsOK'
         /\ \A q \in Processes : q # p => sync'[q] = sync[q]
         /\ sync'[p].job = j
         /\ \/ sync'[p].pc = "delete" /\ row[j].status \in {"pending", "failed"}
            \/ sync'[p].pc = "requeue" /\ row[j].status = "failed"
<1>1. PICK c \in {"delete", "requeue"} :
        /\ Enter(p, [pc |-> c, job |-> j])
        /\ c = "delete" => row[j].status \in {"pending", "failed"}
        /\ c = "requeue" => row[j].status = "failed"
  BY DEF Check
<1>2. [pc |-> c, job |-> j] \in Methods
  BY DEF Methods
<1>3. /\ MethodsOK' /\ sync'[p] = [pc |-> c, job |-> j]
      /\ \A q \in Processes : q # p => sync'[q] = sync[q]
  BY <1>1, <1>2, Entered
<1> QED
  BY <1>1, <1>3

LEMMA SelectEnters ==
  ASSUME MethodsOK, NEW p \in Processes, Select(p)
  PROVE  /\ MethodsOK'
         /\ \A q \in Processes : q # p => sync'[q] = sync[q]
         /\ sync'[p].pc = "lock" /\ sync'[p].todo \subseteq Ready /\ sync'[p].got = {}
<1>1. PICK todo \in SUBSET Ready : Enter(p, [pc |-> "lock", todo |-> todo, got |-> {}])
  BY DEF Select
<1>2. todo \in SUBSET Jobs /\ {} \in SUBSET Jobs
  BY DEF Ready
<1>3. [pc |-> "lock", todo |-> todo, got |-> {}] \in Methods
  BY <1>2 DEF Methods
<1>4. /\ MethodsOK' /\ sync'[p] = [pc |-> "lock", todo |-> todo, got |-> {}]
      /\ \A q \in Processes : q # p => sync'[q] = sync[q]
  BY <1>1, <1>3, Entered
<1> QED
  BY <1>4

LEMMA MethodEnds ==
  ASSUME MethodsOK, NEW p \in Processes, DeleteRow(p) \/ RequeueRow(p) \/ FailRow(p)
  PROVE  /\ MethodsOK' /\ sync'[p] = NoSync
         /\ \A q \in Processes : q # p => sync'[q] = sync[q]
<1>1. Enter(p, NoSync)
  BY DEF DeleteRow, RequeueRow, FailRow
<1> QED
  BY <1>1, Entered

LEMMA JobsTypeStep == JobsTypeOK /\ [JobsNext]_jobsVars => JobsTypeOK'
<1> SUFFICES ASSUME JobsTypeOK, [JobsNext]_jobsVars PROVE JobsTypeOK'
  OBVIOUS
<1>0. /\ store \in {"db", "memory"} /\ events \in Nat
      /\ RowsOK /\ Served /\ MethodsOK /\ Handlers /\ LeaseShape
  BY TypeParts
<1> DEFINE Rest == store' \in {"db", "memory"} /\ events' \in Nat /\ Served'
           Goal == Rest /\ RowsOK' /\ MethodsOK' /\ Handlers' /\ LeaseShape'
<1>s. /\ row' = row => RowsOK' /\ LeaseShape'
      /\ sync' = sync => MethodsOK'
      /\ runs' = runs => Handlers'
  BY <1>0 DEF RowsOK, LeaseShape, MethodsOK, Handlers
<1>1. ASSUME NEW p \in Processes, NEW j \in Jobs, Enqueue(p, j) PROVE Goal
  <2>1. RowsOK' /\ LeaseShape'
    BY <1>0, <1>1, RowBorn, ShapeSet
  <2> QED
    BY <1>0, <1>1, <1>s, <2>1 DEF Enqueue, Served
<1>2. ASSUME NEW p \in Processes, NEW j \in Jobs, Check(p, j) PROVE Goal
  <2>1. Rest
    BY <1>0, <1>2 DEF Check, Event, Served
  <2> QED
    BY <1>0, <1>2, <1>s, <2>1, CheckEnters DEF Check
<1>3. ASSUME NEW p \in Processes, DeleteRow(p) \/ RequeueRow(p) \/ FailRow(p) PROVE Goal
  <2>1. RowsOK' /\ LeaseShape'
    <3> DEFINE s == sync[p]
    <3>1. CASE ~Exists(s.job)
      BY <1>0, <1>3, <1>s, <3>1, MethodWrites
    <3>2. CASE Exists(s.job)
      <4>1. s.job \in Jobs
        BY <1>0, <1>3, MethodWrites
      <4>2. PICK t \in {"deleted", "pending", "failed"} : \E d, k, m :
              RowSet(s.job, t, d, NoLease, k, m)
        BY <1>0, <1>3, <3>2, MethodWrites
      <4> HIDE DEF s
      <4> QED
        BY <1>0, <4>1, <4>2, ShapeSet
    <3> QED
      BY <3>1, <3>2
  <2>2. Rest /\ runs' = runs
    BY <1>0, <1>3 DEF DeleteRow, RequeueRow, FailRow, Served
  <2> QED
    BY <1>0, <1>3, <1>s, <2>1, <2>2, MethodEnds
<1>4. ASSUME NEW p \in Processes, Select(p) PROVE Goal
  BY <1>0, <1>4, <1>s, SelectEnters DEF Select, Served
<1>5. ASSUME NEW p \in Processes, Lock(p) PROVE Goal
  <2>1. PICK j \in sync[p].todo :
           /\ j \in Jobs /\ MethodsOK'
           /\ ~Exists(j) => row' = row
           /\ Exists(j) => RowSet(j, "processing", row[j].due, LockDuration + 1,
                                  row[j].retries, row[j].max)
    BY <1>0, <1>5, LockWrites
  <2>2. LockDuration + 1 # NoLease
    BY PocketlessJobsAssumption
  <2>3. RowsOK' /\ LeaseShape'
    BY <1>0, <1>s, <2>1, <2>2, ShapeSet
  <2> QED
    BY <1>0, <1>5, <1>s, <2>1, <2>3 DEF Lock, Served
<1>6. ASSUME NEW p \in Processes, Execute(p) PROVE Goal
  <2>1. Rest /\ row' = row
    BY <1>0, <1>6 DEF Execute, Served
  <2> QED
    BY <1>0, <1>6, <1>s, <2>1, Started
<1>7. ASSUME NEW r \in runs, Succeed(r) \/ Fail(r) PROVE Goal
  <2>1. r \in RunType
    BY <1>0 DEF Handlers
  <2>2. r.job \in Jobs
    BY <2>1 DEF RunType
  <2>3. RowsOK' /\ LeaseShape'
    BY <1>0, <1>7, <1>s, <2>1, <2>2, ReturnWrites, ShapeSet
  <2>4. MethodsOK' /\ Handlers'
    BY <1>0, <1>7, <2>1, ReturnWrites DEF Handlers
  <2>5. Rest
    BY <1>0, <1>7 DEF Succeed, Fail, Served
  <2> QED
    BY <2>3, <2>4, <2>5
<1>8. ASSUME NEW p \in Processes, Start(p) PROVE Goal
  BY <1>0, <1>8, <1>s DEF Start, Served
<1>9. ASSUME NEW p \in Processes, Stop(p) PROVE Goal
  <2>1. Rest /\ row' = row /\ sync' = sync
    BY <1>0, <1>9 DEF Stop, Event, Served
  <2> QED
    BY <1>0, <1>9, <1>s, <2>1, CountsKept
<1>10. ASSUME NEW p \in Processes, Crash(p) PROVE Goal
  <2>1. Rest /\ row' = row /\ Handlers'
    BY <1>0, <1>10 DEF Crash, Event, Served, Handlers
  <2>2. MethodsOK'
    BY <1>0, <1>10, Entered DEF Crash
  <2> QED
    BY <1>s, <2>1, <2>2
<1>11. ASSUME NEW p \in Processes, Boot(p) PROVE Goal
  <2>1. Rest /\ sync' = sync /\ runs' = runs
    BY <1>0, <1>11 DEF Boot, Served
  <2>2. RowsOK' /\ LeaseShape'
    BY <1>0, <1>11, RowsBooted DEF LeaseShape
  <2> QED
    BY <1>s, <2>1, <2>2
<1>12. ASSUME Tick PROVE Goal
  <2>1. Rest /\ sync' = sync
    BY <1>0, <1>12 DEF Tick, Served
  <2>2. RowsOK' /\ LeaseShape'
    <3>1. ASSUME NEW j \in Jobs PROVE Earlier(row[j].lease) # NoLease <=> row[j].lease # NoLease
      BY <1>0, RowFields, PocketlessJobsAssumption DEF Earlier
    <3> QED
      BY <1>0, <1>12, <3>1, RowsTicked DEF LeaseShape
  <2> QED
    BY <1>0, <1>12, <1>s, <2>1, <2>2, HandlersAge
<1>13. ASSUME UNCHANGED jobsVars PROVE Goal
  BY <1>0, <1>13, <1>s DEF jobsVars, Served
<1> HIDE DEF Rest
<1>14. Goal
  BY <1>1, <1>2, <1>3, <1>4, <1>5, <1>6, <1>7, <1>8, <1>9, <1>10, <1>11, <1>12, <1>13
     DEF JobsNext, Step, Return
<1> QED
  BY <1>14, TypeParts DEF Rest, JobsTypeOK, RowsOK, Served, MethodsOK, Handlers, RunType, LeaseShape

LEMMA JobsInitOK == JobsInit => JobsTypeOK
<1> SUFFICES ASSUME JobsInit PROVE JobsTypeOK
  OBVIOUS
<1>1. store \in {"db", "memory"} /\ events \in Nat /\ Served /\ MethodsOK /\ Handlers
  BY PocketlessJobsAssumption DEF JobsInit, Served, MethodsOK, Handlers
<1>2. RowsOK
  BY DEF JobsInit, RowsOK, Row
<1>3. LeaseShape
  BY DEF JobsInit, LeaseShape
<1> QED
  BY <1>1, <1>2, <1>3, TypeParts

(* The port's queue keeps its shapes, and a row has a lease exactly while  *)
(* it is being processed, for any number of jobs, of processes on the      *)
(* database, of workers and of crashes.                                    *)
THEOREM PortJobsTypeCorrect == JobsSpec => []JobsTypeOK
<1> QED
  BY JobsInitOK, JobsTypeStep, PTL DEF JobsSpec
-----------------------------------------------------------------------------
(* With one process, and handlers that return before their lease ends: a   *)
(* handler's job is leased to it, a method in its middle still sees what   *)
(* it read, and a job is never tried more often than it was given.         *)
NoRun(j) == \A r \in runs : r.job # j

Leased(r) ==
  /\ row[r.job].status = "processing"
  /\ row[r.job].lease + r.age > LockDuration
  /\ r.age <= MaxRun

MidMethod(p) ==
  LET s == sync[p] IN
  /\ s.pc = "delete" => row[s.job].status \in {"pending", "failed"}
  /\ s.pc = "requeue" => row[s.job].status = "failed"
  /\ s.pc = "fail" =>
       /\ row[s.job].status = "processing" /\ NoRun(s.job)
       /\ s.retries = row[s.job].retries /\ s.max = row[s.job].max
  /\ s.pc = "lock" =>
       /\ s.todo \cap s.got = {}
       /\ \A j \in s.todo : row[j].status \in {"pending", "processing"} /\ NoRun(j)
       /\ \A j \in s.got :
            row[j].status = "processing" /\ row[j].lease = LockDuration + 1 /\ NoRun(j)

TriesOK(j) ==
  /\ row[j].retries < row[j].max
  /\ row[j].status \in {"unborn", "deleted"} => row[j].retries = 0
  /\ row[j].status = "failed" => row[j].retries + 1 = row[j].max

QueueInv ==
  /\ JobsTypeOK
  /\ ClaimedOnce
  /\ \A r \in runs : Leased(r)
  /\ \A p \in Processes : sync[p] # NoSync => proc[p] # "down" /\ MidMethod(p)
  /\ \A j \in Jobs : TriesOK(j)

OneProcess == \A p, q \in Processes : p = q

LEMMA QueueParts ==
  ASSUME QueueInv
  PROVE  /\ RowsOK /\ MethodsOK /\ Handlers /\ LeaseShape
         /\ ClaimedOnce
         /\ \A r \in runs : /\ Leased(r) /\ r \in RunType
                            /\ r.job \in Jobs /\ r.proc \in Processes /\ r.age \in Nat
         /\ \A j \in Jobs : TriesOK(j) /\ row[j].retries \in Nat /\ row[j].max \in Nat
<1>1. RowsOK /\ MethodsOK /\ Handlers /\ LeaseShape
  BY TypeParts DEF QueueInv
<1>2. \A r \in runs : r \in RunType /\ r.job \in Jobs /\ r.proc \in Processes /\ r.age \in Nat
  BY <1>1 DEF Handlers, RunType
<1>3. \A j \in Jobs : row[j].retries \in Nat /\ row[j].max \in Nat
  BY <1>1, RowFields
<1> QED
  BY <1>1, <1>2, <1>3 DEF QueueInv

(* A step that writes one row and starts no handler, when no handler of    *)
(* that row is left.                                                       *)
LEMMA LeavesRuns ==
  ASSUME QueueInv, NEW j \in Jobs, runs' \subseteq runs, \A r \in runs' : r.job # j,
         \A i \in Jobs : i # j => row'[i] = row[i]
  PROVE  ClaimedOnce' /\ \A r \in runs' : Leased(r)'
BY QueueParts DEF ClaimedOnce, Leased

LEMMA SameRows ==
  ASSUME QueueInv, runs' \subseteq runs, row' = row
  PROVE  /\ ClaimedOnce' /\ \A r \in runs' : Leased(r)'
         /\ \A j \in Jobs : TriesOK(j)'
BY QueueParts DEF ClaimedOnce, Leased, TriesOK

LEMMA TriesSet ==
  ASSUME QueueInv, NEW j \in Jobs, NEW s, NEW d, NEW l, NEW k \in Nat, NEW m \in Nat,
         RowSet(j, s, d, l, k, m), k < m,
         s \in {"unborn", "deleted"} => k = 0,
         s = "failed" => k + 1 = m
  PROVE  \A i \in Jobs : TriesOK(i)'
<1>1. TriesOK(j)'
  BY DEF RowSet, TriesOK
<1>2. ASSUME NEW i \in Jobs, i # j PROVE TriesOK(i)'
  BY <1>2, QueueParts DEF RowSet, TriesOK
<1> QED
  BY <1>1, <1>2

(* What a step must show, beyond the shapes. *)
Handled ==
  /\ ClaimedOnce
  /\ \A r \in runs : Leased(r)
  /\ \A p \in Processes : sync[p] # NoSync => proc[p] # "down" /\ MidMethod(p)
  /\ \A j \in Jobs : TriesOK(j)

LEMMA EnqueueStep ==
  ASSUME QueueInv, OneProcess, NEW p \in Processes, NEW j \in Jobs, Enqueue(p, j)
  PROVE  Handled'
<1>1. PICK m \in RetryLimits, d \in Delays :
        RowSet(j, "pending", d, NoLease, 0, m) /\ m \in Nat \ {0}
  BY QueueParts, RowBorn
<1>2. \A r \in runs : r.job # j
  BY QueueParts DEF Leased, Enqueue
<1>3. ClaimedOnce' /\ \A r \in runs' : Leased(r)'
  BY <1>1, <1>2, LeavesRuns DEF Enqueue, RowSet
<1>4. \A i \in Jobs : TriesOK(i)'
  BY <1>1, TriesSet
<1>5. \A q \in Processes : sync'[q] = NoSync
  BY DEF Enqueue, Free, OneProcess
<1> QED
  BY <1>3, <1>4, <1>5 DEF Handled

LEMMA CheckStep ==
  ASSUME QueueInv, OneProcess, NEW p \in Processes, NEW j \in Jobs, Check(p, j)
  PROVE  Handled'
<1>1. ClaimedOnce' /\ (\A r \in runs' : Leased(r)') /\ \A i \in Jobs : TriesOK(i)'
  BY SameRows DEF Check
<1>2. row' = row /\ proc' = proc /\ proc[p] # "down"
  BY DEF Check, Free
<1>3. MidMethod(p)'
  BY <1>2, QueueParts, CheckEnters DEF MidMethod
<1> QED
  BY <1>1, <1>2, <1>3 DEF Handled, OneProcess

LEMMA MethodStep ==
  ASSUME QueueInv, OneProcess, NEW p \in Processes, DeleteRow(p) \/ RequeueRow(p) \/ FailRow(p)
  PROVE  Handled'
<1> DEFINE s == sync[p]
           j == s.job
<1>1. s # NoSync /\ j \in Jobs /\ s.pc \in {"delete", "requeue", "fail"} /\ MidMethod(p)
  BY QueueParts, MethodWrites DEF QueueInv, DeleteRow, RequeueRow, FailRow
<1>2. /\ Exists(j)
      /\ \A r \in runs : r.job # j
      /\ s.pc = "fail" => s.retries = row[j].retries /\ s.max = row[j].max
  BY <1>1, QueueParts DEF MidMethod, NoRun, Leased, Exists, Stored
<1>3. runs' = runs
  BY DEF DeleteRow, RequeueRow, FailRow
<1>4. /\ row[j].retries \in Nat /\ row[j].max \in Nat /\ row[j].retries < row[j].max
  BY <1>1, QueueParts DEF TriesOK
<1>5. \/ RowSet(j, "deleted", row[j].due, NoLease, 0, row[j].max)
      \/ RowSet(j, "pending", 0, NoLease, 0, row[j].max)
      \/ /\ row[j].retries + 1 < row[j].max
         /\ RowSet(j, "pending", Backoff(row[j].retries + 1), NoLease, row[j].retries + 1, row[j].max)
      \/ /\ row[j].retries + 1 = row[j].max
         /\ RowSet(j, "failed", row[j].due, NoLease, row[j].retries, row[j].max)
  <2>1. s.pc = "fail" => (Retryable(s) <=> row[j].retries + 1 < row[j].max)
    BY <1>2 DEF Retryable
  <2>2. \/ RowSet(j, "deleted", row[j].due, NoLease, 0, row[j].max)
        \/ RowSet(j, "pending", 0, NoLease, 0, row[j].max)
        \/ /\ s.pc = "fail" /\ Retryable(s)
           /\ RowSet(j, "pending", Backoff(s.retries + 1), NoLease, s.retries + 1, row[j].max)
        \/ /\ s.pc = "fail" /\ ~Retryable(s)
           /\ RowSet(j, "failed", row[j].due, NoLease, row[j].retries, row[j].max)
    BY <1>2, QueueParts, MethodWrites
  <2> HIDE DEF s, j
  <2> QED
    BY <1>2, <1>4, <2>1, <2>2
<1> HIDE DEF s, j
<1>6. \A i \in Jobs : i # j => row'[i] = row[i]
  BY <1>5 DEF RowSet
<1>7. ClaimedOnce' /\ \A r \in runs' : Leased(r)'
  BY <1>1, <1>2, <1>3, <1>6, LeavesRuns
<1>8. \A i \in Jobs : TriesOK(i)'
  <2>1. 0 < row[j].max /\ 0 \in Nat /\ row[j].retries + 1 \in Nat
    BY <1>4
  <2>2. CASE RowSet(j, "deleted", row[j].due, NoLease, 0, row[j].max)
    BY <1>1, <1>4, <2>1, <2>2, TriesSet
  <2>3. CASE RowSet(j, "pending", 0, NoLease, 0, row[j].max)
    BY <1>1, <1>4, <2>1, <2>3, TriesSet
  <2>4. CASE /\ row[j].retries + 1 < row[j].max
             /\ RowSet(j, "pending", Backoff(row[j].retries + 1), NoLease, row[j].retries + 1,
                       row[j].max)
    BY <1>1, <1>4, <2>1, <2>4, TriesSet
  <2>5. CASE /\ row[j].retries + 1 = row[j].max
             /\ RowSet(j, "failed", row[j].due, NoLease, row[j].retries, row[j].max)
    BY <1>1, <1>4, <2>1, <2>5, TriesSet
  <2> QED
    BY <1>5, <2>2, <2>3, <2>4, <2>5
<1>9. \A q \in Processes : sync'[q] = NoSync
  BY QueueParts, MethodEnds DEF OneProcess
<1> QED
  BY <1>7, <1>8, <1>9 DEF Handled

LEMMA SelectStep ==
  ASSUME QueueInv, OneProcess, MaxRun <= LockDuration, NEW p \in Processes, Select(p)
  PROVE  Handled'
<1>1. ClaimedOnce' /\ (\A r \in runs' : Leased(r)') /\ \A i \in Jobs : TriesOK(i)'
  BY SameRows DEF Select
<1>2. row' = row /\ proc' = proc /\ proc[p] # "down" /\ runs' = runs
  BY DEF Select, Free
<1>3. ASSUME NEW j \in Ready PROVE row[j].status \in {"pending", "processing"} /\ NoRun(j)
  <2>1. /\ j \in Jobs /\ row[j].status \in {"pending", "processing"}
        /\ row[j].lease \in {NoLease, 0}
    BY DEF Ready
  <2>2. ASSUME NEW r \in runs PROVE r.job # j
    <3>1. row[r.job].status = "processing" /\ row[r.job].lease + r.age > LockDuration
          /\ r.age <= MaxRun /\ r.age \in Nat /\ r.job \in Jobs
      BY QueueParts DEF Leased
    <3>2. row[r.job].lease # NoLease
      BY <3>1, QueueParts DEF LeaseShape
    <3>3. row[r.job].lease # 0
      BY <3>1, PocketlessJobsAssumption
    <3> QED
      BY <2>1, <3>2, <3>3
  <2> QED
    BY <2>1, <2>2 DEF NoRun
<1>4. MidMethod(p)'
  BY <1>2, <1>3, QueueParts, SelectEnters DEF MidMethod, NoRun
<1> QED
  BY <1>1, <1>2, <1>4 DEF Handled, OneProcess

LEMMA LockStep ==
  ASSUME QueueInv, OneProcess, NEW p \in Processes, Lock(p)
  PROVE  Handled'
<1>1. PICK j \in sync[p].todo :
         /\ j \in Jobs
         /\ sync[p] # NoSync /\ sync[p].pc = "lock"
         /\ sync'[p].pc = "lock" /\ sync'[p].todo = sync[p].todo \ {j}
         /\ sync'[p].got = sync[p].got \cup {j}
         /\ Exists(j) => RowSet(j, "processing", row[j].due, LockDuration + 1,
                                row[j].retries, row[j].max)
  BY QueueParts, LockWrites
<1>2. MidMethod(p) /\ proc[p] # "down"
  BY <1>1 DEF QueueInv
<1>3. Exists(j) /\ NoRun(j)
  BY <1>1, <1>2 DEF MidMethod, Exists, Stored
<1>4. RowSet(j, "processing", row[j].due, LockDuration + 1, row[j].retries, row[j].max)
  BY <1>1, <1>3
<1>5. runs' = runs /\ proc' = proc
  BY DEF Lock
<1>6. ClaimedOnce' /\ \A r \in runs' : Leased(r)'
  BY <1>1, <1>3, <1>4, <1>5, LeavesRuns DEF NoRun, RowSet
<1>7. \A i \in Jobs : TriesOK(i)'
  BY <1>1, <1>4, QueueParts, TriesSet DEF TriesOK
<1>8. sync[p].todo \subseteq Jobs /\ sync[p].got \subseteq Jobs
  BY <1>1, QueueParts, MethodFields
<1>9. MidMethod(p)'
  <2>1. sync'[p].todo \cap sync'[p].got = {}
    BY <1>1, <1>2 DEF MidMethod
  <2>2. ASSUME NEW i \in sync'[p].todo
        PROVE  row'[i].status \in {"pending", "processing"} /\ NoRun(i)'
    BY <1>1, <1>2, <1>4, <1>5, <1>8 DEF MidMethod, RowSet, NoRun
  <2>3. ASSUME NEW i \in sync'[p].got
        PROVE  row'[i].status = "processing" /\ row'[i].lease = LockDuration + 1 /\ NoRun(i)'
    BY <1>1, <1>2, <1>3, <1>4, <1>5, <1>8 DEF MidMethod, RowSet, NoRun
  <2> QED
    BY <1>1, <2>1, <2>2, <2>3 DEF MidMethod
<1> QED
  BY <1>2, <1>5, <1>6, <1>7, <1>9 DEF Handled, OneProcess

LEMMA ExecuteStep ==
  ASSUME QueueInv, OneProcess, NEW p \in Processes, Execute(p)
  PROVE  Handled'
<1>1. /\ sync'[p] = NoSync /\ sync[p] # NoSync /\ sync[p].pc = "lock"
      /\ runs \subseteq runs'
      /\ \A r \in runs' \ runs :
           /\ r.job \in sync[p].got
           /\ r = [proc |-> p, job |-> r.job, counted |-> TRUE, age |-> 0]
  BY QueueParts, Started
<1>2. MidMethod(p)
  BY <1>1 DEF QueueInv
<1>3. row' = row
  BY DEF Execute
<1>4. ASSUME NEW r \in runs' PROVE Leased(r)'
  <2>1. CASE r \in runs
    BY <1>3, <2>1, QueueParts DEF Leased
  <2>2. CASE r \notin runs
    <3>1. r.age = 0 /\ r.job \in sync[p].got
      BY <1>1, <2>2
    <3>2. row[r.job].status = "processing" /\ row[r.job].lease = LockDuration + 1
      BY <1>1, <1>2, <3>1 DEF MidMethod
    <3> QED
      BY <1>3, <3>1, <3>2, PocketlessJobsAssumption DEF Leased
  <2> QED
    BY <2>1, <2>2
<1>5. ASSUME NEW r1 \in runs', NEW r2 \in runs', r1.job = r2.job PROVE r1 = r2
  <2>1. ASSUME NEW r \in runs, NEW t \in runs' \ runs PROVE r.job # t.job
    BY <1>1, <1>2 DEF MidMethod, NoRun
  <2>2. CASE r1 \in runs /\ r2 \in runs
    BY <1>5, <2>2, QueueParts DEF ClaimedOnce
  <2>3. CASE r1 \notin runs /\ r2 \notin runs
    <3>1. /\ r1 = [proc |-> p, job |-> r1.job, counted |-> TRUE, age |-> 0]
          /\ r2 = [proc |-> p, job |-> r2.job, counted |-> TRUE, age |-> 0]
      BY <1>1, <2>3
    <3> QED
      BY <1>5, <3>1, Zenon
  <2> QED
    BY <1>5, <2>1, <2>2, <2>3
<1>6. \A i \in Jobs : TriesOK(i)'
  BY <1>3, QueueParts DEF TriesOK
<1>7. \A q \in Processes : sync'[q] = NoSync
  BY <1>1 DEF OneProcess
<1> QED
  BY <1>4, <1>5, <1>6, <1>7 DEF Handled, ClaimedOnce

LEMMA ReturnStep ==
  ASSUME QueueInv, OneProcess, NEW r \in runs, Succeed(r) \/ Fail(r)
  PROVE  Handled'
<1>1. r \in RunType /\ r.job \in Jobs /\ r.proc \in Processes
  BY QueueParts
<1>2. /\ runs' = runs \ {r} /\ sync[r.proc] = NoSync
      /\ \/ /\ row' = row
            /\ \/ sync' = sync
               \/ /\ sync'[r.proc].pc = "fail" /\ sync'[r.proc].job = r.job
                  /\ sync'[r.proc].retries = row[r.job].retries
                  /\ sync'[r.proc].max = row[r.job].max
         \/ /\ sync' = sync
            /\ RowSet(r.job, "completed", row[r.job].due, NoLease, row[r.job].retries,
                      row[r.job].max)
  BY <1>1, QueueParts, ReturnWrites
<1>3. NoRun(r.job)'
  BY <1>2, QueueParts DEF NoRun, ClaimedOnce
<1>4. proc' = proc /\ proc[r.proc] # "down"
  BY DEF Succeed, Fail, Free
<1>5. ClaimedOnce' /\ \A t \in runs' : Leased(t)'
  <2>1. \A i \in Jobs : i # r.job => row'[i] = row[i]
    BY <1>2 DEF RowSet
  <2>2. runs' \subseteq runs /\ \A t \in runs' : t.job # r.job
    BY <1>2, <1>3 DEF NoRun
  <2> QED
    BY <1>1, <2>1, <2>2, LeavesRuns
<1>6. \A i \in Jobs : TriesOK(i)'
  <2>1. CASE row' = row
    BY <2>1, QueueParts DEF TriesOK
  <2>2. CASE RowSet(r.job, "completed", row[r.job].due, NoLease, row[r.job].retries, row[r.job].max)
    BY <1>1, <2>2, QueueParts, TriesSet DEF TriesOK
  <2> QED
    BY <1>2, <2>1, <2>2
<1>7. ASSUME sync'[r.proc] # NoSync PROVE MidMethod(r.proc)'
  <2>1. row' = row /\ sync'[r.proc].pc = "fail" /\ sync'[r.proc].job = r.job
        /\ sync'[r.proc].retries = row[r.job].retries /\ sync'[r.proc].max = row[r.job].max
    BY <1>2, <1>7
  <2>2. row[r.job].status = "processing"
    BY QueueParts DEF Leased
  <2> QED
    BY <1>3, <2>1, <2>2 DEF MidMethod
<1> QED
  BY <1>1, <1>4, <1>5, <1>6, <1>7 DEF Handled, OneProcess

(* A crash ends the method and the handlers of the one process. *)
LEMMA CrashStep ==
  ASSUME QueueInv, OneProcess, NEW p \in Processes, Crash(p)
  PROVE  Handled'
<1>1. runs' \subseteq runs /\ row' = row /\ Enter(p, NoSync)
  BY DEF Crash
<1>2. sync'[p] = NoSync
  BY <1>1, QueueParts, Entered
<1> QED
  BY <1>1, <1>2, SameRows DEF Handled, OneProcess

LEMMA StopStep ==
  ASSUME QueueInv, OneProcess, NEW p \in Processes, Stop(p)
  PROVE  Handled'
<1>1. row' = row /\ sync' = sync /\ sync[p] = NoSync
  BY DEF Stop, Free
<1>2. \A r \in runs' : \E s \in runs :
        r.job = s.job /\ r.age = s.age /\ r = [s EXCEPT !.counted = @ /\ s.proc # p]
  BY QueueParts, CountsKept
<1>3. ASSUME NEW r \in runs' PROVE Leased(r)'
  BY <1>1, <1>2, QueueParts DEF Leased
<1>4. ASSUME NEW r1 \in runs', NEW r2 \in runs', r1.job = r2.job PROVE r1 = r2
  <2>1. PICK s1 \in runs : r1.job = s1.job /\ r1 = [s1 EXCEPT !.counted = @ /\ s1.proc # p]
    BY <1>2
  <2>2. PICK s2 \in runs : r2.job = s2.job /\ r2 = [s2 EXCEPT !.counted = @ /\ s2.proc # p]
    BY <1>2
  <2>3. s1 = s2
    BY <1>4, <2>1, <2>2, QueueParts DEF ClaimedOnce
  <2> QED
    BY <2>1, <2>2, <2>3, Zenon
<1>5. \A i \in Jobs : TriesOK(i)'
  BY <1>1, QueueParts DEF TriesOK
<1> QED
  BY <1>1, <1>3, <1>4, <1>5 DEF Handled, ClaimedOnce, OneProcess

(* No handler's job is stuck: its lease has not ended. *)
LEMMA BootStep ==
  ASSUME QueueInv, OneProcess, MaxRun <= LockDuration, NEW p \in Processes, Boot(p)
  PROVE  Handled'
<1>1. runs' = runs /\ sync' = sync /\ proc[p] = "down"
  BY DEF Boot
<1>2. \A q \in Processes : sync'[q] = NoSync
  BY <1>1 DEF OneProcess, QueueInv
<1>3. ASSUME NEW r \in runs PROVE row'[r.job] = row[r.job]
  <2>1. r.age <= MaxRun /\ r.age \in Nat /\ row[r.job].lease + r.age > LockDuration /\ r.job \in Jobs
    BY QueueParts DEF Leased
  <2>2. row[r.job].lease # 0
    BY <2>1, PocketlessJobsAssumption
  <2> QED
    BY <2>1, <2>2, QueueParts, RowsBooted
<1>4. ClaimedOnce' /\ \A r \in runs' : Leased(r)'
  BY <1>1, <1>3, QueueParts DEF ClaimedOnce, Leased
<1>5. ASSUME NEW j \in Jobs PROVE TriesOK(j)'
  BY QueueParts, RowsBooted DEF TriesOK
<1> QED
  BY <1>2, <1>4, <1>5 DEF Handled

LEMMA TickStep ==
  ASSUME QueueInv, MaxRun <= LockDuration, Tick
  PROVE  Handled'
<1>1. sync' = sync /\ \A p \in Processes : sync[p] = NoSync
  BY DEF Tick
<1>2. \A r \in runs' : \E s \in runs :
        r.job = s.job /\ r.age = s.age + 1 /\ s.age < MaxRun /\ r = [s EXCEPT !.age = @ + 1]
  BY QueueParts, HandlersAge
<1>3. ASSUME NEW r \in runs' PROVE Leased(r)'
  <2>1. PICK s \in runs : r.job = s.job /\ r.age = s.age + 1 /\ s.age < MaxRun
    BY <1>2
  <2>2. /\ row[s.job].status = "processing" /\ s.age \in Nat /\ s.job \in Jobs
        /\ row[s.job].lease + s.age > LockDuration
    BY QueueParts DEF Leased
  <2>3. row[s.job].lease \in Nat
    BY <2>2, QueueParts, RowFields DEF LeaseShape
  <2>4. row[s.job].lease > 0
    BY <2>1, <2>2, <2>3, PocketlessJobsAssumption
  <2>5. Earlier(row[s.job].lease) = row[s.job].lease - 1
    BY <2>3, <2>4, PocketlessJobsAssumption DEF Earlier
  <2>6. row'[s.job].status = "processing" /\ row'[s.job].lease = row[s.job].lease - 1
    BY <2>2, <2>5, QueueParts, RowsTicked
  <2> QED
    BY <2>1, <2>2, <2>3, <2>6, PocketlessJobsAssumption DEF Leased
<1>4. ASSUME NEW r1 \in runs', NEW r2 \in runs', r1.job = r2.job PROVE r1 = r2
  <2>1. PICK s1 \in runs : r1.job = s1.job /\ r1 = [s1 EXCEPT !.age = @ + 1]
    BY <1>2
  <2>2. PICK s2 \in runs : r2.job = s2.job /\ r2 = [s2 EXCEPT !.age = @ + 1]
    BY <1>2
  <2>3. s1 = s2
    BY <1>4, <2>1, <2>2, QueueParts DEF ClaimedOnce
  <2> QED
    BY <2>1, <2>2, <2>3, Zenon
<1>5. ASSUME NEW j \in Jobs PROVE TriesOK(j)'
  BY QueueParts, RowsTicked DEF TriesOK
<1> QED
  BY <1>1, <1>3, <1>4, <1>5 DEF Handled, ClaimedOnce

LEMMA QueueInit == JobsInit => QueueInv
<1> SUFFICES ASSUME JobsInit PROVE QueueInv
  OBVIOUS
<1>1. JobsTypeOK
  BY JobsInitOK
<1>2. runs = {} /\ \A p \in Processes : sync[p] = NoSync
  BY DEF JobsInit
<1>3. \A j \in Jobs : TriesOK(j)
  BY DEF JobsInit, TriesOK
<1> QED
  BY <1>1, <1>2, <1>3 DEF QueueInv, ClaimedOnce

LEMMA QueueStep ==
  ASSUME OneProcess, MaxRun <= LockDuration, QueueInv, [JobsNext]_jobsVars
  PROVE  QueueInv'
<1>1. JobsTypeOK'
  BY JobsTypeStep DEF QueueInv
<1>2. Handled'
  <2>1. CASE UNCHANGED jobsVars
    BY <2>1 DEF jobsVars, Handled, QueueInv, ClaimedOnce, Leased, MidMethod, NoRun, TriesOK
  <2>2. ASSUME NEW p \in Processes, NEW j \in Jobs, Enqueue(p, j) \/ Check(p, j) PROVE Handled'
    BY <2>2, EnqueueStep, CheckStep
  <2>3. ASSUME NEW p \in Processes, Step(p) PROVE Handled'
    BY <2>3, SelectStep, LockStep, ExecuteStep, MethodStep DEF Step
  <2>4. ASSUME NEW p \in Processes, Return(p) PROVE Handled'
    BY <2>4, ReturnStep DEF Return
  <2>5. ASSUME NEW p \in Processes, Start(p) PROVE Handled'
    <3>1. sync' = sync /\ sync[p] = NoSync /\ row' = row /\ runs' = runs
      BY <2>5 DEF Start, Free
    <3> QED
      BY <3>1, SameRows DEF Handled, OneProcess
  <2>6. ASSUME NEW p \in Processes, Stop(p) \/ Crash(p) \/ Boot(p) PROVE Handled'
    BY <2>6, StopStep, CrashStep, BootStep
  <2> QED
    BY <2>1, <2>2, <2>3, <2>4, <2>5, <2>6, TickStep DEF JobsNext
<1> QED
  BY <1>1, <1>2 DEF Handled, QueueInv

LEMMA QueueInvariant ==
  ASSUME OneProcess, MaxRun <= LockDuration
  PROVE  JobsSpec => []QueueInv
<1>1. QueueInv /\ [JobsNext]_jobsVars => QueueInv'
  BY QueueStep
<1> QED
  BY <1>1, QueueInit, PTL DEF JobsSpec

(* No job is run twice at the same time, whatever is stopped, started,     *)
(* requeued or crashes, for any number of jobs, workers and batches: the   *)
(* port's polls are atomic as long as one process owns the database and a  *)
(* handler returns before its lease ends.                                  *)
THEOREM PortClaimsOnce ==
  ASSUME OneProcess, MaxRun <= LockDuration
  PROVE  JobsSpec => []ClaimedOnce
<1>1. QueueInv => ClaimedOnce
  BY DEF QueueInv
<1> QED
  BY <1>1, QueueInvariant, PTL
-----------------------------------------------------------------------------
(* The steps of a job's life, as the rows are written. *)
LEMMA LifeEdge ==
  ASSUME QueueInv, NEW j \in Jobs, NEW d, NEW l
  PROVE  /\ \A m \in RetryLimits :
              row[j].status = "unborn" /\ RowSet(j, "pending", d, l, 0, m) => Life!Submit(j)
         /\ row[j].status = "pending" /\ RowSet(j, "processing", d, l, row[j].retries, row[j].max)
              => Life!Take(j)
         /\ row[j].status = "processing" /\ RowSet(j, "completed", d, l, row[j].retries, row[j].max)
              => Life!Complete(j)
         /\ row[j].status = "processing" /\ row[j].retries + 1 < row[j].max
            /\ RowSet(j, "pending", d, l, row[j].retries + 1, row[j].max)
              => Life!Retry(j)
         /\ row[j].status = "processing" /\ row[j].retries + 1 = row[j].max
            /\ RowSet(j, "failed", d, l, row[j].retries, row[j].max)
              => Life!GiveUp(j)
         /\ row[j].status \in {"pending", "failed"} /\ RowSet(j, "deleted", d, l, 0, row[j].max)
              => Life!Withdraw(j)
         /\ row[j].status = "failed" /\ RowSet(j, "pending", d, l, 0, row[j].max)
              => Life!Resubmit(j)
<1>1. ASSUME NEW m \in RetryLimits, row[j].status = "unborn", RowSet(j, "pending", d, l, 0, m)
      PROVE  Life!Submit(j)
  BY <1>1, QueueParts DEF TriesOK, RowSet, Life!Submit, Life!Move
<1>2. ASSUME row[j].status = "pending", RowSet(j, "processing", d, l, row[j].retries, row[j].max)
      PROVE  Life!Take(j)
  BY <1>2 DEF RowSet, Life!Take, Life!Move
<1>3. ASSUME row[j].status = "processing", RowSet(j, "completed", d, l, row[j].retries, row[j].max)
      PROVE  Life!Complete(j)
  BY <1>3 DEF RowSet, Life!Complete, Life!Move
<1>4. ASSUME row[j].status = "processing", row[j].retries + 1 < row[j].max,
             RowSet(j, "pending", d, l, row[j].retries + 1, row[j].max)
      PROVE  Life!Retry(j)
  BY <1>4 DEF RowSet, Life!Retry, Life!Move
<1>5. ASSUME row[j].status = "processing", row[j].retries + 1 = row[j].max,
             RowSet(j, "failed", d, l, row[j].retries, row[j].max)
      PROVE  Life!GiveUp(j)
  BY <1>5 DEF RowSet, Life!GiveUp, Life!Move
<1>6. ASSUME row[j].status \in {"pending", "failed"}, RowSet(j, "deleted", d, l, 0, row[j].max)
      PROVE  Life!Withdraw(j)
  BY <1>6 DEF RowSet, Life!Withdraw, Life!Move, Life!Restart
<1>7. ASSUME row[j].status = "failed", RowSet(j, "pending", d, l, 0, row[j].max)
      PROVE  Life!Resubmit(j)
  BY <1>7 DEF RowSet, Life!Resubmit, Life!Move, Life!Restart
<1> QED
  BY <1>1, <1>2, <1>3, <1>4, <1>5, <1>6, <1>7

LEMMA LifeKept ==
  ASSUME \A i \in Jobs : row'[i].status = row[i].status /\ row'[i].retries = row[i].retries
                         /\ row'[i].max = row[i].max
  PROVE  UNCHANGED Life!vars
BY DEF Life!vars

LEMMA LifeStep ==
  ASSUME QueueInv, MaxRun <= LockDuration, [JobsNext]_jobsVars
  PROVE  [Life!Next \/ TakenBack]_(Life!vars)
<1> DEFINE Goal == Life!Next \/ TakenBack \/ UNCHANGED Life!vars
<1>1. ASSUME row' = row PROVE Goal
  BY <1>1, LifeKept
<1>2. ASSUME NEW p \in Processes, NEW j \in Jobs, Enqueue(p, j) PROVE Goal
  <2>1. PICK m \in RetryLimits, d \in Delays : RowSet(j, "pending", d, NoLease, 0, m)
    BY <1>2, QueueParts, RowBorn
  <2>2. row[j].status = "unborn"
    BY <1>2 DEF Enqueue
  <2>3. Life!Submit(j)
    BY <2>1, <2>2, LifeEdge
  <2> QED
    BY <2>3 DEF Life!Next
<1>3. ASSUME NEW p \in Processes, DeleteRow(p) \/ RequeueRow(p) \/ FailRow(p) PROVE Goal
  <2> DEFINE s == sync[p]
  <2>1. PICK j \in Jobs : s # NoSync /\ j = s.job
    BY <1>3, QueueParts, MethodWrites
  <2>2. MidMethod(p) /\ TriesOK(j) /\ row[j].retries \in Nat /\ row[j].max \in Nat
    BY <2>1, QueueParts DEF QueueInv
  <2>3. CASE ~Exists(j)
    BY <1>1, <1>3, <2>1, <2>3, QueueParts, MethodWrites
  <2>4. CASE Exists(j)
    <3>1. \/ s.pc = "delete" /\ RowSet(j, "deleted", row[j].due, NoLease, 0, row[j].max)
          \/ s.pc = "requeue" /\ RowSet(j, "pending", 0, NoLease, 0, row[j].max)
          \/ /\ s.pc = "fail" /\ Retryable(s)
             /\ RowSet(j, "pending", Backoff(s.retries + 1), NoLease, s.retries + 1, row[j].max)
          \/ /\ s.pc = "fail" /\ ~Retryable(s)
             /\ RowSet(j, "failed", row[j].due, NoLease, row[j].retries, row[j].max)
      BY <1>3, <2>1, <2>4, QueueParts, MethodWrites
    <3>2. CASE s.pc = "delete" /\ RowSet(j, "deleted", row[j].due, NoLease, 0, row[j].max)
      <4>1. row[j].status \in {"pending", "failed"}
        BY <2>1, <2>2, <3>2 DEF MidMethod
      <4>2. Life!Withdraw(j)
        BY <2>1, <3>2, <4>1, LifeEdge
      <4> QED
        BY <2>1, <4>2 DEF Life!Next
    <3>3. CASE s.pc = "requeue" /\ RowSet(j, "pending", 0, NoLease, 0, row[j].max)
      <4>1. row[j].status = "failed"
        BY <2>1, <2>2, <3>3 DEF MidMethod
      <4>2. Life!Resubmit(j)
        BY <2>1, <3>3, <4>1, LifeEdge
      <4> QED
        BY <2>1, <4>2 DEF Life!Next
    <3>4. CASE /\ s.pc = "fail" /\ Retryable(s)
               /\ RowSet(j, "pending", Backoff(s.retries + 1), NoLease, s.retries + 1, row[j].max)
      <4>1. row[j].status = "processing" /\ s.retries = row[j].retries /\ s.max = row[j].max
        BY <2>1, <2>2, <3>4 DEF MidMethod
      <4>2. row[j].retries + 1 < row[j].max
        BY <3>4, <4>1 DEF Retryable
      <4>3. Life!Retry(j)
        BY <2>1, <3>4, <4>1, <4>2, LifeEdge
      <4> QED
        BY <2>1, <4>3 DEF Life!Next
    <3>5. CASE /\ s.pc = "fail" /\ ~Retryable(s)
               /\ RowSet(j, "failed", row[j].due, NoLease, row[j].retries, row[j].max)
      <4>1. row[j].status = "processing" /\ s.retries = row[j].retries /\ s.max = row[j].max
        BY <2>1, <2>2, <3>5 DEF MidMethod
      <4>2. row[j].retries + 1 = row[j].max
        BY <2>1, <2>2, <3>5, <4>1 DEF Retryable, TriesOK
      <4>3. Life!GiveUp(j)
        BY <2>1, <3>5, <4>1, <4>2, LifeEdge
      <4> QED
        BY <2>1, <4>3 DEF Life!Next
    <3> QED
      BY <3>1, <3>2, <3>3, <3>4, <3>5
  <2> QED
    BY <2>3, <2>4
<1>4. ASSUME NEW p \in Processes, Lock(p) PROVE Goal
  <2>1. PICK j \in sync[p].todo :
           /\ j \in Jobs /\ sync[p] # NoSync /\ sync[p].pc = "lock"
           /\ ~Exists(j) => row' = row
           /\ Exists(j) => RowSet(j, "processing", row[j].due, LockDuration + 1,
                                  row[j].retries, row[j].max)
    BY <1>4, QueueParts, LockWrites
  <2>2. row[j].status \in {"pending", "processing"}
    BY <2>1 DEF QueueInv, MidMethod
  <2>3. RowSet(j, "processing", row[j].due, LockDuration + 1, row[j].retries, row[j].max)
    BY <2>1, <2>2 DEF Exists, Stored
  <2>4. CASE row[j].status = "pending"
    <3>1. Life!Take(j)
      BY <2>1, <2>3, <2>4, LifeEdge
    <3> QED
      BY <2>1, <3>1 DEF Life!Next
  <2>5. CASE row[j].status = "processing"
    BY <2>3, <2>5, LifeKept DEF RowSet
  <2> QED
    BY <2>2, <2>4, <2>5
<1>5. ASSUME NEW r \in runs, Succeed(r) \/ Fail(r) PROVE Goal
  <2>1. r \in RunType /\ r.job \in Jobs /\ row[r.job].status = "processing"
    BY QueueParts DEF Leased
  <2>2. \/ row' = row
        \/ RowSet(r.job, "completed", row[r.job].due, NoLease, row[r.job].retries, row[r.job].max)
    BY <1>5, <2>1, QueueParts, ReturnWrites
  <2>3. ASSUME RowSet(r.job, "completed", row[r.job].due, NoLease, row[r.job].retries,
                      row[r.job].max)
        PROVE  Goal
    <3>1. Life!Complete(r.job)
      BY <2>1, <2>3, LifeEdge
    <3> QED
      BY <2>1, <3>1 DEF Life!Next
  <2> QED
    BY <1>1, <2>2, <2>3
<1>6. ASSUME NEW p \in Processes, Boot(p) PROVE Goal
  <2>1. ASSUME NEW j \in Jobs, NEW r \in runs, r.job = j PROVE row[j].lease # 0
    <3>1. r.age <= MaxRun /\ r.age \in Nat /\ row[j].lease + r.age > LockDuration
      BY <2>1, QueueParts DEF Leased
    <3> QED
      BY <3>1, PocketlessJobsAssumption
  <2>2. TakenBack
    BY <1>6, <2>1, QueueParts, RowsBooted DEF TakenBack
  <2> QED
    BY <2>2
<1>7. ASSUME Tick PROVE Goal
  BY <1>7, QueueParts, RowsTicked, LifeKept
<1>8. ASSUME NEW p \in Processes,
             \/ \E j \in Jobs : Check(p, j)
             \/ Select(p) \/ Execute(p) \/ Start(p) \/ Stop(p) \/ Crash(p)
      PROVE  Goal
  BY <1>1, <1>8 DEF Check, Select, Execute, Start, Stop, Crash
<1>9. ASSUME UNCHANGED jobsVars PROVE Goal
  BY <1>1, <1>9 DEF jobsVars
<1> HIDE DEF Goal
<1>10. Goal
  BY <1>2, <1>3, <1>4, <1>5, <1>6, <1>7, <1>8, <1>9 DEF JobsNext, Step, Return
<1> QED
  BY <1>10 DEF Goal

(* The port's queue makes the promise of the Go queue, under the same      *)
(* conditions: whatever its processes, leases and polls do, a job moves as *)
(* JobLifecycle says, or a restart takes it back once its lease is over.   *)
THEOREM PortKeepsLifecycle ==
  ASSUME OneProcess, MaxRun <= LockDuration
  PROVE  JobsSpec => SameLifecycle
<1>1. JobsInit => Life!Init
  BY DEF JobsInit, Life!Init
<1>2. QueueInv /\ [JobsNext]_jobsVars => [Life!Next \/ TakenBack]_(Life!vars)
  BY LifeStep
<1> QED
  BY <1>1, <1>2, QueueInvariant, PTL DEF JobsSpec, SameLifecycle
=============================================================================
