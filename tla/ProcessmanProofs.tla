-------------------------- MODULE ProcessmanProofs --------------------------
(* Theorems about Processman, for any number of supervisors, requests and  *)
(* processes, and any retry limit.                                         *)
EXTENDS Processman, FiniteSetTheorems, WellFoundedInduction, TLAPS

USE ProcessmanAssumption

LEMMA CountedNat == ASSUME NEW k \in Nat PROVE Counted(k) \in Nat
BY DEF Counted

LEMMA PutType ==
  ASSUME SupOK, NEW s \in Sups, NEW k \in Nat, NEW p \in Pids \cup {NoPid},
         NEW pc \in {"free", "check", "announce", "start", "fork", "started", "wait",
                     "reaped", "crashed", "sleep"},
         Put(s, pc, k, p)
  PROVE  SupOK'
BY DEF SupOK, Put

LEMMA SupStep == TypeOK /\ [Next]_vars => SupOK'
<1> SUFFICES ASSUME TypeOK, [Next]_vars PROVE SupOK'
  OBVIOUS
<1>0. SupOK
  BY DEF TypeOK
<1>1. ASSUME NEW s \in Sups, Supervise(s) PROVE SupOK'
  <2>0. sup[s].fails \in Nat /\ sup[s].proc \in Pids \cup {NoPid}
    BY <1>0 DEF SupOK
  <2>1. Counted(sup[s].fails) \in Nat
    BY <2>0, CountedNat
  <2>2. Return(s) => SupOK'
    BY <1>0 DEF Return, NoSup, SupOK
  <2>3. CASE Check(s)
    BY <1>0, <2>0, <2>2, <2>3, PutType DEF Check, Goto
  <2>4. CASE Announce(s) \/ StartCmd(s) \/ Record(s) \/ Reap(s) \/ Backoff(s) \/ Wake(s)
    BY <1>0, <2>0, <2>4, PutType DEF Announce, StartCmd, Record, Reap, Backoff, Wake, Goto
  <2>5. CASE Launch(s)
    BY <1>0, <2>0, <2>5, PutType DEF Launch
  <2>6. CASE LaunchFails(s)
    BY <1>0, <2>1, <2>6, PutType DEF LaunchFails
  <2>7. CASE Exited(s)
    BY <1>0, <2>1, <2>7, PutType DEF Exited
  <2>8. CASE GiveUp(s) \/ WakeCancelled(s)
    BY <2>2, <2>8 DEF GiveUp, WakeCancelled
  <2> QED
    BY <1>1, <2>3, <2>4, <2>5, <2>6, <2>7, <2>8 DEF Supervise
<1>2. ASSUME NEW r \in Requests, Spawn(r) PROVE SupOK'
  BY <1>0, <1>2 DEF Spawn, NewSup, SupOK
<1>3. CASE UNCHANGED sup
  BY <1>0, <1>3 DEF SupOK
<1>4. ASSUME NEW r \in Requests, Halt(r) PROVE SupOK'
  BY <1>4 DEF Halt, NoSup, SupOK
<1> QED
  BY <1>1, <1>2, <1>3, <1>4
  DEF Next, Request, Exit, StopRequest, RestartRequest, Shutdown, ReadPid, Send, StartRequest, vars

LEMMA StateStep == TypeOK /\ [Next]_vars => StateOK'
<1> SUFFICES ASSUME TypeOK, [Next]_vars PROVE StateOK'
  OBVIOUS
<1>0. StateOK /\ SupOK
  BY DEF TypeOK
<1>1. ASSUME NEW s \in Sups, Supervise(s) PROVE StateOK'
  <2>1. sup[s].proc \in Pids \cup {NoPid}
    BY <1>0 DEF SupOK
  <2> QED
    BY <1>0, <1>1, <2>1
    DEF Supervise, Check, Announce, StartCmd, Launch, LaunchFails, Record, Reap, Exited, GiveUp,
        Backoff, Wake, WakeCancelled, UpdateState, StateOK
<1>2. CASE \E r \in Requests : Request(r)
  BY <1>0, <1>2 DEF Request, StopRequest, RestartRequest, Shutdown, ReadPid, Send, StartRequest,
                    Spawn, Halt, StateOK
<1>3. CASE UNCHANGED <<status, pid, cancelled, halted>>
  BY <1>0, <1>3 DEF StateOK
<1> QED
  BY <1>1, <1>2, <1>3 DEF Next, Exit, vars

LEMMA ProcStep == TypeOK /\ [Next]_vars => ProcOK'
<1> SUFFICES ASSUME TypeOK, [Next]_vars PROVE ProcOK'
  OBVIOUS
<1>0. ProcOK
  BY DEF TypeOK
<1>1. ASSUME NEW s \in Sups, Launch(s) \/ Reap(s) PROVE ProcOK'
  BY <1>0, <1>1 DEF Launch, Reap, ProcOK
<1>2. ASSUME NEW p \in Pids, Exit(p) PROVE ProcOK'
  BY <1>0, <1>2 DEF Exit, ProcOK
<1>3. ASSUME NEW r \in Requests, Send(r) PROVE ProcOK'
  BY <1>0, <1>3 DEF Send, ProcOK
<1>4. CASE UNCHANGED proc
  BY <1>0, <1>4 DEF ProcOK
<1> QED
  BY <1>1, <1>2, <1>3, <1>4
  DEF Next, Supervise, Check, Announce, StartCmd, LaunchFails, Record, Exited, GiveUp, Backoff,
      Wake, WakeCancelled, Request, StopRequest, RestartRequest, Shutdown, ReadPid, StartRequest,
      Spawn, Halt, vars

SendOK == \A r \in Requests : req[r].pc = "send" => req[r].pid \in Pids

ReqRecord ==
  [pc : {"idle", "read", "send", "spawn", "return"}, pid : Pids \cup {NoPid}, last : BOOLEAN]

LEMMA ReturnedType ==
  ASSUME ReqOK, NEW r \in Requests
  PROVE  Returned(r) \in ReqRecord /\ Returned(r).pc # "send"
BY DEF ReqOK, Returned, NoReq, ReqRecord

LEMMA ReqStep == TypeOK /\ [Next]_vars => ReqOK' /\ SendOK'
<1> SUFFICES ASSUME TypeOK, [Next]_vars PROVE ReqOK' /\ SendOK'
  OBVIOUS
<1>0. ReqOK /\ SendOK /\ StateOK
  BY DEF TypeOK, SendOK
<1>1. ASSUME NEW r \in Requests, NEW q \in ReqRecord, q.pc = "send" => q.pid \in Pids,
             req' = [req EXCEPT ![r] = q]
      PROVE  ReqOK' /\ SendOK'
  BY <1>0, <1>1 DEF ReqOK, SendOK, ReqRecord
<1>2. ASSUME NEW r \in Requests, NEW pc \in {"read", "spawn"}, req' = [req EXCEPT ![r].pc = pc]
      PROVE  ReqOK' /\ SendOK'
  BY <1>0, <1>2 DEF ReqOK, SendOK
<1>3. ASSUME NEW r \in Requests, ReadPid(r) PROVE ReqOK' /\ SendOK'
  <2>1. CASE pid = NoPid
    <3>1. req' = [req EXCEPT ![r] = Returned(r)]
      BY <1>3, <2>1 DEF ReadPid
    <3> QED
      BY <1>0, <1>1, <3>1, ReturnedType
  <2>2. CASE pid # NoPid
    <3> DEFINE q == [req[r] EXCEPT !.pc = "send", !.pid = pid]
    <3>1. q \in ReqRecord /\ q.pid \in Pids
      BY <1>0, <2>2 DEF StateOK, ReqOK, ReqRecord
    <3>2. req' = [req EXCEPT ![r] = q]
      BY <1>3, <2>2 DEF ReadPid
    <3> QED
      BY <1>1, <3>1, <3>2
  <2> QED
    BY <2>1, <2>2
<1>4. ASSUME NEW r \in Requests, Send(r) PROVE ReqOK' /\ SendOK'
  BY <1>0, <1>1, <1>4, ReturnedType DEF Send
<1>5. CASE UNCHANGED req
  BY <1>0, <1>5 DEF ReqOK, SendOK
<1>6. ASSUME NEW r \in Requests, StopRequest(r) \/ RestartRequest(r) \/ StartRequest(r)
      PROVE ReqOK' /\ SendOK'
  BY <1>2, <1>6 DEF StopRequest, RestartRequest, StartRequest
<1>7. ASSUME NEW r \in Requests, Shutdown(r) PROVE ReqOK' /\ SendOK'
  BY <1>0, <1>7 DEF Shutdown, ReqOK, SendOK
<1>8. NoReq \in ReqRecord /\ NoReq.pc # "send"
  BY DEF NoReq, ReqRecord
<1>9. ASSUME NEW r \in Requests, Spawn(r) PROVE ReqOK' /\ SendOK'
  BY <1>1, <1>8, <1>9 DEF Spawn
<1>10. ASSUME NEW r \in Requests, Halt(r) PROVE ReqOK' /\ SendOK'
  BY <1>8, <1>10 DEF Halt, ReqOK, SendOK, ReqRecord
<1> QED
  BY <1>3, <1>4, <1>5, <1>6, <1>7, <1>9, <1>10
  DEF Next, Supervise, Check, Announce, StartCmd, Launch, LaunchFails, Record, Reap, Exited, GiveUp,
      Backoff, Wake, WakeCancelled, Request, Exit, vars

LEMMA TypeInit == Init => TypeOK
<1> SUFFICES ASSUME Init PROVE TypeOK
  OBVIOUS
<1>1. StateOK /\ ProcOK
  BY DEF Init, StateOK, ProcOK
<1>2. SupOK
  BY DEF Init, SupOK, NoSup, NewSup
<1>3. ReqOK /\ SendOK
  BY DEF Init, ReqOK, SendOK, NoReq
<1> QED
  BY <1>1, <1>2, <1>3 DEF TypeOK, SendOK

LEMMA TypeStep == TypeOK /\ [Next]_vars => TypeOK'
BY SupStep, StateStep, ProcStep, ReqStep DEF TypeOK, SendOK

(* Every reachable state is well typed. *)
THEOREM TypeCorrect == Spec => []TypeOK
BY TypeInit, TypeStep, PTL DEF Spec

-----------------------------------------------------------------------------
(* What a supervisor waits for exists, which makes Supervised inductive. *)
Held ==
  \A s \in Sups : Waiting(s) => sup[s].proc \in Pids /\ proc[sup[s].proc] # "free"

Custody == TypeOK /\ Held /\ Supervised

(* A supervisor's step that leaves the process table alone. *)
LEMMA QuietPut ==
  ASSUME Custody, NEW s \in Sups, NEW pc, NEW k, NEW p, Put(s, pc, k, p), UNCHANGED <<proc, halted>>,
         Waiting(s) <=> pc \in {"started", "wait"},
         Waiting(s) => p = sup[s].proc
  PROVE  Held' /\ Supervised'
BY DEF Custody, TypeOK, SupOK, Held, Supervised, Waiting, Put

LEMMA QuietReturn ==
  ASSUME Custody, NEW s \in Sups, Return(s), UNCHANGED <<proc, halted>>, ~Waiting(s)
  PROVE  Held' /\ Supervised'
BY DEF Custody, TypeOK, SupOK, Held, Supervised, Waiting, Return, NoSup

LEMMA LaunchStep ==
  ASSUME Custody, NEW s \in Sups, Launch(s)
  PROVE  Held' /\ Supervised'
<1>1. PICK p \in Pids :
        /\ proc[p] = "free"
        /\ proc' = [proc EXCEPT ![p] = "alive"]
        /\ Put(s, "started", sup[s].fails, p)
  BY DEF Launch
<1>2. sup[s].pc = "fork" /\ UNCHANGED halted
  BY DEF Launch
<1> QED
  BY <1>1, <1>2 DEF Custody, TypeOK, SupOK, ProcOK, Held, Supervised, Waiting, Put

LEMMA ReapStep ==
  ASSUME Custody, NEW s \in Sups, Reap(s)
  PROVE  Held' /\ Supervised'
<1>1. Put(s, "reaped", sup[s].fails, sup[s].proc)
  BY DEF Reap, Goto
<1>2. sup[s].pc = "wait" /\ proc' = [proc EXCEPT ![sup[s].proc] = "free"] /\ UNCHANGED halted
  BY DEF Reap
<1> QED
  BY <1>1, <1>2 DEF Custody, TypeOK, SupOK, ProcOK, Held, Supervised, Waiting, Put

LEMMA CustodyStep == Custody /\ [Next]_vars => Held' /\ Supervised'
<1> SUFFICES ASSUME Custody, [Next]_vars PROVE Held' /\ Supervised'
  OBVIOUS
<1>1. ASSUME NEW s \in Sups, Supervise(s) PROVE Held' /\ Supervised'
  <2>1. CASE Check(s)
    BY <2>1, QuietPut, QuietReturn DEF Check, Goto, Waiting
  <2>2. CASE Announce(s) \/ StartCmd(s) \/ Record(s) \/ Backoff(s) \/ Wake(s)
    BY <2>2, QuietPut DEF Announce, StartCmd, Record, Backoff, Wake, Goto, Waiting
  <2>3. CASE LaunchFails(s) \/ Exited(s)
    BY <2>3, QuietPut DEF LaunchFails, Exited, Waiting
  <2>4. CASE GiveUp(s) \/ WakeCancelled(s)
    BY <2>4, QuietReturn DEF GiveUp, WakeCancelled, Waiting
  <2> QED
    BY <1>1, <2>1, <2>2, <2>3, <2>4, LaunchStep, ReapStep DEF Supervise
<1>2. ASSUME NEW p \in Pids, Exit(p) PROVE Held' /\ Supervised'
  BY <1>2 DEF Custody, TypeOK, SupOK, ProcOK, Held, Supervised, Waiting, Exit
<1>3. ASSUME NEW r \in Requests, Send(r) PROVE Held' /\ Supervised'
  BY <1>3 DEF Custody, TypeOK, SupOK, ProcOK, Held, Supervised, Waiting, Send
<1>4. ASSUME NEW r \in Requests, Spawn(r) PROVE Held' /\ Supervised'
  BY <1>4 DEF Custody, TypeOK, SupOK, Held, Supervised, Waiting, Spawn, NewSup
<1>5. CASE UNCHANGED <<sup, proc, halted>>
  BY <1>5 DEF Custody, Held, Supervised, Waiting
<1>6. ASSUME NEW r \in Requests, Halt(r) PROVE Held' /\ Supervised'
  BY <1>6 DEF Held, Supervised, Waiting, Halt, NoSup
<1> QED
  BY <1>1, <1>2, <1>3, <1>4, <1>5, <1>6
  DEF Next, Request, StopRequest, RestartRequest, Shutdown, ReadPid, StartRequest, vars

LEMMA CustodyInit == Init => Custody
<1> SUFFICES ASSUME Init PROVE Custody
  OBVIOUS
<1>1. Held /\ Supervised
  BY DEF Init, Held, Supervised, Waiting, NoSup, NewSup
<1> QED
  BY <1>1, TypeInit DEF Custody

LEMMA CustodyInvariant == Spec => []Custody
<1>1. Custody /\ [Next]_vars => Custody'
  BY TypeStep, CustodyStep DEF Custody
<1> QED
  BY <1>1, CustodyInit, PTL DEF Spec

(* Every process has one supervisor that waits for it, under every         *)
(* interleaving of supervisors, requests and shutdown.                     *)
THEOREM EveryProcessSupervised == Spec => []Supervised
<1>1. Custody => Supervised
  BY DEF Custody
<1> QED
  BY <1>1, CustodyInvariant, PTL

-----------------------------------------------------------------------------
(* Who owns the PID in the record: a supervisor's step keeps its owner,    *)
(* unless it is the owner's own write, which clears the record.            *)
Owns(s) == sup[s].proc = pid /\ sup[s].pc \in {"wait", "reaped"}

LEMMA OwnerKept ==
  ASSUME SupOK, RecordedPidOwned, UNCHANGED pid, NEW s \in Sups, ~Owns(s),
         \A t \in Sups : t # s => sup'[t] = sup[t]
  PROVE  RecordedPidOwned'
BY DEF RecordedPidOwned, Owns

LEMMA RecordStep == TypeOK /\ RecordedPidOwned /\ [Next]_vars => RecordedPidOwned'
<1> SUFFICES ASSUME TypeOK, RecordedPidOwned, [Next]_vars PROVE RecordedPidOwned'
  OBVIOUS
<1>0. SupOK
  BY DEF TypeOK
<1>1. ASSUME NEW s \in Sups, Record(s) PROVE RecordedPidOwned'
  BY <1>0, <1>1 DEF Record, UpdateState, Goto, Put, SupOK, RecordedPidOwned
<1>2. ASSUME pid' = NoPid PROVE RecordedPidOwned'
  BY <1>2 DEF RecordedPidOwned
<1>3. ASSUME NEW s \in Sups,
             Announce(s) \/ LaunchFails(s) \/ Exited(s) \/ GiveUp(s)
      PROVE  RecordedPidOwned'
  BY <1>2, <1>3 DEF Announce, LaunchFails, Exited, GiveUp, UpdateState
<1>4. ASSUME NEW s \in Sups, Check(s) \/ StartCmd(s) \/ Launch(s) \/ Backoff(s) \/ Wake(s) \/ WakeCancelled(s)
      PROVE  RecordedPidOwned'
  <2>1. ~Owns(s) /\ UNCHANGED pid
    BY <1>4 DEF Owns, Check, StartCmd, Launch, Backoff, Wake, WakeCancelled
  <2>2. \A t \in Sups : t # s => sup'[t] = sup[t]
    BY <1>0, <1>4 DEF SupOK, Check, StartCmd, Launch, Backoff, Wake, WakeCancelled, Goto, Put, Return
  <2> QED
    BY <1>0, <2>1, <2>2, OwnerKept
<1>5. ASSUME NEW s \in Sups, Reap(s) PROVE RecordedPidOwned'
  BY <1>0, <1>5 DEF Reap, Goto, Put, SupOK, RecordedPidOwned
<1>6. ASSUME NEW r \in Requests, Spawn(r) PROVE RecordedPidOwned'
  <2>1. PICK s \in Sups : sup[s].pc = "free" /\ sup' = [sup EXCEPT ![s] = NewSup]
    BY <1>6 DEF Spawn
  <2>2. UNCHANGED pid
    BY <1>6 DEF Spawn
  <2> QED
    BY <1>0, <2>1, <2>2, OwnerKept DEF Owns, SupOK
<1>7. ASSUME NEW r \in Requests, Halt(r) PROVE RecordedPidOwned'
  BY <1>2, <1>7 DEF Halt
<1>8. CASE UNCHANGED <<pid, sup>>
  BY <1>8 DEF RecordedPidOwned
<1> QED
  BY <1>1, <1>3, <1>4, <1>5, <1>6, <1>7, <1>8
  DEF Next, Supervise, Exit, Request, StopRequest, RestartRequest, Shutdown, ReadPid, Send,
      StartRequest, vars

(* The record never names a PID once the supervisor that reaped it has     *)
(* written so, whatever other supervisors of the id write meanwhile.       *)
THEOREM RecordOwned == Spec => []RecordedPidOwned
<1>1. Init => RecordedPidOwned
  BY DEF Init, RecordedPidOwned
<1> QED
  BY <1>1, RecordStep, TypeCorrect, PTL DEF Spec

-----------------------------------------------------------------------------
LEMMA BudgetStep == TypeOK /\ RetryBudget /\ [Next]_vars => RetryBudget'
<1> SUFFICES ASSUME TypeOK, RetryBudget, [Next]_vars PROVE RetryBudget'
  OBVIOUS
<1>0. SupOK
  BY DEF TypeOK
<1> DEFINE Trying == {"sleep", "check", "announce", "start", "fork"}
<1>1. ASSUME NEW s \in Sups, NEW pc, NEW p, Put(s, pc, sup[s].fails, p),
             pc \in Trying => MaxRetries < 0 \/ sup[s].fails <= MaxRetries
      PROVE  RetryBudget'
  BY <1>0, <1>1 DEF Put, SupOK, RetryBudget
<1>2. ASSUME NEW s \in Sups, NEW k, NEW p, Put(s, "crashed", k, p) PROVE RetryBudget'
  BY <1>0, <1>2 DEF Put, SupOK, RetryBudget
<1>3. ASSUME NEW s \in Sups, Return(s) PROVE RetryBudget'
  BY <1>0, <1>3 DEF Return, NoSup, SupOK, RetryBudget
<1>4. ASSUME NEW s \in Sups, Check(s) \/ Announce(s) \/ StartCmd(s) \/ Wake(s) PROVE RetryBudget'
  BY <1>1, <1>3, <1>4 DEF Check, Announce, StartCmd, Wake, Goto, RetryBudget
<1>5. ASSUME NEW s \in Sups, Launch(s) \/ Record(s) \/ Reap(s) PROVE RetryBudget'
  BY <1>1, <1>5 DEF Launch, Record, Reap, Goto
<1>6. ASSUME NEW s \in Sups, LaunchFails(s) \/ Exited(s) PROVE RetryBudget'
  BY <1>2, <1>6 DEF LaunchFails, Exited
<1>7. ASSUME NEW s \in Sups, GiveUp(s) \/ WakeCancelled(s) PROVE RetryBudget'
  BY <1>3, <1>7 DEF GiveUp, WakeCancelled
<1>8. ASSUME NEW s \in Sups, Backoff(s) PROVE RetryBudget'
  <2>1. MaxRetries < 0 \/ sup[s].fails <= MaxRetries
    BY <1>0, <1>8 DEF Backoff, Exhausted, SupOK
  <2> QED
    BY <1>1, <1>8, <2>1 DEF Backoff, Goto
<1>9. ASSUME NEW r \in Requests, Spawn(r) PROVE RetryBudget'
  BY <1>0, <1>9 DEF Spawn, NewSup, SupOK, RetryBudget
<1>10. CASE UNCHANGED sup
  BY <1>10 DEF RetryBudget
<1>11. ASSUME NEW r \in Requests, Halt(r) PROVE RetryBudget'
  BY <1>11 DEF Halt, NoSup, RetryBudget
<1> QED
  BY <1>4, <1>5, <1>6, <1>7, <1>8, <1>9, <1>10, <1>11
  DEF Next, Supervise, Exit, Request, StopRequest, RestartRequest, Shutdown, ReadPid, Send,
      StartRequest, vars

(* No supervisor tries again once its retries are used up, whatever the    *)
(* limit and whatever requests come in.                                    *)
THEOREM RetriesBounded == Spec => []RetryBudget
<1>1. Init => RetryBudget
  BY DEF Init, RetryBudget, NoSup, NewSup
<1> QED
  BY <1>1, BudgetStep, TypeCorrect, PTL DEF Spec

-----------------------------------------------------------------------------
(* Restart delays.  What Doubled computes needs induction: a nonempty set  *)
(* of naturals has a least element, since < is well-founded on Nat.        *)
NatLess == {ss \in Nat \X Nat : ss[1] < ss[2]}

LEMMA NatLessWF == IsWellFoundedOn(NatLess, Nat)
BY NatLessThanWellFounded, Zenon DEF NatLess, OpToRel

LEMMA Induction ==
  ASSUME NEW S, 0 \in S, \A n \in Nat : n \in S => n + 1 \in S
  PROVE  Nat \subseteq S
<1> SUFFICES ASSUME Nat \ S # {} PROVE FALSE
  OBVIOUS
<1>1. PICK m \in Nat \ S : \A y \in Nat \ S : ~(<<y, m>> \in NatLess)
  BY NatLessWF, WFMin
<1>2. m # 0 /\ m - 1 \in Nat /\ <<m - 1, m>> \in NatLess
  BY <1>1 DEF NatLess
<1>3. m - 1 \in S
  BY <1>1, <1>2
<1> QED
  BY <1>2, <1>3

(* The sets of 1 .. n + 1 are those of 1 .. n, each without and with n + 1. *)
LEMMA PowerDoubles == ASSUME NEW n \in Nat PROVE 2^n \in Nat /\ 2^(n + 1) = 2 * 2^n
<1> DEFINE P == SUBSET (1 .. n)
           Q == {X \in SUBSET (1 .. n + 1) : n + 1 \in X}
           f == [X \in P |-> X \cup {n + 1}]
<1>1. IsFiniteSet(1 .. n) /\ Cardinality(1 .. n) = n
  BY FS_Interval
<1>2. IsFiniteSet(1 .. n + 1) /\ Cardinality(1 .. n + 1) = n + 1
  BY FS_Interval
<1>3. IsFiniteSet(P) /\ Cardinality(P) = 2^n
  BY <1>1, FS_SUBSET
<1>4. Cardinality(SUBSET (1 .. n + 1)) = 2^(n + 1)
  BY <1>2, FS_SUBSET
<1>5. IsFiniteSet(Q) /\ Cardinality(Q) = Cardinality(P)
  <2>1. f \in [P -> Q]
    <3> SUFFICES ASSUME NEW X \in P PROVE X \cup {n + 1} \in Q
      OBVIOUS
    <3>1. 1 .. n \subseteq 1 .. n + 1 /\ n + 1 \in 1 .. n + 1
      OBVIOUS
    <3> QED
      BY <3>1
  <2>2. \A X, Y \in P : f[X] = f[Y] => X = Y
    <3> SUFFICES ASSUME NEW X \in P, NEW Y \in P, X \cup {n + 1} = Y \cup {n + 1} PROVE X = Y
      OBVIOUS
    <3>1. n + 1 \notin X /\ n + 1 \notin Y
      OBVIOUS
    <3> QED
      BY <3>1
  <2>3. ASSUME NEW Y \in Q PROVE \E X \in P : f[X] = Y
    <3>1. Y \ {n + 1} \in P
      <4>1. \A i \in 1 .. n + 1 : i # n + 1 => i \in 1 .. n
        OBVIOUS
      <4> QED
        BY <4>1
    <3>2. (Y \ {n + 1}) \cup {n + 1} = Y
      OBVIOUS
    <3> QED
      BY <3>1, <3>2
  <2>4. f \in Bijection(P, Q)
    BY <2>1, <2>2, <2>3 DEF Bijection, Injection, Surjection, IsInjective
  <2> QED
    BY <1>3, <2>4, FS_Bijection DEF ExistsBijection
<1>6. P \cap Q = {} /\ SUBSET (1 .. n + 1) = P \cup Q
  <2>1. ASSUME NEW X \in SUBSET (1 .. n + 1) PROVE X \in P \/ X \in Q
    <3>1. \A i \in 1 .. n + 1 : i # n + 1 => i \in 1 .. n
      OBVIOUS
    <3> QED
      BY <3>1
  <2>2. ASSUME NEW X \in P PROVE X \notin Q /\ X \in SUBSET (1 .. n + 1)
    <3>1. n + 1 \notin 1 .. n /\ 1 .. n \subseteq 1 .. n + 1
      OBVIOUS
    <3> QED
      BY <3>1
  <2> QED
    BY <2>1, <2>2
<1>7. Cardinality(P \cup Q) = Cardinality(P) + Cardinality(Q) - Cardinality({})
  BY <1>3, <1>5, <1>6, FS_Union
<1>8. Cardinality(P) \in Nat /\ Cardinality({}) = 0
  BY <1>3, FS_CardinalityType, FS_EmptySet
<1> HIDE DEF P, Q, f
<1>9. Cardinality(SUBSET (1 .. n + 1)) = 2 * Cardinality(P)
  <2>1. Cardinality(SUBSET (1 .. n + 1)) = Cardinality(P \cup Q)
    BY <1>6, Zenon
  <2>2. Cardinality(P \cup Q) = 2 * Cardinality(P)
    BY <1>5, <1>7, <1>8
  <2> QED
    BY <2>1, <2>2, Zenon
<1> QED
  BY <1>3, <1>4, <1>8, <1>9, Zenon

LEMMA PowerZero == 2^0 = 1
OBVIOUS

-----------------------------------------------------------------------------
Twice(x) == IF x > Cap THEN x ELSE 2 * x

UpTo(g, n) ==
  /\ g \in [0 .. n -> Nat]
  /\ g[0] = Base
  /\ \A k \in 0 .. n - 1 : g[k + 1] = Twice(g[k])

LEMMA UpToExists == ASSUME NEW n \in Nat PROVE \E g : UpTo(g, n)
<1> DEFINE S == {m \in Nat : \E g : UpTo(g, m)}
<1>1. 0 \in S
  <2>1. UpTo([i \in 0 .. 0 |-> Base], 0)
    BY DEF UpTo
  <2> QED
    BY <2>1
<1>2. ASSUME NEW m \in Nat, m \in S PROVE m + 1 \in S
  <2>1. PICK g : UpTo(g, m)
    BY <1>2
  <2> DEFINE h == [i \in 0 .. m + 1 |-> IF i = m + 1 THEN Twice(g[m]) ELSE g[i]]
  <2>2. g[m] \in Nat
    BY <2>1 DEF UpTo
  <2>3. h \in [0 .. m + 1 -> Nat]
    BY <2>1, <2>2 DEF UpTo, Twice, Cap
  <2>4. h[0] = Base
    BY <2>1 DEF UpTo
  <2>5. ASSUME NEW k \in 0 .. (m + 1) - 1 PROVE h[k + 1] = Twice(h[k])
    <3>1. CASE k = m
      BY <3>1
    <3>2. CASE k # m
      <4>1. k \in 0 .. m - 1 /\ k + 1 \in 0 .. m /\ k \in 0 .. m
        BY <3>2
      <4>2. g[k + 1] = Twice(g[k])
        BY <2>1, <4>1 DEF UpTo
      <4> QED
        BY <4>1, <4>2
    <3> QED
      BY <3>1, <3>2
  <2>6. UpTo(h, m + 1)
    BY <2>3, <2>4, <2>5 DEF UpTo
  <2> QED
    BY <2>6
<1> HIDE DEF S
<1>3. Nat \subseteq S
  BY <1>1, <1>2, Induction
<1> QED
  BY <1>3 DEF S

LEMMA UpToAgree ==
  ASSUME NEW n \in Nat, NEW g, NEW h, UpTo(g, n), UpTo(h, n + 1)
  PROVE  g[n] = h[n]
<1> DEFINE S == {k \in Nat : k <= n => g[k] = h[k]}
<1>1. 0 \in S
  BY DEF UpTo
<1>2. ASSUME NEW k \in Nat, k \in S PROVE k + 1 \in S
  <2> SUFFICES ASSUME k + 1 <= n PROVE g[k + 1] = h[k + 1]
    OBVIOUS
  <2>1. g[k] = h[k]
    BY <1>2
  <2>2. g[k + 1] = Twice(g[k]) /\ h[k + 1] = Twice(h[k])
    BY DEF UpTo
  <2> QED
    BY <2>1, <2>2
<1> HIDE DEF S
<1>3. Nat \subseteq S
  BY <1>1, <1>2, Induction
<1> QED
  BY <1>3 DEF S

LEMMA DoubledSteps ==
  /\ Doubled[0] = Base
  /\ \A k \in Nat : Doubled[k] \in Nat /\ Doubled[k + 1] = Twice(Doubled[k])
<1> DEFINE G(n) == CHOOSE g : UpTo(g, n)
           f == [n \in Nat |-> G(n)[n]]
<1>1. ASSUME NEW n \in Nat PROVE UpTo(G(n), n)
  BY UpToExists
<1> HIDE DEF G
<1>2. f[0] = Base
  BY <1>1 DEF UpTo
<1>3. ASSUME NEW n \in Nat PROVE f[n] \in Nat /\ f[n + 1] = Twice(f[n])
  <2>1. UpTo(G(n), n) /\ UpTo(G(n + 1), n + 1)
    BY <1>1
  <2>2. G(n)[n] = G(n + 1)[n]
    BY <2>1, UpToAgree
  <2>3. G(n)[n] \in Nat
    BY <2>1 DEF UpTo
  <2>4. G(n + 1)[n + 1] = Twice(G(n + 1)[n])
    BY <2>1 DEF UpTo
  <2> QED
    BY <2>2, <2>3, <2>4
<1> DEFINE Unfold(d) ==
             [k \in Nat |-> IF k = 0 THEN Base
                            ELSE IF d[k - 1] > Cap THEN d[k - 1] ELSE 2 * d[k - 1]]
<1>4. f = Unfold(f)
  <2> SUFFICES ASSUME NEW k \in Nat
               PROVE  f[k] = IF k = 0 THEN Base
                             ELSE IF f[k - 1] > Cap THEN f[k - 1] ELSE 2 * f[k - 1]
    <3>1. f = [k \in Nat |-> f[k]]
      OBVIOUS
    <3> HIDE DEF f
    <3> QED
      BY <3>1
  <2> HIDE DEF f
  <2>1. CASE k = 0
    BY <1>2, <2>1
  <2>2. CASE k # 0
    <3>1. k - 1 \in Nat /\ (k - 1) + 1 = k
      BY <2>2
    <3> QED
      BY <1>3, <2>2, <3>1 DEF Twice
  <2> QED
    BY <2>1, <2>2
<1> HIDE DEF f
<1>5. Doubled = Unfold(Doubled)
  BY <1>4, Zenon DEF Doubled
<1>6. Doubled[0] = Base
  BY <1>5
<1>7. ASSUME NEW k \in Nat PROVE Doubled[k + 1] = Twice(Doubled[k])
  BY <1>5 DEF Twice
<1> DEFINE S == {k \in Nat : Doubled[k] \in Nat}
<1>8. 0 \in S /\ \A k \in Nat : k \in S => k + 1 \in S
  BY <1>6, <1>7 DEF Twice, Cap
<1> HIDE DEF S
<1>9. Nat \subseteq S
  BY <1>8, Induction
<1> QED
  BY <1>6, <1>7, <1>9 DEF S

LEMMA DoubledIsPower ==
  ASSUME NEW k \in Nat
  PROVE  \/ Doubled[k] = Base * 2^k
         \/ Doubled[k] > Cap /\ Base * 2^k > Cap
<1> DEFINE S == {i \in Nat : \/ Doubled[i] = Base * 2^i
                             \/ Doubled[i] > Cap /\ Base * 2^i > Cap}
<1>1. 0 \in S
  BY DoubledSteps, PowerZero
<1>2. ASSUME NEW i \in Nat, i \in S PROVE i + 1 \in S
  <2> DEFINE p == Base * 2^i
  <2>1. p \in Nat /\ Base * 2^(i + 1) = 2 * p
    BY PowerDoubles
  <2>2. Doubled[i] \in Nat /\ Doubled[i + 1] = Twice(Doubled[i])
    BY DoubledSteps
  <2>3. Doubled[i] = p \/ (Doubled[i] > Cap /\ p > Cap)
    BY <1>2
  <2> HIDE DEF p
  <2>4. Doubled[i + 1] = 2 * p \/ (Doubled[i + 1] > Cap /\ 2 * p > Cap)
    BY <2>1, <2>2, <2>3 DEF Twice, Cap
  <2> QED
    BY <2>1, <2>4
<1> HIDE DEF S
<1>3. Nat \subseteq S
  BY <1>1, <1>2, Induction
<1> QED
  BY <1>3 DEF S

LEMMA DelayFormula ==
  ASSUME NEW k \in Nat
  PROVE  CalculateBackoff(k + 1) = IF Cap < Base * 2^k THEN Cap ELSE Base * 2^k
<1> DEFINE p == Base * 2^k
<1>1. p \in Nat
  BY PowerDoubles
<1>2. Doubled[k] = p \/ (Doubled[k] > Cap /\ p > Cap)
  BY DoubledIsPower
<1>3. CalculateBackoff(k + 1) = IF Doubled[k] > Cap THEN Cap ELSE Doubled[k]
  <2>1. k + 1 # 0 /\ (k + 1) - 1 = k
    OBVIOUS
  <2> QED
    BY <2>1 DEF CalculateBackoff
<1> HIDE DEF p
<1>4. CalculateBackoff(k + 1) = IF Cap < p THEN Cap ELSE p
  BY <1>1, <1>2, <1>3 DEF Cap
<1> QED
  BY <1>4 DEF p

LEMMA DelayAt ==
  ASSUME NEW k \in Nat
  PROVE  CalculateBackoff(k) =
           IF k = 0 THEN 0 ELSE IF Cap < Base * 2^(k - 1) THEN Cap ELSE Base * 2^(k - 1)
<1>1. CASE k = 0
  BY <1>1 DEF CalculateBackoff
<1>2. CASE k # 0
  <2>1. PICK i \in Nat : k = i + 1 /\ i = k - 1
    BY <1>2
  <2> QED
    BY <1>2, <2>1, DelayFormula, Zenon
<1> QED
  BY <1>1, <1>2

(* Every delay a supervisor sleeps is Base * 2^(failures - 1) seconds,     *)
(* capped at Cap, for any Base and however long the row of failures.       *)
THEOREM DelaysDouble == Spec => []BackoffDelay
<1>1. TypeOK => BackoffDelay
  <2>1. ASSUME TypeOK, NEW s \in Sups PROVE sup[s].fails \in Nat
    BY <2>1 DEF TypeOK, SupOK
  <2> QED
    BY <2>1, DelayAt, Zenon DEF BackoffDelay
<1> QED
  BY <1>1, TypeCorrect, PTL

-----------------------------------------------------------------------------
LEMMA AnswerStep == TypeOK /\ CrashAnswered /\ [Next]_vars => CrashAnswered'
<1> SUFFICES ASSUME TypeOK, CrashAnswered, [Next]_vars, status' = "crashed", ~cancelled'
    PROVE  \E s \in Sups : Answering(s)'
  BY DEF CrashAnswered
<1>0. SupOK
  BY DEF TypeOK
<1>1. ASSUME NEW s \in Sups, LaunchFails(s) \/ Exited(s) PROVE \E t \in Sups : Answering(t)'
  BY <1>0, <1>1 DEF LaunchFails, Exited, Put, SupOK, Answering
<1>2. ASSUME status = "crashed", ~cancelled,
             NEW s \in Sups, NEW pc, NEW k, NEW p, Put(s, pc, k, p),
             Answering(s) => pc \in {"crashed", "sleep", "check", "announce"}
      PROVE  \E t \in Sups : Answering(t)'
  <2>1. PICK t \in Sups : Answering(t)
    BY <1>2 DEF CrashAnswered
  <2> QED
    BY <1>0, <1>2, <2>1 DEF Put, SupOK, Answering
<1>3. ASSUME NEW s \in Sups, Supervise(s) PROVE \E t \in Sups : Answering(t)'
  <2>1. CASE Check(s)
    BY <1>2, <2>1 DEF Check, Goto
  <2>2. CASE Backoff(s) \/ Wake(s)
    BY <1>2, <2>2 DEF Backoff, Wake, Goto
  <2>3. CASE StartCmd(s) \/ Launch(s) \/ Reap(s)
    BY <1>2, <2>3 DEF StartCmd, Launch, Reap, Goto, Answering
  <2>4. CASE Announce(s) \/ Record(s) \/ GiveUp(s) \/ WakeCancelled(s)
    BY <2>4 DEF Announce, Record, GiveUp, WakeCancelled, UpdateState
  <2> QED
    BY <1>1, <1>3, <2>1, <2>2, <2>3, <2>4 DEF Supervise
<1>4. ASSUME NEW r \in Requests, Spawn(r) PROVE FALSE
  BY <1>4 DEF Spawn
<1>5. CASE UNCHANGED <<status, cancelled, sup>>
  BY <1>5 DEF CrashAnswered, Answering
<1>6. ASSUME NEW r \in Requests, StopRequest(r) \/ Shutdown(r) \/ Halt(r) PROVE FALSE
  BY <1>6 DEF StopRequest, Shutdown, Halt
<1> QED
  BY <1>3, <1>4, <1>5, <1>6
  DEF Next, Exit, Request, RestartRequest, ReadPid, Send, StartRequest, vars

(* A recorded crash is never without a supervisor on its way to the        *)
(* restart, while the plugin runs: the safety half of Resurrects.          *)
THEOREM CrashesAnswered == Spec => []CrashAnswered
<1>1. Init => CrashAnswered
  BY DEF Init, CrashAnswered
<1> QED
  BY <1>1, AnswerStep, TypeCorrect, PTL DEF Spec
=============================================================================
