----------------------------- MODULE Processman -----------------------------
(***************************************************************************)
(* plugins/processman: the supervisor loops, the state record the HTTP API *)
(* shows and acts on, and the operating system processes, for one process  *)
(* id.  Ids do not interact: every operation reads and writes one id, and  *)
(* KillAll kills each id as a kill request of its own.                     *)
(*                                                                         *)
(* An action is one critical section of pm.mu, or one call of the          *)
(* operating system; a request is between two of them what its goroutine   *)
(* has in local variables.  Of processes outside this program nothing is   *)
(* kept: a PID that was reaped is free, for them or for the next launch.   *)
(***************************************************************************)
EXTENDS Integers, FiniteSets

CONSTANTS
  Pids,        \* process ids
  NoPid,       \* PID 0 in the state record
  Sups,        \* bound: supervise goroutines alive at once
  Requests,    \* bound: requests (HTTP, file watcher, shutdown) at once
  MaxRetries,  \* cfg.MaxRetries, -1 for no limit
  Base,        \* cfg.Backoff in seconds
  MaxFails     \* bound: where failCount stops being counted up

ASSUME ProcessmanAssumption ==
  /\ NoPid \notin Pids
  /\ MaxRetries \in Int
  /\ Base \in Nat
  /\ MaxFails \in Nat /\ MaxRetries < MaxFails

VARIABLES
  status,     \* pm.states[id].Status, "none" before there is an entry
  pid,        \* pm.states[id].PID
  cancelled,  \* pm.ctx
  sup,        \* supervise goroutines
  proc,       \* the operating system's process table
  req,        \* requests in progress
  halted      \* the program has exited

vars == <<status, pid, cancelled, sup, proc, req, halted>>

-----------------------------------------------------------------------------
(* calculateBackoff: base doubled failCount - 1 times, leaving the loop    *)
(* once above the cap, then capped.                                        *)
Cap == 30

Doubled[k \in Nat] ==
  IF k = 0 THEN Base
  ELSE IF Doubled[k - 1] > Cap THEN Doubled[k - 1] ELSE 2 * Doubled[k - 1]

(* Mutant: base * 2^failCount. *)
BackoffDoubledOnceMore(fails) ==
  IF fails = 0 THEN 0 ELSE IF Doubled[fails] > Cap THEN Cap ELSE Doubled[fails]

CalculateBackoff(fails) ==
  IF fails = 0 THEN 0
  ELSE IF Doubled[fails - 1] > Cap THEN Cap ELSE Doubled[fails - 1]

Counted(fails) == IF fails < MaxFails THEN fails + 1 ELSE fails

(* Mutant: one more try than cfg.MaxRetries allows. *)
ExhaustedLate(fails) == MaxRetries >= 0 /\ fails > MaxRetries + 1

(* Step 10 of supervise: cfg.MaxRetries >= 0 && failCount > cfg.MaxRetries *)
Exhausted(fails) == MaxRetries >= 0 /\ fails > MaxRetries

NoSup == [pc |-> "free", fails |-> 0, proc |-> NoPid]

NewSup == [pc |-> "check", fails |-> 0, proc |-> NoPid]

NoReq == [pc |-> "idle", pid |-> NoPid, last |-> FALSE]

(* Mutant: the PID stays in the record when the process is gone. *)
UpdateStateKeepPid(s, p) == status' = s /\ pid' = IF p = NoPid THEN pid ELSE p

UpdateState(s, p) == status' = s /\ pid' = p

-----------------------------------------------------------------------------
(* OnServe starts one supervisor for the id. *)
Init ==
  /\ status = "none"
  /\ pid = NoPid
  /\ cancelled = FALSE
  /\ \E s \in Sups : sup = [x \in Sups |-> IF x = s THEN NewSup ELSE NoSup]
  /\ proc = [p \in Pids |-> "free"]
  /\ req = [r \in Requests |-> NoReq]
  /\ halted = FALSE

Put(s, pc, fails, p) ==
  sup' = [sup EXCEPT ![s] = [pc |-> pc, fails |-> fails, proc |-> p]]

Goto(s, pc) == Put(s, pc, sup[s].fails, sup[s].proc)

Return(s) == sup' = [sup EXCEPT ![s] = NoSup]

(* Top of the loop: the context, then the status. *)
Check(s) ==
  /\ sup[s].pc = "check"
  /\ IF cancelled \/ status = "stopped" THEN Return(s) ELSE Goto(s, "announce")
  /\ UNCHANGED <<status, pid, cancelled, proc, req, halted>>

Announce(s) ==
  /\ sup[s].pc = "announce"
  /\ UpdateState("starting", NoPid)
  /\ Goto(s, "start")
  /\ UNCHANGED <<cancelled, proc, req, halted>>

(* cmd.Start looks at the context first, and forks later. *)
StartCmd(s) ==
  /\ sup[s].pc = "start"
  /\ ~cancelled
  /\ Goto(s, "fork")
  /\ UNCHANGED <<status, pid, cancelled, proc, req, halted>>

Launch(s) ==
  /\ sup[s].pc = "fork"
  /\ \E p \in Pids :
       /\ proc[p] = "free"
       /\ proc' = [proc EXCEPT ![p] = "alive"]
       /\ Put(s, "started", sup[s].fails, p)
  /\ UNCHANGED <<status, pid, cancelled, req, halted>>

LaunchFails(s) ==
  /\ sup[s].pc \in {"start", "fork"}
  /\ UpdateState("crashed", NoPid)
  /\ Put(s, "crashed", Counted(sup[s].fails), NoPid)
  /\ UNCHANGED <<cancelled, proc, req, halted>>

(* Mutant: the supervisor looks at the context again before waiting. *)
RecordOrReturn(s) ==
  /\ sup[s].pc = "started"
  /\ UpdateState("running", sup[s].proc)
  /\ IF cancelled THEN Return(s) ELSE Goto(s, "wait")
  /\ UNCHANGED <<cancelled, proc, req, halted>>

Record(s) ==
  /\ sup[s].pc = "started"
  /\ UpdateState("running", sup[s].proc)
  /\ Goto(s, "wait")
  /\ UNCHANGED <<cancelled, proc, req, halted>>

(* cmd.Wait returns: the PID is free, and still in the record. *)
Reap(s) ==
  /\ sup[s].pc = "wait"
  /\ proc[sup[s].proc] = "dead"
  /\ proc' = [proc EXCEPT ![sup[s].proc] = "free"]
  /\ Goto(s, "reaped")
  /\ UNCHANGED <<status, pid, cancelled, req, halted>>

(* More than 10 seconds of uptime count as healthy. *)
Exited(s) ==
  /\ sup[s].pc = "reaped"
  /\ \E healthy \in BOOLEAN :
       Put(s, "crashed", IF healthy THEN 0 ELSE Counted(sup[s].fails), NoPid)
  /\ UpdateState("crashed", NoPid)
  /\ UNCHANGED <<cancelled, proc, req, halted>>

GiveUp(s) ==
  /\ sup[s].pc = "crashed"
  /\ Exhausted(sup[s].fails)
  /\ UpdateState("stopped", NoPid)
  /\ Return(s)
  /\ UNCHANGED <<cancelled, proc, req, halted>>

(* Mutant: return instead of the next round of the loop. *)
BackoffReturn(s) ==
  /\ sup[s].pc = "crashed"
  /\ ~Exhausted(sup[s].fails)
  /\ Return(s)
  /\ UNCHANGED <<status, pid, cancelled, proc, req, halted>>

Backoff(s) ==
  /\ sup[s].pc = "crashed"
  /\ ~Exhausted(sup[s].fails)
  /\ Goto(s, "sleep")
  /\ UNCHANGED <<status, pid, cancelled, proc, req, halted>>

Wake(s) ==
  /\ sup[s].pc = "sleep"
  /\ Goto(s, "check")
  /\ UNCHANGED <<status, pid, cancelled, proc, req, halted>>

WakeCancelled(s) ==
  /\ sup[s].pc = "sleep"
  /\ cancelled
  /\ Return(s)
  /\ UNCHANGED <<status, pid, cancelled, proc, req, halted>>

Supervise(s) ==
  \/ Check(s) \/ Announce(s) \/ StartCmd(s) \/ Launch(s) \/ LaunchFails(s) \/ Record(s)
  \/ Reap(s) \/ Exited(s) \/ GiveUp(s) \/ Backoff(s) \/ Wake(s) \/ WakeCancelled(s)

-----------------------------------------------------------------------------
(* A process ends: by itself, by SIGTERM, or killed with the context. *)
Exit(p) ==
  /\ proc[p] \in {"alive", "terminating"}
  /\ proc' = [proc EXCEPT ![p] = "dead"]
  /\ UNCHANGED <<status, pid, cancelled, sup, req, halted>>

(* handleStop: mark the record, then kill. *)
StopRequest(r) ==
  /\ req[r].pc = "idle"
  /\ status # "none"
  /\ status' = "stopped"
  /\ req' = [req EXCEPT ![r].pc = "read"]
  /\ UNCHANGED <<pid, cancelled, sup, proc, halted>>

(* handleRestart and the file watcher: kill, nothing else. *)
RestartRequest(r) ==
  /\ req[r].pc = "idle"
  /\ status # "none"
  /\ req' = [req EXCEPT ![r].pc = "read"]
  /\ UNCHANGED <<status, pid, cancelled, sup, proc, halted>>

(* OnTerminate, Stop of the plugin: cancel the context, then KillAll. *)
Shutdown(r) ==
  /\ req[r].pc = "idle"
  /\ ~cancelled
  /\ cancelled' = TRUE
  /\ req' = [req EXCEPT ![r] = [@ EXCEPT !.pc = IF status = "none" THEN "return" ELSE "read",
                                        !.last = TRUE]]
  /\ UNCHANGED <<status, pid, sup, proc, halted>>

(* A request that has signalled is over; after Stop's, the program ends. *)
Returned(r) == IF req[r].last THEN [NoReq EXCEPT !.pc = "return", !.last = TRUE] ELSE NoReq

(* killProcess: the PID is read under the lock, the signal sent without. *)
ReadPid(r) ==
  /\ req[r].pc = "read"
  /\ req' = [req EXCEPT ![r] = IF pid = NoPid THEN Returned(r)
                               ELSE [@ EXCEPT !.pc = "send", !.pid = pid]]
  /\ UNCHANGED <<status, pid, cancelled, sup, proc, halted>>

Send(r) ==
  /\ req[r].pc = "send"
  /\ proc' = [proc EXCEPT ![req[r].pid] = IF @ = "alive" THEN "terminating" ELSE @]
  /\ req' = [req EXCEPT ![r] = Returned(r)]
  /\ UNCHANGED <<status, pid, cancelled, sup, halted>>

(* OnTerminate is over: the program exits, and of it nothing is left but   *)
(* processes that still run.                                               *)
Halt(r) ==
  /\ req[r].pc = "return"
  /\ halted' = TRUE
  /\ status' = "none" /\ pid' = NoPid
  /\ sup' = [s \in Sups |-> NoSup]
  /\ req' = [q \in Requests |-> NoReq]
  /\ UNCHANGED <<cancelled, proc>>

(* StartProcess: the status is checked under one lock and set under the next. *)
StartRequest(r) ==
  /\ req[r].pc = "idle"
  /\ status # "running"
  /\ req' = [req EXCEPT ![r].pc = "spawn"]
  /\ UNCHANGED <<status, pid, cancelled, sup, proc, halted>>

Spawn(r) ==
  /\ req[r].pc = "spawn"
  /\ status' = IF status = "none" THEN "none" ELSE "starting"
  /\ \E s \in Sups : sup[s].pc = "free" /\ sup' = [sup EXCEPT ![s] = NewSup]
  /\ req' = [req EXCEPT ![r] = NoReq]
  /\ UNCHANGED <<pid, cancelled, proc, halted>>

Request(r) ==
  \/ StopRequest(r) \/ RestartRequest(r) \/ Shutdown(r) \/ ReadPid(r) \/ Send(r)
  \/ StartRequest(r) \/ Spawn(r) \/ Halt(r)

Next ==
  \/ \E s \in Sups : ~halted /\ Supervise(s)
  \/ \E p \in Pids : Exit(p)
  \/ \E r \in Requests : ~halted /\ Request(r)

Spec == Init /\ [][Next]_vars

-----------------------------------------------------------------------------
Waiting(s) == sup[s].pc \in {"started", "wait"}

StateOK ==
  /\ status \in {"none", "starting", "running", "crashed", "stopped"}
  /\ pid \in Pids \cup {NoPid}
  /\ cancelled \in BOOLEAN /\ halted \in BOOLEAN

SupOK ==
  sup \in [Sups -> [ pc : {"free", "check", "announce", "start", "fork", "started", "wait",
                          "reaped", "crashed", "sleep"},
                    fails : Nat, proc : Pids \cup {NoPid} ]]

ProcOK == proc \in [Pids -> {"free", "alive", "terminating", "dead"}]

ReqOK ==
  req \in [Requests -> [ pc : {"idle", "read", "send", "spawn", "return"},
                        pid : Pids \cup {NoPid}, last : BOOLEAN ]]

(* The states the source names, and a request that sends has a PID. *)
TypeOK ==
  /\ StateOK /\ SupOK /\ ProcOK /\ ReqOK
  /\ \A r \in Requests : req[r].pc = "send" => req[r].pid \in Pids

(* While the program runs, no process is left without the supervisor that  *)
(* will wait for it, and no two supervisors wait for the same one.         *)
Supervised ==
  /\ \A p \in Pids :
       proc[p] # "free" => halted \/ \E s \in Sups : Waiting(s) /\ sup[s].proc = p
  /\ \A s, t \in Sups : Waiting(s) /\ Waiting(t) /\ sup[s].proc = sup[t].proc => s = t

(* The record names a PID only from the launch's record to the exit's:     *)
(* its supervisor waits for that process, or has just reaped it and is     *)
(* about to write so, whatever other supervisors and requests write.       *)
RecordedPidOwned ==
  pid # NoPid => \E s \in Sups : sup[s].proc = pid /\ sup[s].pc \in {"wait", "reaped"}

(* A supervisor makes at most MaxRetries + 1 launches in a row that fail   *)
(* or end within ten seconds.                                              *)
RetryBudget ==
  \A s \in Sups :
    sup[s].pc \in {"sleep", "check", "announce", "start", "fork"} =>
      MaxRetries < 0 \/ sup[s].fails <= MaxRetries

(* Restart delays double from Base to 30 seconds and stay there; a healthy *)
(* run restarts at once: for every row of failures a supervisor has had.   *)
BackoffDelay ==
  LET Smaller(a, b) == IF a < b THEN a ELSE b
  IN  \A s \in Sups :
        CalculateBackoff(sup[s].fails) =
          IF sup[s].fails = 0 THEN 0 ELSE Smaller(Cap, Base * 2 ^ (sup[s].fails - 1))

Answering(s) == sup[s].pc \in {"crashed", "sleep", "check", "announce"}

(* The status says crashed only while a supervisor is on its way to start  *)
(* the process again or to give up, whatever stops and starts come in      *)
(* between: a crash is not forgotten unless the plugin is stopping.        *)
CrashAnswered == status = "crashed" => cancelled \/ \E s \in Sups : Answering(s)

(* A signal reaches a process that was not reaped: false between Reap and  *)
(* Exited, and while a request holds a PID it has read.                    *)
SignalsOwned == [][\A r \in Requests : Send(r) => proc[req[r].pid] # "free"]_vars

(* One process per id: false when a start comes during backoff. *)
OneProcess == \A p, q \in Pids : {proc[p], proc[q]} \subseteq {"alive", "terminating"} => p = q

(* When the program exits, all child processes are cleaned up               *)
(* (PB 退出时清理所有子进程, processman.go:88).                                    *)
NoneOrphaned == halted => \A p \in Pids : proc[p] # "alive"

-----------------------------------------------------------------------------
(* Goroutines are scheduled while the program runs, and exec.CommandContext *)
(* then kills what still runs when the context is cancelled.  A process     *)
(* need not end by itself, nor on SIGTERM, nor the program exit.            *)
Fairness ==
  /\ \A s \in Sups : WF_vars(~halted /\ Supervise(s))
  /\ \A p \in Pids : WF_vars(cancelled /\ ~halted /\ Exit(p))

FairSpec == Spec /\ Fairness

(* A crash is always answered: the process runs again, or the supervisor   *)
(* has given up, or the plugin is stopping.                                *)
Resurrects == status = "crashed" ~> (status \in {"running", "stopped"} \/ cancelled)

(* After Stop no process and no zombie stays, unless the program exits     *)
(* before the supervisors have seen it: launches under way and later start *)
(* requests included.                                                      *)
StopCleans == cancelled ~> (halted \/ [](\A p \in Pids : proc[p] = "free"))

-----------------------------------------------------------------------------
(* README.md and api.go: a stopped process stays stopped until it is       *)
(* started again.  Here only a record that was running when it was marked, *)
(* once its stop request has sent its signal, with no other at work.       *)
StopSticks ==
  [][status = "stopped" /\ pid # NoPid /\ (\A r \in Requests : req[r] = NoReq) =>
       status' = "stopped"]_vars
=============================================================================
