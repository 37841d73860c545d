------------------------------- MODULE KVLock -------------------------------
(***************************************************************************)
(* plugins/kv: Lock and Unlock of one key.  The lock is a row of _kv that  *)
(* says who owns it and when it expires.  Its owner is the store, not the  *)
(* caller: each process makes up one identifier when it opens its store.   *)
(*                                                                         *)
(* Time is in ticks, Grain of them a second, because expire_at is written  *)
(* in whole seconds.                                                       *)
(***************************************************************************)
EXTENDS Integers

CONSTANTS
  Stores,
  Callers,   \* goroutines that lock and unlock
  StoreOf,   \* the store a caller uses
  Owners,    \* identifiers stores make up for themselves
  NoRow,
  Postgres,  \* app.IsPostgres(); SQLite if FALSE
  Grain,     \* ticks in a second
  Ttls,      \* bound: the ttl arguments of Lock
  Unheld,    \* a caller that does not hold the lock
  MaxTime    \* bound: ticks

ASSUME KVLockAssumption ==
  /\ StoreOf \in [Callers -> Stores]
  /\ Postgres \in BOOLEAN
  /\ Grain \in Nat \ {0}
  /\ Ttls \subseteq Nat
  /\ Unheld \notin Nat /\ NoRow \notin [owner : Owners, exp : Nat]
  /\ MaxTime \in Nat

VARIABLES
  row,    \* the row of the lock
  owner,  \* kv.lockOwner of each store
  call,   \* how far each caller's Lock is
  until,  \* until when a caller whose Lock returned true holds the lock
  now

vars == <<row, owner, call, until, now>>

Idle == [pc |-> "idle"]

Init ==
  /\ row = NoRow
  /\ owner \in [Stores -> Owners]
  /\ \A s, t \in Stores : s # t => owner[s] # owner[t]
  /\ call = [c \in Callers |-> Idle]
  /\ until = [c \in Callers |-> Unheld]
  /\ now = 0

Seconds(t) == Grain * (t \div Grain)

(* NOW() has microseconds, datetime('now') has seconds. *)
DBNow == IF Postgres THEN now ELSE Seconds(now)

-----------------------------------------------------------------------------
Goto(c, next) == call' = [call EXCEPT ![c] = next]

(* expireAt is computed before anything else. *)
Lock(c) ==
  /\ call[c].pc = "idle"
  /\ \E ttl \in Ttls : Goto(c, [pc |-> "delete", exp |-> now + ttl])
  /\ UNCHANGED <<row, owner, until, now>>

(* Mutant: <= for <. *)
OverAtOnce == row # NoRow /\ row.exp <= DBNow

(* WHERE expire_at < NOW(), in Lock and in CleanupExpired *)
Over == row # NoRow /\ row.exp < DBNow

(* The error of this statement is ignored: it may not happen at all. *)
DeleteExpired(c) ==
  /\ call[c].pc = "delete"
  /\ \/ row' = IF Over THEN NoRow ELSE row
     \/ UNCHANGED row
  /\ Goto(c, [pc |-> "insert", exp |-> call[c].exp])
  /\ UNCHANGED <<owner, until, now>>

(* INSERT ... ON CONFLICT DO NOTHING.  An error may come before or after   *)
(* the row is there; the caller then does not hold the lock.               *)
Insert(c) ==
  /\ call[c].pc = "insert"
  /\ \/ /\ row = NoRow
        /\ row' = [owner |-> owner[StoreOf[c]], exp |-> Seconds(call[c].exp)]
        /\ until' = [until EXCEPT ![c] = call[c].exp]
     \/ /\ row = NoRow
        /\ row' = [owner |-> owner[StoreOf[c]], exp |-> Seconds(call[c].exp)]
        /\ UNCHANGED until
     \/ UNCHANGED <<row, until>>
  /\ Goto(c, Idle)
  /\ UNCHANGED <<owner, now>>

(* Mutant: DELETE ... WHERE key only. *)
UnlockAny(c) ==
  /\ call[c].pc = "idle"
  /\ row' = NoRow
  /\ until' = [until EXCEPT ![c] = Unheld]
  /\ UNCHANGED <<owner, call, now>>

(* DELETE ... WHERE key AND value = owner; nobody has to hold the lock to  *)
(* call it.                                                                *)
Unlock(c) ==
  /\ call[c].pc = "idle"
  /\ row' = IF row # NoRow /\ row.owner = owner[StoreOf[c]] THEN NoRow ELSE row
  /\ until' = [until EXCEPT ![c] = Unheld]
  /\ UNCHANGED <<owner, call, now>>

CleanupExpired ==
  /\ Over
  /\ row' = NoRow
  /\ UNCHANGED <<owner, call, until, now>>

(* The process of a store dies and comes back as a new owner; its callers  *)
(* are gone, their row stays.                                              *)
Restart(s) ==
  /\ \E o \in Owners \ ({owner[t] : t \in Stores} \cup IF row = NoRow THEN {} ELSE {row.owner}) :
       owner' = [owner EXCEPT ![s] = o]
  /\ call' = [c \in Callers |-> IF StoreOf[c] = s THEN Idle ELSE call[c]]
  /\ until' = [c \in Callers |-> IF StoreOf[c] = s THEN Unheld ELSE until[c]]
  /\ UNCHANGED <<row, now>>

Tick ==
  /\ now < MaxTime
  /\ now' = now + 1
  /\ UNCHANGED <<row, owner, call, until>>

Next ==
  \/ \E c \in Callers : Lock(c) \/ DeleteExpired(c) \/ Insert(c) \/ Unlock(c)
  \/ \E s \in Stores : Restart(s)
  \/ CleanupExpired
  \/ Tick

Spec == Init /\ [][Next]_vars
-----------------------------------------------------------------------------
(* The row, the stores' identifiers, the calls and the clock keep their    *)
(* shapes.                                                                 *)
TypeOK ==
  /\ row \in [owner : Owners, exp : Nat] \cup {NoRow}
  /\ owner \in [Stores -> Owners]
  /\ call \in [Callers -> {Idle} \cup [pc : {"delete", "insert"}, exp : Nat]]
  /\ until \in [Callers -> Nat \cup {Unheld}]
  /\ now \in Nat

(* By how much the database may count a lease as over before its time: not *)
(* at all with SQLite, by the seconds' fraction with Postgres.             *)
Early == IF Postgres THEN Grain ELSE 0

Holds(c) == until[c] # Unheld /\ now + Early <= until[c]

(* A lock taken is not taken by another until its ttl is over (but for the *)
(* last second with Postgres) or its holder gives it back, with Lock's two *)
(* statements, the cron job, crashes and late Unlocks in any order.        *)
MutualExclusion ==
  \A c, d \in Callers : Holds(c) /\ Holds(d) => c = d

(* "Only the holder of a lock can release it" (store.go): while a caller   *)
(* holds the lock its row is there.                                        *)
HolderKeepsRow ==
  \A c \in Callers : Holds(c) => row # NoRow /\ row.owner = owner[StoreOf[c]]
=============================================================================
