---------------------------- MODULE KVLockProofs ----------------------------
(* Theorems about KVLock. *)
EXTENDS KVLock, TLAPS

(* Rounding down to whole seconds. *)
LEMMA SecondsFacts ==
  ASSUME NEW t \in Nat
  PROVE  Seconds(t) \in Nat /\ Seconds(t) <= t /\ t < Seconds(t) + Grain
<1> Grain \in Nat \ {0}
  BY KVLockAssumption
<1> DEFINE q == t \div Grain
<1>1. q \in Nat /\ t = Grain * q + (t % Grain) /\ t % Grain \in 0..(Grain - 1)
  BY SMT
<1>2. Grain * q \in Nat
  BY <1>1, SMT
<1> QED
  BY <1>1, <1>2, SMT DEF Seconds

LEMMA SecondsMonotonic ==
  ASSUME NEW t \in Nat, NEW u \in Nat, t <= u
  PROVE  Seconds(t) <= Seconds(u)
<1> Grain \in Nat \ {0}
  BY KVLockAssumption
<1> DEFINE p == t \div Grain
           q == u \div Grain
<1>1. p \in Nat /\ q \in Nat /\ Grain * p <= t /\ u < Grain * q + Grain
  BY SecondsFacts, SMT DEF Seconds
<1>2. p <= q
  <2> HIDE DEF p, q
  <2>1. SUFFICES ASSUME q + 1 <= p PROVE FALSE
    BY <1>1, SMT
  <2>2. Grain * (q + 1) <= Grain * p
    BY <1>1, <2>1, SMT
  <2>3. Grain * (q + 1) = Grain * q + Grain
    BY <1>1, SMT
  <2> QED
    BY <1>1, <2>2, <2>3, SMT
<1>3. Grain * p <= Grain * q
  <2> HIDE DEF p, q
  <2> QED
    BY <1>1, <1>2, SMT
<1> QED
  BY <1>3 DEF Seconds

-----------------------------------------------------------------------------
(* The state keeps its types, for any number of stores and callers. *)
THEOREM TypeCorrect == Spec => []TypeOK
<1> USE KVLockAssumption DEF TypeOK, Idle
<1>1. Init => TypeOK
  BY DEF Init
<1>2. TypeOK /\ [Next]_vars => TypeOK'
  <2> SUFFICES ASSUME TypeOK, [Next]_vars PROVE TypeOK'
    OBVIOUS
  <2>1. ASSUME NEW c \in Callers, Lock(c) PROVE TypeOK'
    BY <2>1 DEF Lock, Goto
  <2>2. ASSUME NEW c \in Callers, DeleteExpired(c) PROVE TypeOK'
    BY <2>2 DEF DeleteExpired, Goto
  <2>3. ASSUME NEW c \in Callers, Insert(c) PROVE TypeOK'
    <3>1. call[c].exp \in Nat
      BY <2>3 DEF Insert
    <3>2. Seconds(call[c].exp) \in Nat
      BY <3>1, SecondsFacts
    <3> QED
      BY <2>3, <3>1, <3>2 DEF Insert, Goto
  <2>4. ASSUME NEW c \in Callers, Unlock(c) PROVE TypeOK'
    BY <2>4 DEF Unlock
  <2>5. ASSUME NEW s \in Stores, Restart(s) PROVE TypeOK'
    BY <2>5 DEF Restart
  <2>6. CASE CleanupExpired
    BY <2>6 DEF CleanupExpired
  <2>7. CASE Tick
    BY <2>7 DEF Tick
  <2>8. CASE UNCHANGED vars
    BY <2>8 DEF vars
  <2> QED
    BY <2>1, <2>2, <2>3, <2>4, <2>5, <2>6, <2>7, <2>8 DEF Next
<1> QED
  BY <1>1, <1>2, PTL DEF Spec

-----------------------------------------------------------------------------
(* No two stores have the same identifier. *)
OwnersDiffer == \A s, t \in Stores : s # t => owner[s] # owner[t]

(* A lease keeps its row, unless the database's clock is past it. *)
Lease(c) == [owner |-> owner[StoreOf[c]], exp |-> Seconds(until[c])]

LeaseKept == \A c \in Callers :
  until[c] # Unheld => row = Lease(c) \/ Seconds(until[c]) < DBNow

LockInv == TypeOK /\ OwnersDiffer /\ LeaseKept

(* The identifier is the store's: only with one caller in each does it     *)
(* tell callers apart.                                                     *)
OneCallerPerStore == \A c, d \in Callers : StoreOf[c] = StoreOf[d] => c = d

LEMMA DBNowFacts ==
  ASSUME TypeOK
  PROVE  DBNow \in Nat /\ Seconds(now) <= DBNow /\ DBNow <= now
BY SecondsFacts, KVLockAssumption DEF TypeOK, DBNow

(* A row that does not change does not change a lease of an owner that     *)
(* does not change either.                                                 *)
LEMMA SameLease ==
  ASSUME TypeOK, LeaseKept, NEW c \in Callers, until'[c] = until[c],
         owner'[StoreOf[c]] = owner[StoreOf[c]], row' = row \/ Over \/ row = NoRow,
         UNCHANGED now, until[c] # Unheld
  PROVE  row' = Lease(c)' \/ Seconds(until'[c]) < DBNow'
<1>1. row # NoRow \/ Seconds(until[c]) < DBNow
  <2>1. Lease(c) \in [owner : Owners, exp : Nat]
    BY SecondsFacts, KVLockAssumption DEF TypeOK, Lease
  <2> QED
    BY <2>1, KVLockAssumption DEF LeaseKept
<1> QED
  BY <1>1 DEF LeaseKept, Lease, Over, DBNow


THEOREM LockInvariant == ASSUME OneCallerPerStore PROVE Spec => []LockInv
<1>1. Init => LockInv
  BY KVLockAssumption DEF Init, LockInv, TypeOK, OwnersDiffer, LeaseKept, Idle
<1>2. LockInv /\ TypeOK' /\ [Next]_vars => LockInv'
  <2> SUFFICES ASSUME LockInv, TypeOK', [Next]_vars PROVE LockInv'
    OBVIOUS
  <2> USE KVLockAssumption DEF LockInv
  <2>1. OwnersDiffer'
    <3>1. ASSUME NEW s \in Stores, Restart(s) PROVE OwnersDiffer'
      BY <3>1 DEF Restart, OwnersDiffer, TypeOK
    <3>2. CASE UNCHANGED owner
      BY <3>2 DEF OwnersDiffer
    <3> QED
      BY <3>1, <3>2 DEF Next, Lock, DeleteExpired, Insert, Unlock, CleanupExpired, Tick, vars
  <2>2. SUFFICES ASSUME NEW c \in Callers, until'[c] # Unheld
                 PROVE  row' = Lease(c)' \/ Seconds(until'[c]) < DBNow'
    BY <2>1 DEF LeaseKept
  <2>3. ASSUME NEW d \in Callers, Lock(d) PROVE row' = Lease(c)' \/ Seconds(until'[c]) < DBNow'
    BY <2>2, <2>3, SameLease DEF Lock
  <2>4. ASSUME NEW d \in Callers, DeleteExpired(d)
        PROVE  row' = Lease(c)' \/ Seconds(until'[c]) < DBNow'
    BY <2>2, <2>4, SameLease DEF DeleteExpired
  <2>5. ASSUME NEW d \in Callers, Insert(d) PROVE row' = Lease(c)' \/ Seconds(until'[c]) < DBNow'
    <3>1. CASE until' = until
      BY <2>2, <2>5, <3>1, SameLease DEF Insert
    <3>2. CASE until' # until
      <4>1. row = NoRow /\ row' = [owner |-> owner[StoreOf[d]], exp |-> Seconds(call[d].exp)]
            /\ until' = [until EXCEPT ![d] = call[d].exp] /\ UNCHANGED <<owner, now>>
        BY <2>5, <3>2 DEF Insert
      <4>2. CASE c = d
        BY <4>1, <4>2 DEF Lease, TypeOK
      <4>3. CASE c # d
        BY <2>2, <4>1, <4>3, SameLease DEF TypeOK
      <4> QED
        BY <4>2, <4>3
    <3> QED
      BY <3>1, <3>2
  <2>6. ASSUME NEW d \in Callers, Unlock(d) PROVE row' = Lease(c)' \/ Seconds(until'[c]) < DBNow'
    <3>1. c # d /\ until'[c] = until[c] /\ UNCHANGED <<owner, now>>
      BY <2>2, <2>6 DEF Unlock, TypeOK
    <3>2. owner[StoreOf[c]] # owner[StoreOf[d]]
      BY <3>1 DEF OneCallerPerStore, OwnersDiffer
    <3>3. CASE row = Lease(c)
      <4>1. row' = row
        BY <2>6, <3>2, <3>3 DEF Unlock, Lease
      <4> QED
        BY <2>2, <3>1, <4>1, SameLease
    <3>4. CASE row # Lease(c)
      BY <2>2, <3>1, <3>4 DEF LeaseKept, DBNow
    <3> QED
      BY <3>3, <3>4
  <2>7. ASSUME NEW s \in Stores, Restart(s) PROVE row' = Lease(c)' \/ Seconds(until'[c]) < DBNow'
    <3>1. StoreOf[c] # s /\ until'[c] = until[c]
      BY <2>2, <2>7 DEF Restart
    <3>2. owner'[StoreOf[c]] = owner[StoreOf[c]]
      BY <2>7, <3>1 DEF Restart, TypeOK
    <3> QED
      BY <2>2, <2>7, <3>1, <3>2, SameLease DEF Restart
  <2>8. CASE CleanupExpired
    BY <2>2, <2>8, SameLease DEF CleanupExpired
  <2>9. CASE Tick
    <3>1. UNCHANGED <<row, owner, until>> /\ now <= now'
      BY <2>9 DEF Tick, TypeOK
    <3>2. DBNow <= DBNow' /\ DBNow \in Nat /\ DBNow' \in Nat
      BY <3>1, SecondsMonotonic, SecondsFacts DEF DBNow, TypeOK
    <3>3. Seconds(until[c]) \in Nat
      BY <2>2, <3>1, SecondsFacts DEF TypeOK
    <3> QED
      BY <2>2, <3>1, <3>2, <3>3 DEF LeaseKept, Lease
  <2>10. CASE UNCHANGED vars
    BY <2>2, <2>10, SameLease DEF vars
  <2> QED
    BY <2>3, <2>4, <2>5, <2>6, <2>7, <2>8, <2>9, <2>10 DEF Next
<1> QED
  BY <1>1, <1>2, TypeCorrect, PTL DEF Spec

-----------------------------------------------------------------------------
(* A caller whose lease the database still counts as running owns the row, *)
(* so no other caller's lease is running.                                  *)
LEMMA RunningLeases ==
  ASSUME LockInv, OneCallerPerStore, NEW c \in Callers, NEW d \in Callers,
         row = Lease(c), row = Lease(d)
  PROVE  c = d
BY KVLockAssumption DEF LockInv, OwnersDiffer, Lease, OneCallerPerStore

LEMMA HeldIsRunning ==
  ASSUME LockInv, NEW c \in Callers, Holds(c)
  PROVE  row = Lease(c)
<1>1. until[c] \in Nat /\ now \in Nat /\ Early \in Nat /\ now + Early <= until[c]
  BY KVLockAssumption DEF Holds, Early, LockInv, TypeOK
<1>2. /\ Seconds(now) <= Seconds(until[c]) /\ Seconds(now) \in Nat
      /\ Seconds(until[c]) \in Nat /\ until[c] < Seconds(until[c]) + Grain
  BY <1>1, SecondsMonotonic, SecondsFacts
<1>3. ~(Seconds(until[c]) < DBNow)
  BY <1>1, <1>2, KVLockAssumption DEF DBNow, Early
<1> QED
  BY <1>1, <1>3 DEF LockInv, LeaseKept, Holds

(* With one caller in each store, two callers never hold the lock at once, *)
(* for either database, every ttl and any number of stores.                *)
THEOREM LocksExclude ==
  ASSUME OneCallerPerStore PROVE Spec => []MutualExclusion
<1>1. LockInv => MutualExclusion
  BY HeldIsRunning, RunningLeases DEF MutualExclusion
<1> QED
  BY <1>1, LockInvariant, PTL

(* While it holds the lock, its row is there and is its own. *)
THEOREM HoldersKeepRows ==
  ASSUME OneCallerPerStore PROVE Spec => []HolderKeepsRow
<1>1. LockInv => HolderKeepsRow
  <2> SUFFICES ASSUME LockInv, NEW c \in Callers, Holds(c)
               PROVE  row # NoRow /\ row.owner = owner[StoreOf[c]]
    BY DEF HolderKeepsRow
  <2>1. row = Lease(c)
    BY HeldIsRunning
  <2>2. until[c] \in Nat
    BY DEF LockInv, TypeOK, Holds
  <2>3. Lease(c) \in [owner : Owners, exp : Nat]
    BY <2>2, SecondsFacts, KVLockAssumption DEF LockInv, TypeOK, Lease
  <2> QED
    BY <2>1, <2>3, KVLockAssumption DEF Lease
<1> QED
  BY <1>1, LockInvariant, PTL

=============================================================================
