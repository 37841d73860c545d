---------------------------- MODULE KVStoreProofs ----------------------------
(* Theorems about KVStore. *)
EXTENDS KVStore, SequenceTheorems, FiniteSetTheorems, TLAPS

(* A read of the cache, an invalidation and an eviction only take entries  *)
(* out; a Set puts one in.                                                 *)
LEMMA RemoveData ==
  ASSUME NEW c, NEW k, c.data \in [Keys -> Entries]
  PROVE  /\ RemoveElement(c, k).data \in [Keys -> Entries]
         /\ \A j \in Keys : RemoveElement(c, k).data[j] \in {c.data[j], NoEntry}
BY DEF RemoveElement, Entries

LEMMA GetData ==
  ASSUME NEW c, NEW k \in Keys, NEW t, c.data \in [Keys -> Entries]
  PROVE  /\ L1Get(c, k, t).data \in [Keys -> Entries]
         /\ \A j \in Keys : L1Get(c, k, t).data[j] \in {c.data[j], NoEntry}
BY RemoveData DEF L1Get, MoveToFront

LEMMA InvalidateData ==
  ASSUME NEW c, NEW k \in Keys, c.data \in [Keys -> Entries]
  PROVE  /\ L1Invalidate(c, k).data \in [Keys -> Entries]
         /\ \A j \in Keys : L1Invalidate(c, k).data[j] \in {c.data[j], NoEntry}
BY RemoveData DEF L1Invalidate

LEMMA SetData ==
  ASSUME NEW c, NEW k \in Keys, NEW v \in Values, NEW exp \in Nat, c.data \in [Keys -> Entries]
  PROVE  /\ L1Set(c, k, v, exp).data \in [Keys -> Entries]
         /\ \A j \in Keys : L1Set(c, k, v, exp).data[j] \in
              {c.data[j], NoEntry, [value |-> v, exp |-> exp]}
         /\ \A j \in Keys : j # k => L1Set(c, k, v, exp).data[j] \in {c.data[j], NoEntry}
<1> DEFINE room == IF c.data[k] = NoEntry /\ Full(c) THEN EvictOldest(c) ELSE c
<1>1. /\ room.data \in [Keys -> Entries]
      /\ \A j \in Keys : room.data[j] \in {c.data[j], NoEntry}
  BY RemoveData DEF EvictOldest
<1>2. L1Set(c, k, v, exp).data = [room.data EXCEPT ![k] = [value |-> v, exp |-> exp]]
  BY DEF L1Set
<1>3. [value |-> v, exp |-> exp] \in Entries
  BY DEF Entries
<1> HIDE DEF room
<1> QED
  BY <1>1, <1>2, <1>3

-----------------------------------------------------------------------------
TypeRow == row \in [Keys -> Rows]
TypeL1 == DOMAIN l1 = Stores /\ \A s \in Stores : l1[s].data \in [Keys -> Entries]
TypeCall == call \in [Clients -> Calls]
TypeEnded == ended \in [Keys -> [Values -> Instants]]

(* What a client carries from the row to the cache. *)
LEMMA Carried ==
  ASSUME TypeOK, NEW c \in Clients, call[c].pc \in {"ttl", "fill"}
  PROVE  call[c].key \in Keys /\ call[c].value \in Values /\ call[c].ttl \in Nat /\ call[c].read \in Nat
BY DEF TypeOK, Calls, Idle

LEMMA CappedFacts ==
  ASSUME TypeOK, NEW k \in Keys
  PROVE  Capped(k) \in Nat /\ Capped(k) <= L1TTL
<1>1. L1TTL \in Nat /\ now \in Nat
  BY KVStoreAssumption DEF TypeOK
<1>2. ASSUME Visible(k), row[k].exp # Never PROVE row[k].exp \in Nat /\ row[k].exp > now
  BY <1>2 DEF Visible, TypeOK, Rows, Instants
<1> QED
  BY <1>1, <1>2 DEF Capped

(* A writer's step, whichever operation it belongs to. *)
LEMMA WriteTypes ==
  ASSUME TypeOK, NEW c \in Clients, NEW k \in Keys, NEW v \in Values, NEW exp \in Instants,
         Write(c, k, v, exp)
  PROVE  TypeOK'
<1>1. TypeRow' /\ TypeL1' /\ TypeCall' /\ now' \in Nat
  BY DEF Write, Goto, TypeOK, TypeRow, TypeL1, TypeCall, Rows, Calls
<1>2. TypeEnded'
  <2>1. \A w \in Values : (IF Says(row'[k], w) THEN Never
          ELSE IF ~Says(row[k], w) THEN ended[k][w]
          ELSE IF Visible(k) THEN now ELSE row[k].exp) \in Instants
    BY DEF TypeOK, Rows, Instants, Says
  <2> QED
    BY <2>1 DEF Write, Changed, TypeOK, TypeEnded
<1> QED
  BY <1>1, <1>2 DEF TypeOK, TypeRow, TypeL1, TypeCall, TypeEnded

(* The steps that leave the row alone. *)
LEMMA ReadTypes ==
  ASSUME TypeOK, NEW c \in Clients,
         \/ \E k \in Keys, reader \in Readers : Lookup(c, k, reader)
         \/ Query(c) \/ QueryTTL(c) \/ Fill(c) \/ Invalidate(c)
  PROVE  TypeOK'
<1> USE KVStoreAssumption
<1>1. ASSUME NEW k \in Keys, NEW reader \in Readers, Lookup(c, k, reader) PROVE TypeOK'
  <2>1. TypeL1'
    BY <1>1, GetData DEF Lookup, TypeOK, TypeL1
  <2>2. TypeCall'
    <3>1. [pc |-> "query", key |-> k, reader |-> reader] \in Calls
      <4>1. reader \in {"get", "bulk"}
        OBVIOUS
      <4> QED
        BY <4>1 DEF Calls
    <3> QED
      BY <1>1, <3>1 DEF Lookup, Goto, TypeOK, TypeCall
  <2> QED
    BY <1>1, <2>1, <2>2 DEF Lookup, TypeOK, TypeL1, TypeCall
<1>2. CASE Query(c)
  <2>1. call[c].key \in Keys
    BY <1>2 DEF Query, TypeOK, Calls, Idle
  <2>2. Visible(call[c].key) => row[call[c].key].value \in Values
    BY <2>1 DEF Visible, TypeOK, Rows
  <2>3. TypeCall'
    <3>1. CASE ~Visible(call[c].key)
      BY <1>2, <3>1 DEF Query, Goto, TypeOK, TypeCall, Calls
    <3>2. CASE Visible(call[c].key)
      <4>1. \A pc \in {"ttl", "fill"} :
              [pc |-> pc, key |-> call[c].key, value |-> row[call[c].key].value,
               ttl |-> L1TTL, read |-> now] \in Calls
        BY <2>1, <2>2, <3>2 DEF TypeOK, Calls
      <4> QED
        BY <1>2, <3>2, <4>1 DEF Query, Goto, TypeOK, TypeCall
    <3> QED
      BY <3>1, <3>2
  <2> QED
    BY <1>2, <2>3 DEF Query, TypeOK, TypeCall
<1>3. CASE QueryTTL(c)
  <2>1. TypeCall'
    BY <1>3, Carried, CappedFacts DEF QueryTTL, Goto, TypeOK, TypeCall, Calls
  <2> QED
    BY <1>3, <2>1 DEF QueryTTL, TypeOK, TypeCall
<1>4. CASE Fill(c)
  <2>1. /\ call[c].key \in Keys /\ call[c].value \in Values
        /\ now + call[c].ttl \in Nat
    BY <1>4, Carried DEF Fill, TypeOK
  <2>2. TypeL1'
    BY <1>4, <2>1, SetData DEF Fill, TypeOK, TypeL1
  <2>3. TypeCall'
    BY <1>4 DEF Fill, Goto, TypeOK, TypeCall, Calls
  <2> QED
    BY <1>4, <2>2, <2>3 DEF Fill, TypeOK, TypeL1, TypeCall
<1>5. CASE Invalidate(c)
  <2>1. call[c].key \in Keys
    BY <1>5 DEF Invalidate, TypeOK, Calls, Idle
  <2>2. TypeL1'
    BY <1>5, <2>1, InvalidateData DEF Invalidate, TypeOK, TypeL1
  <2>3. TypeCall'
    BY <1>5 DEF Invalidate, Goto, TypeOK, TypeCall, Calls
  <2> QED
    BY <1>5, <2>2, <2>3 DEF Invalidate, TypeOK, TypeL1, TypeCall
<1> QED
  BY <1>1, <1>2, <1>3, <1>4, <1>5

(* The state keeps its types, for any number of stores, clients and keys. *)
THEOREM TypeCorrect == Spec => []TypeOK
<1> USE KVStoreAssumption
<1>1. Init => TypeOK
  BY DEF Init, TypeOK, Rows, EmptyCache, Entries, Calls, Instants
<1>2. TypeOK /\ [Next]_vars => TypeOK'
  <2> SUFFICES ASSUME TypeOK, [Next]_vars PROVE TypeOK'
    OBVIOUS
  <2>1. ASSUME NEW c \in Clients, Operation(c) PROVE TypeOK'
    <3>1. ASSUME NEW k \in Keys, Set(c, k) PROVE TypeOK'
      BY <3>1, WriteTypes DEF Set, Fresh, Instants
    <3>2. ASSUME NEW k \in Keys, SetEx(c, k) PROVE TypeOK'
      <4>1. \A ttl \in Ttls : now + ttl \in Instants
        BY DEF TypeOK, Instants
      <4> QED
        BY <3>2, <4>1, WriteTypes DEF SetEx, Fresh
    <3>3. ASSUME NEW k \in Keys, Upsert(c, k) PROVE TypeOK'
      <4>1. (IF row[k] = NoRow THEN Never ELSE row[k].exp) \in Instants
        BY DEF TypeOK, Rows, Instants
      <4> QED
        BY <3>3, <4>1, WriteTypes DEF Upsert, Fresh
    <3>4. ASSUME NEW k \in Keys, HDel(c, k) PROVE TypeOK'
      <4>1. CASE row[k] # NoRow /\ \E v \in Fresh : Write(c, k, v, row[k].exp)
        <5>1. row[k].exp \in Instants
          BY <4>1 DEF TypeOK, Rows
        <5> QED
          BY <4>1, <5>1, WriteTypes DEF Fresh
      <4>2. CASE Goto(c, [pc |-> "invalidate", key |-> k]) /\ UNCHANGED <<row, l1, now, ended>>
        BY <4>2 DEF Goto, TypeOK, Calls
      <4> QED
        BY <3>4, <4>1, <4>2 DEF HDel
    <3>5. ASSUME NEW k \in Keys, Delete(c, k) PROVE TypeOK'
      <4>1. TypeRow' /\ TypeL1' /\ TypeCall' /\ now' \in Nat
        BY <3>5 DEF Delete, Goto, TypeOK, TypeRow, TypeL1, TypeCall, Rows, Calls
      <4>2. \A w \in Values : (IF Says(row'[k], w) THEN Never
              ELSE IF ~Says(row[k], w) THEN ended[k][w]
              ELSE IF Visible(k) THEN now ELSE row[k].exp) \in Instants
        BY DEF TypeOK, Rows, Instants, Says
      <4>3. TypeEnded'
        BY <3>5, <4>2 DEF Delete, Changed, TypeOK, TypeEnded
      <4> QED
        BY <4>1, <4>3 DEF TypeOK, TypeRow, TypeL1, TypeCall, TypeEnded
    <3>6. ASSUME NEW k \in Keys, Expire(c, k) PROVE TypeOK'
      <4>1. PICK ttl \in Ttls : row' = [row EXCEPT ![k] = [value |-> row[k].value, exp |-> now + ttl]]
        BY <3>6 DEF Expire
      <4>2. [value |-> row[k].value, exp |-> now + ttl] \in Rows
        BY <3>6 DEF Expire, TypeOK, Rows, Instants
      <4> QED
        BY <3>6, <4>1, <4>2 DEF Expire, Goto, TypeOK, Calls
    <3> QED
      BY <2>1, <3>1, <3>2, <3>3, <3>4, <3>5, <3>6, ReadTypes DEF Operation
  <2>2. CASE CleanupExpired
    <3> DEFINE Old == {k \in Keys : row[k] # NoRow /\ row[k].exp # Never /\ row[k].exp < now}
    <3>1. TypeRow'
      BY <2>2 DEF CleanupExpired, TypeOK, TypeRow, Rows
    <3>2. \A k \in Keys, v \in Values :
            (IF k \in Old /\ Says(row[k], v) THEN row[k].exp ELSE ended[k][v]) \in Instants
      BY DEF TypeOK, Rows, Says
    <3>3. TypeEnded'
      BY <2>2, <3>2 DEF CleanupExpired, TypeEnded
    <3> QED
      BY <2>2, <3>1, <3>3 DEF CleanupExpired, TypeOK, TypeRow, TypeEnded
  <2>3. CASE Tick
    BY <2>3 DEF Tick, TypeOK
  <2>4. CASE UNCHANGED vars
    BY <2>4 DEF vars, TypeOK
  <2> QED
    BY <2>1, <2>2, <2>3, <2>4 DEF Next
<1> QED
  BY <1>1, <1>2, PTL DEF Spec


-----------------------------------------------------------------------------
(* An entry expires within L1TTL of now, and within L1TTL + MaxCall of the *)
(* end of its value; what a read carries was read before that end, not     *)
(* more than MaxCall ago.                                                  *)
EntryBounded(k, e) ==
  /\ e.exp <= now + L1TTL
  /\ EndOf(k, e.value) # Never => e.exp <= EndOf(k, e.value) + L1TTL + MaxCall

EntriesBounded == \A s \in Stores, k \in Keys :
  l1[s].data[k] # NoEntry => EntryBounded(k, l1[s].data[k])

CarriedInTime == \A c \in Clients : call[c].pc \in {"ttl", "fill"} =>
  /\ call[c].ttl <= L1TTL
  /\ call[c].read <= now /\ now <= call[c].read + MaxCall
  /\ EndOf(call[c].key, call[c].value) # Never =>
       call[c].read <= EndOf(call[c].key, call[c].value)

StaleInv == TypeOK /\ EntriesBounded /\ CarriedInTime

EndsAlike(k, v) ==
  \/ EndOf(k, v)' = EndOf(k, v)
  \/ EndOf(k, v)' = Never
  \/ now <= EndOf(k, v)'
  \/ v \in Fresh

LEMMA EndOfType ==
  ASSUME TypeOK, NEW k \in Keys, NEW v \in Values
  PROVE  EndOf(k, v) \in Instants
BY DEF TypeOK, EndOf, Says, Rows

(* When the row of k changes, a value it gives up ends now or has ended.   *)
LEMMA ChangedEnds ==
  ASSUME TypeOK, TypeOK', NEW k \in Keys, NEW j \in Keys, NEW v \in Values,
         Changed(k), row' = [row EXCEPT ![k] = row'[k]], ~Says(row'[k], v)
  PROVE  EndsAlike(j, v)
<1>1. CASE j # k
  BY <1>1 DEF Changed, EndsAlike, EndOf, TypeOK
<1>2. CASE j = k
  <2>1. EndOf(k, v)' = IF ~Says(row[k], v) THEN ended[k][v] ELSE IF Visible(k) THEN now ELSE row[k].exp
    BY DEF Changed, EndOf, TypeOK
  <2>2. now \in Nat
    BY DEF TypeOK
  <2> QED
    BY <1>2, <2>1, <2>2 DEF EndsAlike, EndOf
<1> QED
  BY <1>1, <1>2

LEMMA WriteEnds ==
  ASSUME TypeOK, TypeOK', NEW c \in Clients, NEW k \in Keys, NEW w \in Fresh, NEW exp \in Instants,
         Write(c, k, w, exp), NEW j \in Keys, NEW v \in Values
  PROVE  EndsAlike(j, v)
<1>1. CASE v = w
  BY <1>1 DEF EndsAlike
<1>2. CASE v # w
  <2>1. row'[k] = [value |-> w, exp |-> exp] /\ row' = [row EXCEPT ![k] = row'[k]]
    BY DEF Write, TypeOK
  <2>2. ~Says(row'[k], v)
    BY <1>2, <2>1 DEF Says
  <2>3. Changed(k)
    BY DEF Write
  <2> QED
    BY <2>1, <2>2, <2>3, ChangedEnds
<1> QED
  BY <1>1, <1>2

(* Every step keeps, moves past now or forgets the end of a value that is  *)
(* not new.                                                                *)
LEMMA StepEnds ==
  ASSUME TypeOK, TypeOK', [Next]_vars, NEW j \in Keys, NEW v \in Values
  PROVE  EndsAlike(j, v)
<1> USE KVStoreAssumption
<1>1. CASE UNCHANGED <<row, ended>>
  BY <1>1 DEF EndsAlike, EndOf
<1>2. ASSUME NEW c \in Clients, NEW k \in Keys,
             Set(c, k) \/ SetEx(c, k) \/ Upsert(c, k) \/ HDel(c, k)
      PROVE  EndsAlike(j, v)
  <2>1. CASE UNCHANGED <<row, ended>>
    BY <1>1, <2>1
  <2>2. CASE \E w \in Fresh, exp \in Instants : Write(c, k, w, exp)
    BY <2>2, WriteEnds
  <2>3. now \in Nat /\ Never \in Instants /\ (row[k] # NoRow => row[k].exp \in Instants)
        /\ \A ttl \in Ttls : now + ttl \in Instants
    <3>1. now \in Nat /\ row[k] \in Rows
      BY DEF TypeOK
    <3>2. \A ttl \in Ttls : now + ttl \in Nat
      BY <3>1
    <3> QED
      BY <3>1, <3>2 DEF Rows, Instants
  <2> QED
    BY <1>2, <2>1, <2>2, <2>3 DEF Set, SetEx, Upsert, HDel
<1>3. ASSUME NEW c \in Clients, NEW k \in Keys, Delete(c, k) PROVE EndsAlike(j, v)
  <2>1. row'[k] = NoRow /\ row' = [row EXCEPT ![k] = row'[k]] /\ Changed(k)
    BY <1>3 DEF Delete, TypeOK
  <2> QED
    BY <2>1, ChangedEnds DEF Says
<1>4. ASSUME NEW c \in Clients, NEW k \in Keys, Expire(c, k) PROVE EndsAlike(j, v)
  <2>1. PICK ttl \in Ttls : row' = [row EXCEPT ![k] = [value |-> row[k].value, exp |-> now + ttl]]
    BY <1>4 DEF Expire
  <2>2. now <= now + ttl
    <3>1. now \in Nat /\ ttl \in Nat
      BY DEF TypeOK
    <3> QED
      BY <3>1
  <2>3. [value |-> row[k].value, exp |-> now + ttl] # NoRow
    BY <1>4 DEF Expire, TypeOK, Rows, Instants
  <2> QED
    BY <1>4, <2>1, <2>2, <2>3 DEF Expire, EndsAlike, EndOf, Says, TypeOK
<1>5. CASE CleanupExpired
  BY <1>5 DEF CleanupExpired, EndsAlike, EndOf, Says, TypeOK
<1> QED
  BY <1>1, <1>2, <1>3, <1>4, <1>5
  DEF Next, Operation, Lookup, Query, QueryTTL, Fill, Invalidate, Tick, vars

(* What a step does to the caches and to the clock. *)
LEMMA CacheSteps ==
  ASSUME [Next]_vars
  PROVE  /\ now' \in {now, now + 1}
         /\ \/ l1' = l1
            \/ \E c \in Clients : Fill(c) \/ Invalidate(c)
            \/ \E c \in Clients, k \in Keys, reader \in Readers : Lookup(c, k, reader)
<1>1. ASSUME NEW c \in Clients, NEW k \in Keys,
             \/ Set(c, k) \/ SetEx(c, k) \/ Upsert(c, k) \/ HDel(c, k)
             \/ Delete(c, k) \/ Expire(c, k)
      PROVE  now' = now /\ l1' = l1
  BY <1>1 DEF Set, SetEx, Upsert, HDel, Delete, Expire, Write
<1>2. ASSUME NEW c \in Clients, Query(c) \/ QueryTTL(c) PROVE now' = now /\ l1' = l1
  BY <1>2 DEF Query, QueryTTL
<1>3. ASSUME NEW c \in Clients,
             \/ Fill(c) \/ Invalidate(c)
             \/ \E k \in Keys, reader \in Readers : Lookup(c, k, reader)
      PROVE  now' = now
  BY <1>3 DEF Fill, Invalidate, Lookup
<1>4. CleanupExpired \/ Tick \/ UNCHANGED vars => now' \in {now, now + 1} /\ l1' = l1
  BY DEF CleanupExpired, Tick, vars
<1> QED
  BY <1>1, <1>2, <1>3, <1>4 DEF Next, Operation

(* Only Fill puts an entry into a cache. *)
LEMMA EntriesFrom ==
  ASSUME TypeOK, [Next]_vars, NEW s \in Stores, NEW k \in Keys
  PROVE  \/ l1'[s].data[k] \in {l1[s].data[k], NoEntry}
         \/ \E c \in Clients :
              /\ Fill(c) /\ call[c].key = k
              /\ l1'[s].data[k] = [value |-> call[c].value, exp |-> now + call[c].ttl]
<1>1. CASE UNCHANGED l1
  BY <1>1
<1>2. ASSUME NEW c \in Clients, NEW j \in Keys, NEW reader \in Readers, Lookup(c, j, reader)
      PROVE  l1'[s].data[k] \in {l1[s].data[k], NoEntry}
  BY <1>2, GetData, KVStoreAssumption DEF Lookup, TypeOK
<1>3. ASSUME NEW c \in Clients, Invalidate(c) PROVE l1'[s].data[k] \in {l1[s].data[k], NoEntry}
  <2>1. call[c].key \in Keys
    BY <1>3 DEF Invalidate, TypeOK, Calls, Idle
  <2> QED
    BY <1>3, <2>1, InvalidateData, KVStoreAssumption DEF Invalidate, TypeOK
<1>4. ASSUME NEW c \in Clients, Fill(c)
      PROVE  \/ l1'[s].data[k] \in {l1[s].data[k], NoEntry}
             \/ /\ call[c].key = k
                /\ l1'[s].data[k] = [value |-> call[c].value, exp |-> now + call[c].ttl]
  <2>1. call[c].key \in Keys /\ call[c].value \in Values /\ now + call[c].ttl \in Nat
    BY <1>4, Carried DEF Fill, TypeOK
  <2>2. CASE s = StoreOf[c]
    <3>1. l1'[s] = L1Set(l1[s], call[c].key, call[c].value, now + call[c].ttl)
      BY <1>4, <2>2 DEF Fill, TypeOK
    <3>2. l1[s].data \in [Keys -> Entries]
      BY DEF TypeOK
    <3>3. /\ l1'[s].data[k] \in
               {l1[s].data[k], NoEntry, [value |-> call[c].value, exp |-> now + call[c].ttl]}
          /\ k # call[c].key => l1'[s].data[k] \in {l1[s].data[k], NoEntry}
      <4> DEFINE d == call[c].key
                 v == call[c].value
                 exp == now + call[c].ttl
      <4>1. d \in Keys /\ v \in Values /\ exp \in Nat /\ l1'[s] = L1Set(l1[s], d, v, exp)
        BY <2>1, <3>1
      <4> HIDE DEF d, v, exp
      <4>2. /\ L1Set(l1[s], d, v, exp).data[k] \in
                 {l1[s].data[k], NoEntry, [value |-> v, exp |-> exp]}
            /\ k # d => L1Set(l1[s], d, v, exp).data[k] \in {l1[s].data[k], NoEntry}
        BY <3>2, <4>1, SetData
      <4> QED
        BY <4>1, <4>2 DEF d, v, exp
    <3> QED
      BY <3>3
  <2>3. CASE s # StoreOf[c]
    BY <1>4, <2>3 DEF Fill, TypeOK
  <2> QED
    BY <2>2, <2>3
<1> QED
  BY <1>1, <1>2, <1>3, <1>4, CacheSteps


LEMMA ClockAdvances ==
  ASSUME TypeOK, TypeOK', [Next]_vars
  PROVE  now \in Nat /\ now' \in Nat /\ now <= now'
<1>1. now \in Nat /\ now' \in Nat
  BY DEF TypeOK
<1>2. now' = now \/ now' = now + 1
  BY CacheSteps
<1> QED
  BY <1>1, <1>2

LEMMA EntriesStayBounded ==
  ASSUME StaleInv, TypeOK', [Next]_vars
  PROVE  EntriesBounded'
<1> USE KVStoreAssumption
<1>1. SUFFICES ASSUME NEW s \in Stores, NEW k \in Keys, NEW e, e = l1'[s].data[k], e # NoEntry
               PROVE  EntryBounded(k, e)'
  BY DEF EntriesBounded
<1>2. now \in Nat /\ now' \in Nat /\ now <= now'
  BY ClockAdvances DEF StaleInv
<1>3. \A v \in Values : EndOf(k, v) \in Instants /\ EndOf(k, v)' \in Instants
  BY DEF StaleInv, TypeOK, EndOf, Says, Rows
<1>4. CASE e = l1[s].data[k]
  <2>1. EntryBounded(k, e) /\ e.value \in Values /\ e.exp \in Nat
    BY <1>1, <1>4 DEF StaleInv, EntriesBounded, TypeOK, Entries
  <2>2. e.value \notin Fresh
    BY <1>1, <1>4, <2>1 DEF Fresh, Referenced
  <2>3. EndsAlike(k, e.value)
    BY <2>1, StepEnds DEF StaleInv
  <2>4. EndOf(k, e.value)' = EndOf(k, e.value) \/ EndOf(k, e.value)' = Never
        \/ now <= EndOf(k, e.value)'
    BY <2>2, <2>3 DEF EndsAlike
  <2>5. /\ e.exp <= now + L1TTL
        /\ EndOf(k, e.value) # Never => e.exp <= EndOf(k, e.value) + L1TTL + MaxCall
    BY <2>1 DEF EntryBounded
  <2>6. e.exp <= now' + L1TTL
    BY <1>2, <2>1, <2>5
  <2>7. EndOf(k, e.value)' # Never => e.exp <= EndOf(k, e.value)' + L1TTL + MaxCall
    <3> DEFINE old == EndOf(k, e.value)
               new == EndOf(k, e.value)'
    <3>1. old \in Instants /\ new \in Instants
      BY <1>3, <2>1
    <3> HIDE DEF old, new
    <3> QED
      BY <1>2, <2>1, <2>4, <2>5, <3>1 DEF old, new, Instants
  <2> QED
    BY <2>6, <2>7 DEF EntryBounded
<1>5. ASSUME NEW c \in Clients, Fill(c), call[c].key = k,
             e = [value |-> call[c].value, exp |-> now + call[c].ttl]
      PROVE  EntryBounded(k, e)'
  <2>1. e.value \in Values /\ e.value = call[c].value /\ call[c].ttl \in Nat /\ call[c].read \in Nat
    BY <1>5, Carried DEF Fill, StaleInv
  <2>2. /\ call[c].ttl <= L1TTL /\ now <= call[c].read + MaxCall
        /\ EndOf(k, e.value) # Never => call[c].read <= EndOf(k, e.value)
    BY <1>5, <2>1 DEF Fill, StaleInv, CarriedInTime
  <2>3. now' = now /\ EndOf(k, e.value)' = EndOf(k, e.value)
    BY <1>5 DEF Fill, EndOf, Says
  <2>4. e.exp <= now + L1TTL
    BY <1>2, <1>5, <2>1, <2>2
  <2>5. EndOf(k, e.value) # Never => e.exp <= EndOf(k, e.value) + L1TTL + MaxCall
    <3> DEFINE end == EndOf(k, e.value)
    <3>1. end \in Instants
      BY <1>3, <2>1
    <3> HIDE DEF end
    <3> QED
      BY <1>2, <1>5, <2>1, <2>2, <3>1 DEF end, Instants
  <2> QED
    BY <2>3, <2>4, <2>5 DEF EntryBounded
<1>6. \/ l1'[s].data[k] \in {l1[s].data[k], NoEntry}
      \/ \E c \in Clients :
           /\ Fill(c) /\ call[c].key = k
           /\ l1'[s].data[k] = [value |-> call[c].value, exp |-> now + call[c].ttl]
  BY EntriesFrom DEF StaleInv
<1> QED
  BY <1>1, <1>4, <1>5, <1>6

LEMMA CarriedStaysInTime ==
  ASSUME StaleInv, TypeOK', [Next]_vars
  PROVE  CarriedInTime'
<1> USE KVStoreAssumption
<1>1. SUFFICES ASSUME NEW c \in Clients, NEW r, r = call'[c], r.pc \in {"ttl", "fill"}
               PROVE  /\ r.ttl <= L1TTL
                      /\ r.read <= now' /\ now' <= r.read + MaxCall
                      /\ EndOf(r.key, r.value)' # Never => r.read <= EndOf(r.key, r.value)'
  BY DEF CarriedInTime
<1>2. now \in Nat /\ now' \in Nat /\ now <= now'
  BY ClockAdvances DEF StaleInv
<1>3. r.key \in Keys /\ r.value \in Values /\ r.read \in Nat
  BY <1>1 DEF TypeOK, Calls, Idle
<1>4. EndOf(r.key, r.value) \in Instants /\ EndOf(r.key, r.value)' \in Instants
  BY <1>3 DEF StaleInv, TypeOK, EndOf, Says, Rows
<1>5. CASE /\ Query(c)
  <2>1. call[c].key \in Keys
    BY <1>5 DEF Query, StaleInv, TypeOK, Calls, Idle
  <2>2. Visible(r.key) /\ r.value = row[r.key].value /\ r.ttl = L1TTL /\ r.read = now
    BY <1>1, <1>5, <2>1 DEF Query, Goto, Idle, StaleInv, TypeOK
  <2>3. EndOf(r.key, r.value) = row[r.key].exp
    BY <2>2 DEF Visible, EndOf, Says
  <2>4. EndOf(r.key, r.value)' = EndOf(r.key, r.value) /\ now' = now
    BY <1>5 DEF Query, EndOf, Says
  <2>5. EndOf(r.key, r.value) # Never => now <= EndOf(r.key, r.value)
    <3> DEFINE end == EndOf(r.key, r.value)
    <3>1. end = Never \/ end > now
      BY <2>2, <2>3 DEF Visible
    <3>2. end \in Instants
      BY <1>4
    <3> HIDE DEF end
    <3> QED
      BY <1>2, <3>1, <3>2 DEF end, Instants
  <2> QED
    BY <1>2, <2>2, <2>4, <2>5
<1>6. CASE /\ call[c].pc \in {"ttl", "fill"}
           /\ r.key = call[c].key /\ r.value = call[c].value
           /\ r.read = call[c].read /\ r.ttl <= L1TTL
           /\ \/ now' = now
              \/ now < r.read + MaxCall /\ now' = now + 1
  <2>1. /\ r.read <= now /\ now <= r.read + MaxCall
        /\ EndOf(r.key, r.value) # Never => r.read <= EndOf(r.key, r.value)
    BY <1>6 DEF StaleInv, CarriedInTime
  <2>2. r.value \notin Fresh
    BY <1>6 DEF Fresh, Referenced
  <2>3. EndsAlike(r.key, r.value)
    BY <1>3, StepEnds DEF StaleInv
  <2>4. EndOf(r.key, r.value)' # Never => r.read <= EndOf(r.key, r.value)'
    <3> DEFINE old == EndOf(r.key, r.value)
               new == EndOf(r.key, r.value)'
    <3>1. new = old \/ new = Never \/ now <= new
      BY <2>2, <2>3 DEF EndsAlike
    <3>2. old \in Instants /\ new \in Instants
      BY <1>4
    <3> HIDE DEF old, new
    <3> QED
      BY <1>2, <1>3, <2>1, <3>1, <3>2 DEF old, new, Instants
  <2> QED
    BY <1>2, <1>3, <1>6, <2>1, <2>4
<1>7. Query(c) \/ ( /\ call[c].pc \in {"ttl", "fill"}
                    /\ r.key = call[c].key /\ r.value = call[c].value
                    /\ r.read = call[c].read /\ r.ttl <= L1TTL
                    /\ \/ now' = now
                       \/ now < r.read + MaxCall /\ now' = now + 1 )
  <2>0. TypeOK /\ CarriedInTime /\ DOMAIN call = Clients
    BY DEF StaleInv, TypeOK
  <2>1. CASE UNCHANGED <<call, now>>
    BY <1>1, <2>0, <2>1 DEF CarriedInTime
  <2>2. CASE Tick
    BY <1>1, <2>0, <2>2 DEF Tick, CarriedInTime
  <2>3. ASSUME NEW d \in Clients, QueryTTL(d)
        PROVE  /\ call[c].pc \in {"ttl", "fill"}
               /\ r.key = call[c].key /\ r.value = call[c].value
               /\ r.read = call[c].read /\ r.ttl <= L1TTL /\ now' = now
    <3>1. CASE c = d
      BY <1>1, <2>0, <2>3, <3>1, Carried, CappedFacts DEF QueryTTL, Goto
    <3>2. CASE c # d
      BY <1>1, <2>0, <2>3, <3>2 DEF QueryTTL, Goto, CarriedInTime
    <3> QED
      BY <3>1, <3>2
  <2>4. ASSUME NEW d \in Clients, NEW next, Goto(d, next), next.pc \notin {"ttl", "fill"}, now' = now
        PROVE  /\ call[c].pc \in {"ttl", "fill"}
               /\ r.key = call[c].key /\ r.value = call[c].value
               /\ r.read = call[c].read /\ r.ttl <= L1TTL
    BY <1>1, <2>0, <2>4 DEF Goto, CarriedInTime
  <2>5. ASSUME NEW d \in Clients, Operation(d), d # c
        PROVE  now' = now /\ (Goto(d, call'[d]) \/ UNCHANGED call)
    BY <2>0, <2>5 DEF Operation, Lookup, Query, QueryTTL, Fill, Invalidate, Set, SetEx, Upsert, HDel,
       Write, Delete, Expire, Goto
  <2>6. ASSUME NEW d \in Clients, Operation(d), d # c, call' # call
        PROVE  /\ call[c].pc \in {"ttl", "fill"}
               /\ r.key = call[c].key /\ r.value = call[c].value
               /\ r.read = call[c].read /\ r.ttl <= L1TTL /\ now' = now
    BY <1>1, <2>0, <2>5, <2>6 DEF Goto, CarriedInTime
  <2>7. ASSUME Operation(c), ~Query(c), ~QueryTTL(c), call' # call
        PROVE  \E next : Goto(c, next) /\ next.pc \notin {"ttl", "fill"} /\ now' = now
    BY <2>7 DEF Operation, Lookup, Fill, Invalidate, Set, SetEx, Upsert, HDel,
       Write, Delete, Expire, Idle
  <2>8. ASSUME NEW d \in Clients, Operation(d), call' # call
        PROVE  \/ Query(c)
               \/ /\ call[c].pc \in {"ttl", "fill"}
                  /\ r.key = call[c].key /\ r.value = call[c].value
                  /\ r.read = call[c].read /\ r.ttl <= L1TTL /\ now' = now
    <3>1. CASE d # c
      BY <2>6, <2>8, <3>1
    <3>2. CASE d = c /\ ~Query(c) /\ ~QueryTTL(c)
      BY <2>4, <2>7, <2>8, <3>2
    <3> QED
      BY <2>3, <3>1, <3>2
  <2>9. UNCHANGED <<call, now>> \/ Tick \/ (call' # call /\ \E d \in Clients : Operation(d))
    <3>1. ASSUME NEW d \in Clients, Operation(d) PROVE now' = now
      BY <3>1 DEF Operation, Lookup, Query, QueryTTL, Fill, Invalidate, Set, SetEx, Upsert, HDel,
         Write, Delete, Expire
    <3> QED
      BY <3>1 DEF Next, CleanupExpired, vars
  <2> QED
    BY <2>1, <2>2, <2>8, <2>9
<1> QED
  BY <1>5, <1>6, <1>7

(* The bound on staleness, for any number of stores, clients, keys and any *)
(* L1TTL and MaxCall.                                                      *)
THEOREM CachesForget == Spec => []StaleBounded
<1> USE KVStoreAssumption
<1>1. Init => StaleInv
  <2>1. Init => TypeOK
    BY DEF Init, TypeOK, Rows, EmptyCache, Entries, Calls, Instants
  <2> QED
    BY <2>1 DEF Init, StaleInv, EntriesBounded, CarriedInTime, EmptyCache, Idle
<1>2. StaleInv /\ TypeOK' /\ [Next]_vars => StaleInv'
  BY EntriesStayBounded, CarriedStaysInTime DEF StaleInv
<1>3. StaleInv => StaleBounded
  <2> SUFFICES ASSUME StaleInv, NEW s \in Stores, NEW k \in Keys,
                      L1Hit(l1[s], k, now), EndOf(k, l1[s].data[k].value) # Never
               PROVE  now <= EndOf(k, l1[s].data[k].value) + L1TTL + MaxCall
    BY DEF StaleBounded
  <2> DEFINE e == l1[s].data[k]
             end == EndOf(k, e.value)
  <2>1. e # NoEntry /\ ~Expired(e, now)
    BY DEF L1Hit
  <2>2. e.value \in Values /\ e.exp \in Nat /\ now \in Nat
    BY <2>1 DEF StaleInv, TypeOK, Entries
  <2>3. end \in Nat /\ e.exp <= end + L1TTL + MaxCall
    BY <2>1, <2>2, EndOfType DEF StaleInv, EntriesBounded, EntryBounded, Instants
  <2>4. now <= e.exp
    BY <2>1, <2>2 DEF Expired
  <2> HIDE DEF e, end
  <2>5. now <= end + L1TTL + MaxCall
    BY <2>2, <2>3, <2>4
  <2> QED
    BY <2>5 DEF e, end
<1> QED
  BY <1>1, <1>2, <1>3, TypeCorrect, PTL DEF Spec

-----------------------------------------------------------------------------
(* A client that has the store to itself.                                  *)
OneClient == \A c, d \in Clients : c = d

(* What is read back is what was written, unless cleanup took the row: the *)
(* cache may then have the last value until its own expiry.                *)
Agrees ==
  Quiet => \A s \in Stores, k \in Keys :
    L1Hit(l1[s], k, now) => Says(row[k], l1[s].data[k].value) \/ row[k] = NoRow

Current(k, v) == Says(row[k], v) \/ (row[k] = NoRow /\ Ttls # {})

Lasting == \A k \in Keys : row[k] # NoRow => row[k].exp = Never \/ Ttls # {}

CarriedCurrent ==
  \A c \in Clients : call[c].pc \in {"ttl", "fill"} => Current(call[c].key, call[c].value)

Invalidating(k) == \E c \in Clients : call[c].pc = "invalidate" /\ call[c].key = k

(* An entry that the row no longer says is about to be invalidated, in the *)
(* cache that has it.                                                      *)
EntryCurrent(s, k) ==
  l1[s].data[k] # NoEntry =>
    /\ \E c \in Clients : StoreOf[c] = s
    /\ Current(k, l1[s].data[k].value) \/ Invalidating(k)

AgreeInv ==
  /\ Lasting /\ CarriedCurrent
  /\ \A s \in Stores, k \in Keys : EntryCurrent(s, k)

(* A write: the caches wait for its invalidation, and nothing is carried.  *)
LEMMA WriteAgrees ==
  ASSUME OneClient, TypeOK, AgreeInv, NEW c \in Clients, NEW k \in Keys, NEW r,
         row' = [row EXCEPT ![k] = r], r # NoRow => r.exp = Never \/ Ttls # {},
         Goto(c, [pc |-> "invalidate", key |-> k]), l1' = l1, call[c].pc = "idle"
  PROVE  AgreeInv'
<1>1. call'[c] = [pc |-> "invalidate", key |-> k] /\ \A d \in Clients : d = c
  BY DEF OneClient, Goto, TypeOK
<1>2. row'[k] = r /\ \A j \in Keys \ {k} : row'[j] = row[j]
  BY DEF TypeOK
<1>3. Lasting'
  BY <1>2 DEF AgreeInv, Lasting
<1>4. CarriedCurrent'
  BY <1>1 DEF CarriedCurrent
<1>5. ASSUME NEW s \in Stores, NEW j \in Keys PROVE EntryCurrent(s, j)'
  <2>1. CASE j = k
    BY <1>1, <2>1 DEF AgreeInv, EntryCurrent, Invalidating
  <2>2. CASE j # k
    <3>1. ~Invalidating(j)
      BY <1>1 DEF Invalidating
    <3> QED
      BY <1>2, <2>2, <3>1 DEF AgreeInv, EntryCurrent, Current, Says
  <2> QED
    BY <2>1, <2>2
<1> QED
  BY <1>3, <1>4, <1>5 DEF AgreeInv

(* A read, a fill or an invalidation: the table stays.                     *)
LEMMA ReadAgrees ==
  ASSUME OneClient, TypeOK, AgreeInv, [Next]_vars, NEW c \in Clients,
         \/ \E k \in Keys, reader \in Readers : Lookup(c, k, reader)
         \/ Query(c) \/ QueryTTL(c) \/ Fill(c) \/ Invalidate(c)
  PROVE  AgreeInv'
<1>0. row' = row /\ \A d \in Clients : d = c
  BY DEF OneClient, Lookup, Query, QueryTTL, Fill, Invalidate
<1>1. \A k, v : Current(k, v)' <=> Current(k, v)
  BY <1>0 DEF Current, Says
<1>2. Lasting'
  BY <1>0 DEF AgreeInv, Lasting
<1>3. CarriedCurrent'
  <2>1. ASSUME NEW k \in Keys, NEW reader \in Readers, Lookup(c, k, reader)
        PROVE  call'[c].pc \notin {"ttl", "fill"}
    BY <2>1 DEF Lookup, Goto, TypeOK
  <2>2. CASE Query(c)
    BY <1>0, <2>2 DEF Query, Goto, TypeOK, Current, Says, Visible, CarriedCurrent, Idle
  <2>3. CASE QueryTTL(c)
    <3>1. call'[c].key = call[c].key /\ call'[c].value = call[c].value
      BY <2>3 DEF QueryTTL, Goto, TypeOK
    <3>2. Current(call[c].key, call[c].value)
      BY <2>3 DEF QueryTTL, AgreeInv, CarriedCurrent
    <3> QED
      BY <1>0, <1>1, <3>1, <3>2 DEF CarriedCurrent
  <2>4. CASE Fill(c) \/ Invalidate(c)
    BY <1>0, <2>4 DEF Fill, Invalidate, Goto, TypeOK, CarriedCurrent, Idle
  <2> QED
    BY <1>0, <2>1, <2>2, <2>3, <2>4 DEF CarriedCurrent
<1>4. ASSUME NEW s \in Stores, NEW k \in Keys, l1'[s].data[k] # NoEntry
      PROVE  /\ \E d \in Clients : StoreOf[d] = s
             /\ Current(k, l1'[s].data[k].value) \/ Invalidating(k)'
  <2>1. CASE l1'[s].data[k] = l1[s].data[k]
    <3>1. /\ \E d \in Clients : StoreOf[d] = s
          /\ Current(k, l1[s].data[k].value) \/ Invalidating(k)
      BY <1>4, <2>1 DEF AgreeInv, EntryCurrent
    <3>2. CASE Current(k, l1[s].data[k].value)
      BY <2>1, <3>1, <3>2
    <3>3. CASE Invalidating(k)
      <4>1. call[c].pc = "invalidate" /\ call[c].key = k
        BY <1>0, <3>3 DEF Invalidating
      <4>2. Invalidate(c)
        BY <4>1 DEF Lookup, Query, QueryTTL, Fill
      <4>3. s = StoreOf[c]
        BY <1>0, <3>1
      <4>4. l1'[s] = L1Invalidate(l1[s], k)
        BY <4>1, <4>2, <4>3 DEF Invalidate, TypeOK
      <4>5. l1'[s].data[k] = NoEntry
        BY <4>4 DEF L1Invalidate, RemoveElement, TypeOK
      <4> QED
        BY <1>4, <4>5
    <3> QED
      BY <3>1, <3>2, <3>3
  <2>2. CASE l1'[s].data[k] # l1[s].data[k]
    <3>1. PICK d \in Clients :
            /\ Fill(d) /\ call[d].key = k
            /\ l1'[s].data[k] = [value |-> call[d].value, exp |-> now + call[d].ttl]
      BY <1>4, <2>2, EntriesFrom
    <3>2. Current(k, l1'[s].data[k].value)
      BY <3>1 DEF Fill, AgreeInv, CarriedCurrent
    <3>3. StoreOf[d] = s
      BY <2>2, <3>1 DEF Fill, TypeOK
    <3> QED
      BY <3>2, <3>3
  <2> QED
    BY <2>1, <2>2
<1>5. \A s \in Stores, k \in Keys : EntryCurrent(s, k)'
  BY <1>1, <1>4 DEF EntryCurrent
<1> QED
  BY <1>2, <1>3, <1>5 DEF AgreeInv

LEMMA AgreeStep ==
  ASSUME OneClient, TypeOK, AgreeInv, [Next]_vars
  PROVE  AgreeInv'
<1>1. ASSUME NEW c \in Clients, NEW k \in Keys,
             Set(c, k) \/ SetEx(c, k) \/ Upsert(c, k) \/ HDel(c, k)
      PROVE  AgreeInv'
  <2>1. CASE \E v \in Fresh : \E exp : Write(c, k, v, exp) /\ (exp = Never \/ Ttls # {})
    <3>0. PICK v \in Fresh : \E exp : Write(c, k, v, exp) /\ (exp = Never \/ Ttls # {})
      BY <2>1
    <3>1. PICK exp : Write(c, k, v, exp) /\ (exp = Never \/ Ttls # {})
      BY <3>0
    <3> DEFINE r == [value |-> v, exp |-> exp]
    <3>2. r.exp = Never \/ Ttls # {}
      BY <3>1
    <3>3. row' = [row EXCEPT ![k] = r] /\ Goto(c, [pc |-> "invalidate", key |-> k]) /\ l1' = l1
      BY <3>1 DEF Write
    <3>4. call[c].pc = "idle"
      BY <1>1 DEF Set, SetEx, Upsert, HDel
    <3> HIDE DEF r
    <3> QED
      BY <3>2, <3>3, <3>4, WriteAgrees
  <2>2. CASE HDel(c, k) /\ row[k] = NoRow
    <3>1. row' = [row EXCEPT ![k] = NoRow] /\ Goto(c, [pc |-> "invalidate", key |-> k])
          /\ l1' = l1 /\ call[c].pc = "idle"
      BY <2>2 DEF HDel, TypeOK
    <3> QED
      BY <3>1, WriteAgrees
  <2> QED
    BY <1>1, <2>1, <2>2 DEF Set, SetEx, Upsert, HDel, AgreeInv, Lasting
<1>2. ASSUME NEW c \in Clients, NEW k \in Keys, Delete(c, k) PROVE AgreeInv'
  BY <1>2, WriteAgrees DEF Delete
<1>3. ASSUME NEW c \in Clients, NEW k \in Keys, Expire(c, k) PROVE AgreeInv'
  <2>1. PICK ttl \in Ttls : row' = [row EXCEPT ![k] = [value |-> row[k].value, exp |-> now + ttl]]
    BY <1>3 DEF Expire
  <2>2. Ttls # {}
    BY <2>1
  <2> QED
    BY <1>3, <2>1, <2>2, WriteAgrees DEF Expire
<1>4. CASE CleanupExpired
  <2>1. /\ \A k \in Keys : \/ row'[k] = row[k]
                           \/ row'[k] = NoRow /\ row[k] # NoRow /\ row[k].exp # Never
        /\ UNCHANGED <<l1, call>>
    BY <1>4 DEF CleanupExpired
  <2>2. ASSUME NEW k \in Keys, NEW v, Current(k, v) PROVE Current(k, v)'
    BY <2>1, <2>2 DEF Current, Says, AgreeInv, Lasting
  <2>3. \A c \in Clients : call[c].pc \in {"ttl", "fill"} => call[c].key \in Keys
    BY Carried
  <2>4. Lasting'
    BY <2>1 DEF AgreeInv, Lasting
  <2>5. CarriedCurrent'
    BY <2>1, <2>2, <2>3 DEF AgreeInv, CarriedCurrent
  <2>6. \A s \in Stores, k \in Keys : EntryCurrent(s, k)'
    BY <2>1, <2>2 DEF AgreeInv, EntryCurrent, Invalidating
  <2> QED
    BY <2>4, <2>5, <2>6 DEF AgreeInv
<1>5. CASE UNCHANGED <<row, l1, call>>
  BY <1>5 DEF AgreeInv, Lasting, CarriedCurrent, EntryCurrent, Current, Says, Invalidating
<1>6. ASSUME NEW c \in Clients, Operation(c) PROVE AgreeInv'
  BY <1>1, <1>2, <1>3, <1>6, ReadAgrees DEF Operation
<1> QED
  BY <1>4, <1>5, <1>6 DEF Next, Tick, vars

LEMMA AgreeInvariant == ASSUME OneClient PROVE Spec => []AgreeInv
<1>1. Init => AgreeInv
  BY DEF Init, AgreeInv, Lasting, CarriedCurrent, EntryCurrent, EmptyCache, Idle
<1>2. TypeOK /\ AgreeInv /\ [Next]_vars => AgreeInv'
  BY AgreeStep
<1> QED
  BY <1>1, <1>2, TypeCorrect, PTL DEF Spec

(* Who is alone with the store reads what they wrote: between calls the    *)
(* cache has what the table says, for any keys, expiries and sizes.        *)
THEOREM AloneAgrees == ASSUME OneClient PROVE Spec => []Agrees
<1>1. AgreeInv => Agrees
  BY DEF AgreeInv, EntryCurrent, Current, Invalidating, Agrees, Quiet, Idle, L1Hit
<1> QED
  BY <1>1, AgreeInvariant, PTL

-----------------------------------------------------------------------------
(* Lists without repetitions: what unlinking and pushing a key do to them. *)
(* list.Remove(elem) finds the one element that holds the key. *)
LEMMA PositionOf ==
  ASSUME NEW S, NEW s \in Seq(S), IsInjective(s), NEW i \in 1..Len(s)
  PROVE  RemoveFirst(s, s[i]) = SubSeq(s, 1, i - 1) \o SubSeq(s, i + 1, Len(s))
<1> DEFINE I == {h \in 1..Len(s) : s[h] = s[i]}
<1>1. I = {i}
  BY DEF IsInjective
<1>2. Min({i}) = i
  BY DEF Min
<1>3. SelectInSeq(s, LAMBDA v : v = s[i]) = i
  BY <1>1, <1>2 DEF SelectInSeq
<1> QED
  BY <1>3 DEF RemoveFirst, RemoveAt

LEMMA RemovedFacts ==
  ASSUME NEW S, NEW s \in Seq(S), IsInjective(s), NEW i \in 1..Len(s)
  PROVE  LET r == RemoveFirst(s, s[i]) IN
           /\ r \in Seq(S) /\ Len(r) = Len(s) - 1
           /\ \A h \in 1..Len(r) : r[h] = IF h < i THEN s[h] ELSE s[h + 1]
<1> DEFINE p == SubSeq(s, 1, i - 1)
           q == SubSeq(s, i + 1, Len(s))
<1>1. Len(s) \in Nat /\ \A h \in 1..Len(s) : s[h] \in S
  BY LenProperties, ElementOfSeq
<1>2. /\ p \in Seq(S) /\ Len(p) = i - 1
      /\ \A h \in 1..(i - 1) : p[h] = s[h]
  BY <1>1, SubSeqProperties
<1>3. /\ q \in Seq(S) /\ Len(q) = Len(s) - i
      /\ \A h \in 1..(Len(s) - i) : q[h] = s[i + h]
  BY <1>1, SubSeqProperties
<1> HIDE DEF p, q
<1>4. /\ p \o q \in Seq(S) /\ Len(p \o q) = Len(s) - 1
      /\ \A h \in 1..(Len(s) - 1) : (p \o q)[h] = IF h <= i - 1 THEN p[h] ELSE q[h - (i - 1)]
  BY <1>1, <1>2, <1>3, ConcatProperties
<1>5. ASSUME NEW h \in 1..(Len(s) - 1)
      PROVE  (p \o q)[h] = IF h < i THEN s[h] ELSE s[h + 1]
  <2>1. CASE h < i
    <3>1. h <= i - 1 /\ h \in 1..(i - 1)
      BY <1>1, <2>1
    <3> QED
      BY <1>2, <1>4, <2>1, <3>1
  <2>2. CASE ~(h < i)
    <3>1. ~(h <= i - 1) /\ h - (i - 1) \in 1..(Len(s) - i) /\ i + (h - (i - 1)) = h + 1
      BY <1>1, <2>2
    <3> QED
      BY <1>3, <1>4, <2>2, <3>1
  <2> QED
    BY <2>1, <2>2
<1>6. RemoveFirst(s, s[i]) = p \o q
  BY PositionOf DEF p, q
<1> QED
  BY <1>4, <1>5, <1>6

(* Taking a key out of a list without repetitions, present or not. *)
LEMMA RemovedList ==
  ASSUME NEW S, NEW s \in Seq(S), IsInjective(s), NEW e
  PROVE  LET r == RemoveFirst(s, e) IN
           /\ r \in Seq(S) /\ IsInjective(r)
           /\ ToSet(r) = ToSet(s) \ {e}
           /\ Len(r) <= Len(s)
           /\ e \in ToSet(s) => Len(r) = Len(s) - 1
<1> DEFINE r == RemoveFirst(s, e)
<1>1. Len(s) \in Nat /\ DOMAIN s = 1..Len(s)
  BY LenProperties
<1>2. ToSet(s) = {s[h] : h \in 1..Len(s)}
  BY <1>1 DEF ToSet
<1>3. CASE e \notin ToSet(s)
  <2>1. r = s
    BY <1>2, <1>3 DEF RemoveFirst
  <2>2. ToSet(s) \ {e} = ToSet(s)
    BY <1>3
  <2> HIDE DEF r
  <2>3. r \in Seq(S) /\ IsInjective(r) /\ ToSet(r) = ToSet(s) \ {e} /\ Len(r) <= Len(s)
    BY <1>1, <2>1, <2>2
  <2> QED
    BY <1>3, <2>3 DEF r
<1>4. CASE e \in ToSet(s)
  <2>1. PICK i \in 1..Len(s) : s[i] = e
    BY <1>2, <1>4
  <2>2. /\ r \in Seq(S) /\ Len(r) = Len(s) - 1
        /\ \A h \in 1..Len(r) : r[h] = IF h < i THEN s[h] ELSE s[h + 1]
    BY <2>1, RemovedFacts
  <2>3. DOMAIN r = 1..Len(r)
    BY <2>2, LenProperties
  <2> HIDE DEF r
  <2>4. \A g, h \in 1..Len(s) : s[g] = s[h] => g = h
    BY <1>1 DEF IsInjective
  <2>5. ASSUME NEW g \in 1..Len(r), NEW h \in 1..Len(r), r[g] = r[h] PROVE g = h
    <3>1. g \in 1..Len(s) /\ g + 1 \in 1..Len(s) /\ h \in 1..Len(s) /\ h + 1 \in 1..Len(s)
      BY <1>1, <2>2
    <3>2. r[g] = (IF g < i THEN s[g] ELSE s[g + 1]) /\ r[h] = (IF h < i THEN s[h] ELSE s[h + 1])
      BY <2>2
    <3>3. (IF g < i THEN g ELSE g + 1) = (IF h < i THEN h ELSE h + 1)
      BY <2>4, <2>5, <3>1, <3>2
    <3> QED
      BY <3>1, <3>3
  <2>6. IsInjective(r)
    BY <2>3, <2>5 DEF IsInjective
  <2>7. ASSUME NEW h \in 1..Len(r) PROVE r[h] \in ToSet(s) /\ r[h] # e
    <3>1. h \in 1..Len(s) /\ h + 1 \in 1..Len(s)
      BY <1>1, <2>2
    <3>2. r[h] = IF h < i THEN s[h] ELSE s[h + 1]
      BY <2>2
    <3> QED
      BY <1>2, <2>1, <2>4, <3>1, <3>2
  <2>8. ASSUME NEW h \in 1..Len(s), s[h] # e PROVE \E g \in 1..Len(r) : r[g] = s[h]
    <3>1. CASE h < i
      <4>1. h \in 1..Len(r)
        BY <1>1, <2>2, <3>1
      <4> QED
        BY <2>2, <3>1, <4>1
    <3>2. CASE h > i
      <4>1. h - 1 \in 1..Len(r) /\ ~(h - 1 < i) /\ (h - 1) + 1 = h
        BY <1>1, <2>2, <3>2
      <4> QED
        BY <2>2, <4>1
    <3> QED
      BY <1>1, <2>1, <2>8, <3>1, <3>2
  <2>9. ToSet(r) = {r[g] : g \in 1..Len(r)}
    BY <2>3 DEF ToSet
  <2>10. ToSet(r) = ToSet(s) \ {e}
    <3>1. ToSet(r) \subseteq ToSet(s) \ {e}
      BY <2>7, <2>9
    <3>2. ASSUME NEW t \in ToSet(s), t # e PROVE t \in ToSet(r)
      <4>1. PICK h \in 1..Len(s) : s[h] = t
        BY <1>2
      <4> QED
        BY <2>8, <2>9, <3>2, <4>1
    <3> QED
      BY <3>1, <3>2
  <2> QED
    BY <1>1, <2>2, <2>6, <2>10 DEF r
<1> QED
  BY <1>3, <1>4

LEMMA PushedList ==
  ASSUME NEW S, NEW s \in Seq(S), IsInjective(s), NEW e \in S, e \notin ToSet(s)
  PROVE  LET r == <<e>> \o s IN
           /\ r \in Seq(S) /\ IsInjective(r)
           /\ ToSet(r) = ToSet(s) \cup {e}
           /\ Len(r) = Len(s) + 1
<1> DEFINE r == <<e>> \o s
<1>1. Len(s) \in Nat /\ DOMAIN s = 1..Len(s)
  BY LenProperties
<1>2. <<e>> \in Seq(S) /\ Len(<<e>>) = 1 /\ <<e>>[1] = e
  OBVIOUS
<1>3. /\ r \in Seq(S) /\ Len(r) = 1 + Len(s)
      /\ \A h \in 1..(1 + Len(s)) : r[h] = IF h <= 1 THEN <<e>>[h] ELSE s[h - 1]
  BY <1>2, ConcatProperties
<1>4. DOMAIN r = 1..Len(r)
  BY <1>3, LenProperties
<1> HIDE DEF r
<1>5. r[1] = e /\ \A h \in 1..Len(s) : r[h + 1] = s[h]
  <2>1. 1 \in 1..(1 + Len(s)) /\ \A h \in 1..Len(s) :
          h + 1 \in 1..(1 + Len(s)) /\ ~(h + 1 <= 1) /\ (h + 1) - 1 = h
    BY <1>1
  <2> QED
    BY <1>2, <1>3, <2>1
<1>6. ASSUME NEW h \in 1..Len(r) PROVE h = 1 \/ (h - 1 \in 1..Len(s) /\ r[h] = s[h - 1])
  <2>1. h = 1 \/ (h - 1 \in 1..Len(s) /\ (h - 1) + 1 = h)
    BY <1>1, <1>3
  <2> QED
    BY <1>5, <2>1
<1>7. ToSet(s) = {s[h] : h \in 1..Len(s)}
  BY <1>1 DEF ToSet
<1>8. IsInjective(r)
  <2> SUFFICES ASSUME NEW g \in 1..Len(r), NEW h \in 1..Len(r), r[g] = r[h] PROVE g = h
    BY <1>4 DEF IsInjective
  <2>1. \A x, y \in 1..Len(s) : s[x] = s[y] => x = y
    BY <1>1 DEF IsInjective
  <2>2. g = 1 <=> h = 1
    BY <1>5, <1>6, <1>7
  <2>3. CASE g # 1 /\ h # 1
    <3>1. g - 1 = h - 1
      BY <1>6, <2>1, <2>3
    <3> QED
      BY <3>1
  <2> QED
    BY <2>2, <2>3
<1>9. ToSet(r) = {r[h] : h \in 1..Len(r)}
  BY <1>4 DEF ToSet
<1>10. ToSet(r) = ToSet(s) \cup {e}
  <2>1. 1 \in 1..Len(r) /\ \A h \in 1..Len(s) : h + 1 \in 1..Len(r)
    BY <1>1, <1>3
  <2>2. ToSet(r) \subseteq ToSet(s) \cup {e}
    BY <1>5, <1>6, <1>7, <1>9
  <2>3. ToSet(s) \cup {e} \subseteq ToSet(r)
    BY <1>5, <1>7, <1>9, <2>1
  <2> QED
    BY <2>2, <2>3
<1> QED
  BY <1>1, <1>3, <1>8, <1>10 DEF r

(* A list without repetitions is as long as the set of its elements. *)
LEMMA InjectiveLen ==
  ASSUME NEW S, NEW s \in Seq(S), IsInjective(s)
  PROVE  IsFiniteSet(ToSet(s)) /\ Cardinality(ToSet(s)) = Len(s)
<1>1. Len(s) \in Nat /\ s \in [1..Len(s) -> S] /\ DOMAIN s = 1..Len(s)
  BY LenProperties
<1>2. s \in [1..Len(s) -> ToSet(s)] /\ \A t \in ToSet(s) : \E i \in 1..Len(s) : s[i] = t
  BY <1>1 DEF ToSet
<1>3. ExistsBijection(1..Len(s), ToSet(s))
  BY <1>2 DEF ExistsBijection, Bijection, Injection, Surjection
<1>4. IsFiniteSet(1..Len(s)) /\ Cardinality(1..Len(s)) = Len(s)
  <2>1. IsFiniteSet(1..Len(s)) /\ Cardinality(1..Len(s)) = IF 1 > Len(s) THEN 0 ELSE Len(s) - 1 + 1
    BY <1>1, FS_Interval
  <2> QED
    BY <1>1, <2>1
<1> QED
  BY <1>1, <1>3, <1>4, FS_Bijection

-----------------------------------------------------------------------------
(* One cache: its list has the keys of its map, each once, and room.  The  *)
(* bound needs the first part, because Set counts the map and evicts from  *)
(* the list.                                                               *)
Listed(c) ==
  /\ c.data \in [Keys -> Entries]
  /\ c.lru \in Seq(Keys) /\ IsInjective(c.lru)
  /\ ToSet(c.lru) = Cached(c)

Fits(n) == MaxSize > 0 => n <= MaxSize

LEMMA LenNat == ASSUME NEW c, Listed(c) PROVE Len(c.lru) \in Nat
BY LenProperties DEF Listed

LEMMA RemoveListed ==
  ASSUME NEW c, NEW k \in Keys, Listed(c)
  PROVE  LET r == RemoveElement(c, k) IN
           /\ Listed(r) /\ Cached(r) = Cached(c) \ {k}
           /\ Len(r.lru) <= Len(c.lru)
           /\ k \in Cached(c) => Len(r.lru) = Len(c.lru) - 1
<1> DEFINE r == RemoveElement(c, k)
<1>1. r.data = [c.data EXCEPT ![k] = NoEntry] /\ r.lru = RemoveFirst(c.lru, k)
  BY DEF RemoveElement
<1>2. /\ r.lru \in Seq(Keys) /\ IsInjective(r.lru)
      /\ ToSet(r.lru) = Cached(c) \ {k}
      /\ Len(r.lru) <= Len(c.lru)
      /\ k \in Cached(c) => Len(r.lru) = Len(c.lru) - 1
  <2> DEFINE s == c.lru
             u == RemoveFirst(s, k)
  <2>1. s \in Seq(Keys) /\ IsInjective(s) /\ ToSet(s) = Cached(c)
    BY DEF Listed
  <2> HIDE DEF s
  <2>2. /\ u \in Seq(Keys) /\ IsInjective(u) /\ ToSet(u) = ToSet(s) \ {k}
        /\ Len(u) <= Len(s)
        /\ k \in ToSet(s) => Len(u) = Len(s) - 1
    BY <2>1, RemovedList
  <2> QED
    BY <1>1, <2>1, <2>2 DEF s
<1>3. r.data \in [Keys -> Entries] /\ Cached(r) = Cached(c) \ {k}
  BY <1>1 DEF Listed, Cached, Entries
<1> QED
  BY <1>2, <1>3 DEF Listed

LEMMA MoveListed ==
  ASSUME NEW c, NEW k \in Cached(c), Listed(c)
  PROVE  Listed(MoveToFront(c, k)) /\ Len(MoveToFront(c, k).lru) = Len(c.lru)
<1> DEFINE u == RemoveFirst(c.lru, k)
<1>1. k \in Keys
  BY DEF Cached
<1>2. /\ u \in Seq(Keys) /\ IsInjective(u)
      /\ ToSet(u) = Cached(c) \ {k} /\ Len(u) = Len(c.lru) - 1
  <2> DEFINE s == c.lru
  <2>1. s \in Seq(Keys) /\ IsInjective(s) /\ ToSet(s) = Cached(c)
    BY DEF Listed
  <2> HIDE DEF s
  <2>2. /\ RemoveFirst(s, k) \in Seq(Keys) /\ IsInjective(RemoveFirst(s, k))
        /\ ToSet(RemoveFirst(s, k)) = ToSet(s) \ {k}
        /\ k \in ToSet(s) => Len(RemoveFirst(s, k)) = Len(s) - 1
    BY <2>1, RemovedList
  <2> QED
    BY <2>1, <2>2 DEF s
<1>3. /\ <<k>> \o u \in Seq(Keys) /\ IsInjective(<<k>> \o u)
      /\ ToSet(<<k>> \o u) = Cached(c) /\ Len(<<k>> \o u) = Len(c.lru)
  <2> HIDE DEF u
  <2>1. k \notin ToSet(u) /\ ToSet(u) \cup {k} = Cached(c)
    BY <1>2
  <2>2. Len(c.lru) \in Nat
    BY LenNat
  <2>3. /\ <<k>> \o u \in Seq(Keys) /\ IsInjective(<<k>> \o u)
        /\ ToSet(<<k>> \o u) = ToSet(u) \cup {k} /\ Len(<<k>> \o u) = Len(u) + 1
    BY <1>1, <1>2, <2>1, PushedList
  <2>4. Len(u) + 1 = Len(c.lru)
    BY <1>2, <2>2
  <2> QED
    BY <2>1, <2>3, <2>4
<1>4. MoveToFront(c, k).data = c.data /\ MoveToFront(c, k).lru = <<k>> \o u
  BY DEF MoveToFront
<1> HIDE DEF u
<1> QED
  BY <1>3, <1>4 DEF Listed, Cached

LEMMA GetListed ==
  ASSUME NEW c, NEW k \in Keys, NEW t, Listed(c), Fits(Len(c.lru))
  PROVE  Listed(L1Get(c, k, t)) /\ Fits(Len(L1Get(c, k, t).lru))
<1>0. /\ Len(c.lru) \in Nat
      /\ \A d : Listed(d) => Len(d.lru) \in Nat
  BY LenNat
<1>1. CASE c.data[k] = NoEntry
  BY <1>1 DEF L1Get
<1>2. CASE c.data[k] # NoEntry /\ Expired(c.data[k], t)
  <2>1. L1Get(c, k, t) = RemoveElement(c, k)
    BY <1>2 DEF L1Get
  <2> QED
    BY <1>0, <2>1, RemoveListed, KVStoreAssumption DEF Fits
<1>3. CASE c.data[k] # NoEntry /\ ~Expired(c.data[k], t)
  <2>1. L1Get(c, k, t) = MoveToFront(c, k) /\ k \in Cached(c)
    BY <1>3 DEF L1Get, Cached
  <2> QED
    BY <2>1, MoveListed
<1> QED
  BY <1>1, <1>2, <1>3

LEMMA InvalidateListed ==
  ASSUME NEW c, NEW k \in Keys, Listed(c), Fits(Len(c.lru))
  PROVE  Listed(L1Invalidate(c, k)) /\ Fits(Len(L1Invalidate(c, k).lru))
<1>0. \A d : Listed(d) => Len(d.lru) \in Nat
  BY LenNat
<1>1. CASE c.data[k] = NoEntry
  BY <1>1 DEF L1Invalidate
<1>2. CASE c.data[k] # NoEntry
  <2>1. L1Invalidate(c, k) = RemoveElement(c, k)
    BY <1>2 DEF L1Invalidate
  <2> QED
    BY <1>0, <2>1, RemoveListed, KVStoreAssumption DEF Fits
<1> QED
  BY <1>1, <1>2

(* Set makes room before it adds: what is left of the list is a list of    *)
(* the map, and with one more key it is within maxSize.                    *)
LEMMA RoomListed ==
  ASSUME NEW c, NEW k \in Keys, Listed(c), Fits(Len(c.lru)), c.data[k] = NoEntry
  PROVE  LET room == IF Full(c) THEN EvictOldest(c) ELSE c IN
           Listed(room) /\ k \notin Cached(room) /\ Fits(Len(room.lru) + 1)
<1> DEFINE room == IF Full(c) THEN EvictOldest(c) ELSE c
<1>0. MaxSize \in Nat /\ Len(c.lru) \in Nat /\ Cardinality(Cached(c)) = Len(c.lru)
  BY LenNat, InjectiveLen, KVStoreAssumption DEF Listed
<1>1. k \notin Cached(c)
  BY DEF Cached
<1>2. CASE ~Full(c)
  BY <1>0, <1>1, <1>2 DEF Full, Fits
<1>3. CASE Full(c)
  <2>1. Len(c.lru) >= MaxSize /\ MaxSize > 0
    BY <1>0, <1>3 DEF Full
  <2>2. c.lru # <<>>
    <3>1. Len(<<>>) = 0
      OBVIOUS
    <3> QED
      BY <1>0, <2>1, <3>1
  <2>3. Last(c.lru) \in Cached(c)
    <3>1. Len(c.lru) \in DOMAIN c.lru
      BY <1>0, <2>1, LenProperties DEF Listed
    <3> QED
      BY <3>1 DEF Last, ToSet, Listed
  <2>4. room = RemoveElement(c, Last(c.lru)) /\ Last(c.lru) \in Keys
    BY <1>3, <2>2, <2>3 DEF EvictOldest, Cached
  <2>5. /\ Listed(room) /\ Cached(room) = Cached(c) \ {Last(c.lru)}
        /\ Len(room.lru) = Len(c.lru) - 1
    BY <2>3, <2>4, RemoveListed
  <2> HIDE DEF room
  <2>6. Listed(room) /\ k \notin Cached(room) /\ Fits(Len(room.lru) + 1)
    BY <1>0, <1>1, <2>5 DEF Fits
  <2> QED
    BY <2>6 DEF room
<1> QED
  BY <1>2, <1>3

LEMMA SetListed ==
  ASSUME NEW c, NEW k \in Keys, NEW v \in Values, NEW exp \in Nat,
         Listed(c), Fits(Len(c.lru))
  PROVE  Listed(L1Set(c, k, v, exp)) /\ Fits(Len(L1Set(c, k, v, exp).lru))
<1> DEFINE room == IF c.data[k] = NoEntry /\ Full(c) THEN EvictOldest(c) ELSE c
           u == RemoveFirst(room.lru, k)
           r == L1Set(c, k, v, exp)
           e == [value |-> v, exp |-> exp]
<1>1. /\ Listed(room)
      /\ k \notin Cached(room) => Fits(Len(room.lru) + 1)
      /\ k \in Cached(room) => Fits(Len(room.lru))
  <2>1. CASE c.data[k] = NoEntry
    BY <2>1, RoomListed
  <2>2. CASE c.data[k] # NoEntry
    BY <2>2 DEF Cached
  <2> QED
    BY <2>1, <2>2
<1>2. r.data = [room.data EXCEPT ![k] = e] /\ r.lru = <<k>> \o u
  BY DEF L1Set
<1>3. e \in Entries /\ e # NoEntry
  BY KVStoreAssumption DEF Entries
<1> HIDE DEF room, r, e
<1>4. /\ u \in Seq(Keys) /\ IsInjective(u) /\ ToSet(u) = Cached(room) \ {k}
      /\ Len(u) <= Len(room.lru)
      /\ k \in Cached(room) => Len(u) = Len(room.lru) - 1
  <2> DEFINE s == room.lru
  <2>1. s \in Seq(Keys) /\ IsInjective(s) /\ ToSet(s) = Cached(room)
    BY <1>1 DEF Listed
  <2> HIDE DEF s
  <2>2. /\ RemoveFirst(s, k) \in Seq(Keys) /\ IsInjective(RemoveFirst(s, k))
        /\ ToSet(RemoveFirst(s, k)) = ToSet(s) \ {k}
        /\ Len(RemoveFirst(s, k)) <= Len(s)
        /\ k \in ToSet(s) => Len(RemoveFirst(s, k)) = Len(s) - 1
    BY <2>1, RemovedList
  <2> QED
    BY <2>1, <2>2 DEF s
<1> HIDE DEF u
<1>5. k \notin ToSet(u) /\ ToSet(u) \cup {k} = Cached(room) \cup {k}
  BY <1>4
<1>6. /\ r.lru \in Seq(Keys) /\ IsInjective(r.lru)
      /\ ToSet(r.lru) = Cached(room) \cup {k} /\ Len(r.lru) = Len(u) + 1
  BY <1>2, <1>4, <1>5, PushedList
<1>7. r.data \in [Keys -> Entries] /\ Cached(r) = Cached(room) \cup {k}
  BY <1>1, <1>2, <1>3 DEF Listed, Cached
<1>8. Listed(r)
  BY <1>6, <1>7 DEF Listed
<1>9. Fits(Len(r.lru))
  <2>1. Len(u) \in Nat /\ Len(room.lru) \in Nat /\ MaxSize \in Nat
    BY <1>1, <1>4, LenNat, LenProperties, KVStoreAssumption
  <2> QED
    BY <1>1, <1>4, <1>6, <2>1 DEF Fits
<1> QED
  BY <1>8, <1>9 DEF r

ListsInv == TypeOK /\ \A s \in Stores : Listed(l1[s]) /\ Fits(Len(l1[s].lru))

LEMMA ListsStep ==
  ASSUME ListsInv, [Next]_vars, NEW s \in Stores
  PROVE  Listed(l1'[s]) /\ Fits(Len(l1'[s].lru))
<1>0. /\ TypeOK /\ DOMAIN l1 = Stores
      /\ Listed(l1[s]) /\ Fits(Len(l1[s].lru))
  BY DEF ListsInv, TypeOK
<1>1. CASE l1'[s] = l1[s]
  BY <1>0, <1>1
<1>2. ASSUME NEW c \in Clients, NEW k \in Keys, NEW reader \in Readers, Lookup(c, k, reader)
      PROVE  Listed(l1'[s]) /\ Fits(Len(l1'[s].lru))
  <2>1. l1'[s] \in {l1[s], L1Get(l1[s], k, now)}
    BY <1>0, <1>2 DEF Lookup
  <2> QED
    BY <1>0, <2>1, GetListed
<1>3. ASSUME NEW c \in Clients, Invalidate(c)
      PROVE  Listed(l1'[s]) /\ Fits(Len(l1'[s].lru))
  <2>1. call[c].key \in Keys
    BY <1>0, <1>3 DEF Invalidate, TypeOK, Calls, Idle
  <2>2. l1'[s] \in {l1[s], L1Invalidate(l1[s], call[c].key)}
    BY <1>0, <1>3 DEF Invalidate
  <2> QED
    BY <1>0, <2>1, <2>2, InvalidateListed
<1>4. ASSUME NEW c \in Clients, Fill(c)
      PROVE  Listed(l1'[s]) /\ Fits(Len(l1'[s].lru))
  <2> DEFINE k == call[c].key
             v == call[c].value
             exp == now + call[c].ttl
  <2>1. k \in Keys /\ v \in Values /\ exp \in Nat
    BY <1>0, <1>4, Carried DEF Fill, TypeOK
  <2>2. l1'[s] = l1[s] \/ l1'[s] = L1Set(l1[s], k, v, exp)
    BY <1>0, <1>4 DEF Fill
  <2> HIDE DEF k, v, exp
  <2> QED
    BY <1>0, <2>1, <2>2, SetListed
<1> QED
  BY <1>1, <1>2, <1>3, <1>4, CacheSteps

(* The map and the list of every cache stay one structure, and within      *)
(* maxSize, however lookups, fills and invalidations interleave.           *)
THEOREM ListsMatch == Spec => []ListMatchesMap
<1>1. Init => ListsInv
  <2> SUFFICES ASSUME Init, NEW s \in Stores PROVE TypeOK /\ Listed(l1[s]) /\ Fits(Len(l1[s].lru))
    BY KVStoreAssumption DEF ListsInv, Init, TypeOK, Rows, EmptyCache, Entries, Calls, Instants
  <2>1. l1[s].lru = <<>> /\ l1[s].data = [k \in Keys |-> NoEntry]
    BY DEF Init, EmptyCache
  <2>2. /\ <<>> \in Seq(Keys) /\ Len(<<>>) = 0 /\ DOMAIN <<>> = {}
    OBVIOUS
  <2>3. Listed(l1[s])
    BY <2>1, <2>2 DEF Listed, Cached, ToSet, IsInjective, Entries
  <2>4. Fits(Len(l1[s].lru))
    BY <2>1, <2>2, KVStoreAssumption DEF Fits
  <2>5. TypeOK
    BY KVStoreAssumption DEF Init, TypeOK, Rows, EmptyCache, Entries, Calls, Instants
  <2> QED
    BY <2>3, <2>4, <2>5
<1>2. ListsInv /\ TypeOK' /\ [Next]_vars => ListsInv'
  BY ListsStep DEF ListsInv, Listed, Cached
<1>3. ListsInv => ListMatchesMap
  BY DEF ListsInv, Listed, Fits, ListMatchesMap
<1> QED
  BY <1>1, <1>2, <1>3, TypeCorrect, PTL DEF Spec
=============================================================================
