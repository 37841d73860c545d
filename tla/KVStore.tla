------------------------------ MODULE KVStore ------------------------------
(***************************************************************************)
(* plugins/kv: the two-level store.  Every store has a cache in its        *)
(* process (L1); all share the table _kv (L2).  A read that misses L1      *)
(* queries the row, then its time to live, then fills L1; a write changes  *)
(* the row, then invalidates L1.  Between these steps nothing is locked.   *)
(*                                                                         *)
(* A value stands for one write of it: Set, IncrBy, HSet and the others    *)
(* put a value nobody refers to.  Only keys meet in a cache, so MGet and   *)
(* MSet are their parts for one key.                                       *)
(***************************************************************************)
EXTENDS L1Ops

CONSTANTS
  Stores,    \* processes with a store on the table
  Clients,   \* goroutines calling a store
  StoreOf,   \* the store a client calls
  Values,
  NoRow,     \* a key without a row
  Postgres,  \* app.IsPostgres(); SQLite if FALSE
  Readers,   \* which reads are used: "get", "bulk" (HGet, HGetAll, MGet)
  L1TTL,     \* config.L1TTL in ticks
  Ttls,      \* bound: the ttl arguments of SetEx and Expire
  MaxCall,   \* assumption: ticks from a read of the row to the filled cache
  MaxTime    \* bound: ticks

ASSUME KVStoreAssumption ==
  /\ MaxSize \in Nat
  /\ StoreOf \in [Clients -> Stores]
  /\ Postgres \in BOOLEAN
  /\ L1TTL \in Nat \ {0} /\ MaxCall \in Nat /\ MaxTime \in Nat
  /\ Ttls \subseteq Nat
  /\ Readers \subseteq {"get", "bulk"}
  /\ Never \notin Nat
  /\ NoRow \notin [value : Values, exp : Nat \cup {Never}]
  /\ NoEntry \notin [value : Values, exp : Nat]

VARIABLES
  row,    \* _kv: value and expire_at of a key
  l1,     \* the cache of each store
  call,   \* the operation each client is in
  now,
  ended   \* when a value stopped being what the table says (history)

vars == <<row, l1, call, now, ended>>

Idle == [pc |-> "idle"]

Init ==
  /\ row = [k \in Keys |-> NoRow]
  /\ l1 = [s \in Stores |-> EmptyCache]
  /\ call = [c \in Clients |-> Idle]
  /\ now = 0
  /\ ended = [k \in Keys |-> [v \in Values |-> Never]]

-----------------------------------------------------------------------------
(* expire_at IS NULL OR expire_at > NOW() *)
Visible(k) == row[k] # NoRow /\ (row[k].exp = Never \/ row[k].exp > now)

Says(r, v) == r # NoRow /\ r.value = v

(* When the table stops, or stopped, saying v for k. *)
EndOf(k, v) == IF Says(row[k], v) THEN row[k].exp ELSE ended[k][v]

(* A step of the row: a value it no longer holds ended now, or when it     *)
(* expired.                                                                *)
Changed(k) ==
  ended' = [ended EXCEPT ![k] = [v \in Values |->
              IF Says(row'[k], v) THEN Never
              ELSE IF ~Says(row[k], v) THEN ended[k][v]
              ELSE IF Visible(k) THEN now ELSE row[k].exp]]

Referenced(v) ==
  \/ \E k \in Keys : Says(row[k], v)
  \/ \E s \in Stores, k \in Keys : l1[s].data[k] # NoEntry /\ l1[s].data[k].value = v
  \/ \E c \in Clients : call[c].pc \in {"ttl", "fill"} /\ call[c].value = v

Fresh == {v \in Values : ~Referenced(v)}

Goto(c, next) == call' = [call EXCEPT ![c] = next]

-----------------------------------------------------------------------------
(* Get, HGet, HGetAll, MGet: look into L1. *)
Lookup(c, k, reader) ==
  LET s == StoreOf[c] IN
  /\ call[c].pc = "idle"
  /\ l1' = [l1 EXCEPT ![s] = L1Get(l1[s], k, now)]
  /\ IF L1Hit(l1[s], k, now)
       THEN UNCHANGED call
       ELSE Goto(c, [pc |-> "query", key |-> k, reader |-> reader])
  /\ UNCHANGED <<row, now, ended>>

(* l2.Get, l2.HGetAll, l2.MGet.  Only Get goes on to ask for the ttl. *)
Query(c) ==
  LET k == call[c].key IN
  /\ call[c].pc = "query"
  /\ IF Visible(k)
       THEN Goto(c, [pc    |-> IF call[c].reader = "get" THEN "ttl" ELSE "fill",
                     key   |-> k, value |-> row[k].value,
                     ttl   |-> L1TTL, read |-> now])
       ELSE Goto(c, Idle)
  /\ UNCHANGED <<row, l1, now, ended>>

(* l2.TTL: an expiry read from Postgres as text ("2024-01-01 12:00:00+00") *)
(* is in neither of the two formats it is parsed with, and the error       *)
(* leaves L1TTL as it is, as does a row that is gone.                      *)
Capped(k) ==
  IF Visible(k) /\ ~Postgres /\ row[k].exp # Never /\ row[k].exp - now < L1TTL
  THEN row[k].exp - now
  ELSE L1TTL

QueryTTL(c) ==
  /\ call[c].pc = "ttl"
  /\ Goto(c, [pc |-> "fill", key |-> call[c].key, value |-> call[c].value,
              ttl |-> Capped(call[c].key), read |-> call[c].read])
  /\ UNCHANGED <<row, l1, now, ended>>

Fill(c) ==
  LET s == StoreOf[c] IN
  /\ call[c].pc = "fill"
  /\ l1' = [l1 EXCEPT ![s] = L1Set(l1[s], call[c].key, call[c].value, now + call[c].ttl)]
  /\ Goto(c, Idle)
  /\ UNCHANGED <<row, now, ended>>

-----------------------------------------------------------------------------
(* The writers: one statement or transaction on the row, L1 follows. *)
Write(c, k, v, exp) ==
  /\ row' = [row EXCEPT ![k] = [value |-> v, exp |-> exp]]
  /\ Changed(k)
  /\ Goto(c, [pc |-> "invalidate", key |-> k])
  /\ UNCHANGED <<l1, now>>

Set(c, k) ==
  /\ call[c].pc = "idle"
  /\ \E v \in Fresh : Write(c, k, v, Never)

SetEx(c, k) ==
  /\ call[c].pc = "idle"
  /\ \E v \in Fresh, ttl \in Ttls : Write(c, k, v, now + ttl)

(* MSet, IncrBy, HSet, HIncrBy: insert, or change the value and leave      *)
(* expire_at, whether it has passed or not.                                *)
Upsert(c, k) ==
  /\ call[c].pc = "idle"
  /\ \E v \in Fresh : Write(c, k, v, IF row[k] = NoRow THEN Never ELSE row[k].exp)

(* HDel without a row: an error from SQLite's read, before L1 is touched;  *)
(* an UPDATE of nothing in Postgres.                                       *)
HDel(c, k) ==
  /\ call[c].pc = "idle"
  /\ \/ row[k] # NoRow /\ \E v \in Fresh : Write(c, k, v, row[k].exp)
     \/ /\ row[k] = NoRow /\ Postgres
        /\ Goto(c, [pc |-> "invalidate", key |-> k])
        /\ UNCHANGED <<row, l1, now, ended>>

Delete(c, k) ==
  /\ call[c].pc = "idle"
  /\ row' = [row EXCEPT ![k] = NoRow]
  /\ Changed(k)
  /\ Goto(c, [pc |-> "invalidate", key |-> k])
  /\ UNCHANGED <<l1, now>>

(* An UPDATE of whatever row there is; ErrNotFound if it touched none. *)
Expire(c, k) ==
  /\ call[c].pc = "idle"
  /\ row[k] # NoRow
  /\ \E ttl \in Ttls :
       row' = [row EXCEPT ![k] = [value |-> row[k].value, exp |-> now + ttl]]
  /\ Goto(c, [pc |-> "invalidate", key |-> k])
  /\ UNCHANGED <<l1, now, ended>>

Invalidate(c) ==
  LET s == StoreOf[c] IN
  /\ call[c].pc = "invalidate"
  /\ l1' = [l1 EXCEPT ![s] = L1Invalidate(l1[s], call[c].key)]
  /\ Goto(c, Idle)
  /\ UNCHANGED <<row, now, ended>>

-----------------------------------------------------------------------------
(* The cron job: DELETE FROM _kv WHERE expire_at < NOW() *)
CleanupExpired ==
  LET Old == {k \in Keys : row[k] # NoRow /\ row[k].exp # Never /\ row[k].exp < now} IN
  /\ Old # {}
  /\ row' = [k \in Keys |-> IF k \in Old THEN NoRow ELSE row[k]]
  /\ ended' = [k \in Keys |-> [v \in Values |->
                 IF k \in Old /\ Says(row[k], v) THEN row[k].exp ELSE ended[k][v]]]
  /\ UNCHANGED <<l1, call, now>>

(* A read that has its value fills the cache within MaxCall ticks. *)
Tick ==
  /\ now < MaxTime
  /\ \A c \in Clients : call[c].pc \in {"ttl", "fill"} => now < call[c].read + MaxCall
  /\ now' = now + 1
  /\ UNCHANGED <<row, l1, call, ended>>

Operation(c) ==
  \/ \E k \in Keys :
       \/ \E reader \in Readers : Lookup(c, k, reader)
       \/ Set(c, k) \/ SetEx(c, k) \/ Upsert(c, k) \/ HDel(c, k)
       \/ Delete(c, k) \/ Expire(c, k)
  \/ Query(c) \/ QueryTTL(c) \/ Fill(c) \/ Invalidate(c)

Next == (\E c \in Clients : Operation(c)) \/ CleanupExpired \/ Tick

Spec == Init /\ [][Next]_vars

-----------------------------------------------------------------------------
Instants == Nat \cup {Never}

Rows == [value : Values, exp : Instants] \cup {NoRow}

Entries == [value : Values, exp : Nat] \cup {NoEntry}

Calls ==
  {Idle}
  \cup [pc : {"query"}, key : Keys, reader : {"get", "bulk"}]
  \cup [pc : {"ttl", "fill"}, key : Keys, value : Values, ttl : Nat, read : Nat]
  \cup [pc : {"invalidate"}, key : Keys]

(* The table, the caches, the calls and the clock keep their shapes. *)
TypeOK ==
  /\ row \in [Keys -> Rows]
  /\ DOMAIN l1 = Stores /\ \A s \in Stores : l1[s].data \in [Keys -> Entries]
  /\ call \in [Clients -> Calls]
  /\ now \in Nat
  /\ ended \in [Keys -> [Values -> Instants]]

(* The map (c.data) and the list (c.lruList) of l1_cache.go hold the same  *)
(* keys, no key twice, and never more of them than maxSize allows.         *)
ListMatchesMap ==
  \A s \in Stores :
    /\ IsInjective(l1[s].lru)
    /\ ToSet(l1[s].lru) = Cached(l1[s])
    /\ MaxSize > 0 => Len(l1[s].lru) <= MaxSize

(* However reads and writes of any number of processes interleave, a cache *)
(* serves a value for at most L1TTL after the table stopped saying it,     *)
(* plus the time a read takes from the row to the cache.                   *)
StaleBounded ==
  \A s \in Stores, k \in Keys :
    LET v == l1[s].data[k].value IN
    L1Hit(l1[s], k, now) /\ EndOf(k, v) # Never => now <= EndOf(k, v) + L1TTL + MaxCall

(* Invalidate clears L1 "to guarantee consistency" (store_impl.go): when   *)
(* no call is in progress, what a cache serves is what the table says.     *)
Quiet == \A c \in Clients : call[c] = Idle

Coherent ==
  Quiet =>
    \A s \in Stores, k \in Keys :
      L1Hit(l1[s], k, now) => Says(row[k], l1[s].data[k].value)

(* Get caps the time to live so that L1 does not outlive the expiry of the *)
(* row it was filled from (store_impl.go).                                 *)
WithinRow ==
  Quiet =>
    \A s \in Stores, k \in Keys :
      LET e == l1[s].data[k] IN
      e # NoEntry /\ Says(row[k], e.value) /\ row[k].exp # Never => e.exp <= row[k].exp
=============================================================================
