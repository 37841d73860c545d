------------------------------- MODULE L1Ops -------------------------------
(***************************************************************************)
(* plugins/kv/l1_cache.go: what the operations of the in-process cache do  *)
(* to its two structures, the map and the LRU list.  Each runs under one   *)
(* mutex.  Eviction counts entries; sizes do not enter.                    *)
(***************************************************************************)
EXTENDS Naturals, Sequences, SequencesExt, FiniteSets

CONSTANTS
  Keys,
  MaxSize,  \* maxSize: entries, 0 for no limit
  NoEntry,  \* a key the map does not hold
  Never     \* the zero time: no expiry

EmptyCache == [data |-> [k \in Keys |-> NoEntry], lru |-> <<>>]

Cached(c) == {k \in Keys : c.data[k] # NoEntry}

(* Mutant: entries do not expire. *)
ExpiredNever(e, now) == FALSE

(* time.Now().After(entry.expireAt), with a tick as the clock's resolution *)
Expired(e, now) == e.exp # Never /\ e.exp < now

L1Hit(c, k, now) == c.data[k] # NoEntry /\ ~Expired(c.data[k], now)

RemoveElement(c, k) ==
  [data |-> [c.data EXCEPT ![k] = NoEntry], lru |-> RemoveFirst(c.lru, k)]

MoveToFront(c, k) == [data |-> c.data, lru |-> <<k>> \o RemoveFirst(c.lru, k)]

EvictOldest(c) == IF c.lru = <<>> THEN c ELSE RemoveElement(c, Last(c.lru))

L1Get(c, k, now) ==
  IF c.data[k] = NoEntry THEN c
  ELSE IF Expired(c.data[k], now) THEN RemoveElement(c, k)
  ELSE MoveToFront(c, k)

(* Mutant: one entry more than maxSize. *)
FullLate(c) == MaxSize > 0 /\ Cardinality(Cached(c)) > MaxSize

Full(c) == MaxSize > 0 /\ Cardinality(Cached(c)) >= MaxSize

L1Set(c, k, value, exp) ==
  LET room == IF c.data[k] = NoEntry /\ Full(c) THEN EvictOldest(c) ELSE c
  IN  [data |-> [room.data EXCEPT ![k] = [value |-> value, exp |-> exp]],
       lru  |-> <<k>> \o RemoveFirst(room.lru, k)]

L1Invalidate(c, k) == IF c.data[k] = NoEntry THEN c ELSE RemoveElement(c, k)
=============================================================================
