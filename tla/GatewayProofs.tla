--------------------------- MODULE GatewayProofs ---------------------------
(* Theorems about Gateway, for any number of requests, reloads and         *)
(* instances, and any configurations.                                      *)
EXTENDS Gateway, FiniteSetTheorems, TLAPS

USE GatewayAssumption

Pcs == {"idle", "limiter", "breaker", "check", "acquire", "upstream", "succeeded",
        "failed", "release"}

ReqRecord ==
  [pc : Pcs, limiter : Instances \cup {None}, breaker : Instances \cup {None}, probe : BOOLEAN]

LEMMA ReqOKDef == ReqOK <=> req \in [Requests -> ReqRecord]
BY DEF ReqOK, ReqRecord, Pcs

-----------------------------------------------------------------------------
(* Type correctness, one part of the state at a time. *)
LEMMA ReloadStep == TypeOK /\ [Next]_vars => ReloadOK'
<1> SUFFICES ASSUME TypeOK, [Next]_vars PROVE ReloadOK'
  OBVIOUS
<1>0. ReloadOK
  BY DEF TypeOK
<1>1. ASSUME NEW w \in Writers, Reload(w) PROVE ReloadOK'
  <2>1. CASE Save(w)
    BY <1>0, <2>1 DEF Save, ReloadOK
  <2>2. CASE LoadProxies(w)
    BY <1>0, <2>2 DEF LoadProxies, ReloadOK
  <2>3. CASE LoadFails(w)
    BY <1>0, <2>3 DEF LoadFails, NoReload, ReloadOK
  <2>4. CASE SetProxies(w)
    BY <1>0, <2>4 DEF SetProxies, NoReload, ReloadOK
  <2> QED
    BY <1>1, <2>1, <2>2, <2>3, <2>4 DEF Reload
<1>2. CASE UNCHANGED <<table, reload, faults>>
  BY <1>0, <1>2 DEF ReloadOK
<1> QED
  BY <1>1, <1>2
  DEF Next, MatchProxy, Serve, GetLimiter, GetCircuitBreaker, Admit, AdmitProbe, RefuseOpen, Acquire,
      RefuseFull, Answer, Failure, Abort, RecordSuccess, RecordFailure, Release, Tick, Config, vars

LEMMA InstanceStep == TypeOK /\ [Next]_vars => InstanceOK'
<1> SUFFICES ASSUME TypeOK, [Next]_vars PROVE InstanceOK'
  OBVIOUS
<1>0. InstanceOK /\ ReloadOK
  BY DEF TypeOK
<1>1. ASSUME NEW w \in Writers, SetProxies(w) PROVE InstanceOK'
  BY <1>0, <1>1 DEF SetProxies, InstanceOK, ReloadOK
<1>2. ASSUME NEW r \in Requests, Acquire(r) \/ Release(r) PROVE InstanceOK'
  <2>1. UNCHANGED <<current, cfg>>
    BY <1>2 DEF Acquire, Release, Config
  <2>2. \A g \in Instances : inUse[g] + (IF g = req[r].limiter THEN 1 ELSE 0) \in Nat
    BY <1>0 DEF InstanceOK
  <2>3. \A g \in Instances :
          (IF g = req[r].limiter /\ inUse[g] > 0 THEN inUse[g] - 1 ELSE inUse[g]) \in Nat
    BY <1>0 DEF InstanceOK
  <2>4. inUse' \in [Instances -> Nat]
    BY <1>2, <2>2, <2>3 DEF Acquire, Release
  <2> QED
    BY <1>0, <2>1, <2>4 DEF InstanceOK
<1>3. CASE UNCHANGED <<current, cfg, inUse>>
  BY <1>0, <1>3 DEF InstanceOK
<1> QED
  BY <1>1, <1>2, <1>3
  DEF Next, Reload, Save, LoadProxies, LoadFails, MatchProxy, Serve, GetLimiter, GetCircuitBreaker,
      Admit, AdmitProbe, RefuseOpen, RefuseFull, Answer, Failure, Abort, RecordSuccess,
      RecordFailure, Tick, Config, vars

BreakerRecord == [state : {"closed", "open", "halfopen"}, fails : Nat, age : Nat]

(* What a failure, a success, an admission or a tick makes of a breaker is *)
(* one again, and below the threshold if it is closed.                     *)
LEMMA FailedBreaker ==
  ASSUME BreakerOK, InstanceOK, NEW g \in Instances, HasBreaker(cfg[g])
  PROVE  /\ Failed(g) \in BreakerRecord
         /\ Failed(g).state = "closed" => Failed(g).fails < Threshold(g)
<1>1. Threshold(g) \in Nat /\ Threshold(g) > 0
  BY DEF InstanceOK, HasBreaker, Threshold
<1>2. brk[g] \in BreakerRecord
  BY DEF BreakerOK, BreakerRecord
<1>3. CASE brk[g].state = "closed"
  BY <1>1, <1>2, <1>3 DEF Failed, BreakerRecord
<1>4. CASE brk[g].state = "halfopen"
  BY <1>1, <1>2, <1>4 DEF Failed, BreakerRecord
<1>5. CASE brk[g].state = "open"
  BY <1>1, <1>2, <1>5 DEF Failed, BreakerRecord
<1> QED
  BY <1>2, <1>3, <1>4, <1>5 DEF BreakerRecord

BreakerInv == BreakerOK /\ ClosedBelowThreshold

LEMMA BreakerStep == TypeOK /\ ClosedBelowThreshold /\ [Next]_vars => BreakerInv'
<1> SUFFICES ASSUME TypeOK, ClosedBelowThreshold, [Next]_vars PROVE BreakerInv'
  OBVIOUS
<1>0. BreakerOK /\ InstanceOK /\ ReloadOK /\ HeldOK /\ ReqOK
  BY DEF TypeOK
<1>1. ASSUME UNCHANGED cfg,
             brk' \in [Instances -> BreakerRecord],
             \A g \in Instances : HasBreaker(cfg[g]) /\ brk'[g].state = "closed" =>
               brk'[g].fails < Threshold(g)
      PROVE  BreakerInv'
  BY <1>1 DEF BreakerInv, BreakerOK, BreakerRecord, ClosedBelowThreshold, Threshold
<1>2. ASSUME NEW w \in Writers, SetProxies(w) PROVE BreakerInv'
  <2>1. PICK i \in Instances :
          /\ cfg' = [cfg EXCEPT ![i] = reload[w].config]
          /\ brk' = [brk EXCEPT ![i] = NewBreaker]
    BY <1>2 DEF SetProxies
  <2>2. cfg' \in [Instances -> Configs \cup {NoConfig}]
    BY <1>0, <2>1 DEF InstanceOK, ReloadOK
  <2>3. BreakerOK'
    BY <1>0, <2>1 DEF BreakerOK, NewBreaker
  <2>4. ASSUME NEW g \in Instances, HasBreaker(cfg'[g]), brk'[g].state = "closed"
        PROVE  brk'[g].fails < Threshold(g)'
    <3>1. CASE g = i
      <4>1. brk'[g].fails = 0
        BY <1>0, <2>1, <3>1 DEF BreakerOK, NewBreaker
      <4>2. Threshold(g)' \in Nat /\ Threshold(g)' > 0
        BY <2>2, <2>4 DEF HasBreaker, Threshold
      <4> QED
        BY <4>1, <4>2
    <3>2. CASE g # i
      BY <1>0, <2>1, <2>4, <3>2 DEF BreakerOK, InstanceOK, ClosedBelowThreshold, Threshold
    <3> QED
      BY <3>1, <3>2
  <2> QED
    BY <2>3, <2>4 DEF BreakerInv, ClosedBelowThreshold
<1>3. ASSUME NEW r \in Requests, AdmitProbe(r) PROVE BreakerInv'
  <2>1. UNCHANGED cfg
    BY <1>3 DEF AdmitProbe, Config
  <2>2. brk' \in [Instances -> BreakerRecord]
    BY <1>0, <1>3 DEF AdmitProbe, BreakerOK, BreakerRecord
  <2>3. \A g \in Instances : brk'[g] = brk[g] \/ brk'[g].state = "halfopen"
    BY <1>0, <1>3 DEF AdmitProbe, BreakerOK
  <2> QED
    BY <1>1, <2>1, <2>2, <2>3 DEF ClosedBelowThreshold
<1>4. ASSUME NEW r \in Requests, RecordSuccess(r) PROVE BreakerInv'
  <2>1. UNCHANGED cfg
    BY <1>4 DEF RecordSuccess, Config
  <2>2. brk' \in [Instances -> BreakerRecord]
    BY <1>0, <1>4 DEF RecordSuccess, BreakerOK, BreakerRecord
  <2>3. \A g \in Instances : brk'[g] = brk[g] \/ brk'[g].fails = 0
    BY <1>0, <1>4 DEF RecordSuccess, BreakerOK
  <2>4. \A g \in Instances : HasBreaker(cfg[g]) => Threshold(g) \in Nat /\ Threshold(g) > 0
    BY <1>0 DEF InstanceOK, HasBreaker, Threshold
  <2> QED
    BY <1>1, <2>1, <2>2, <2>3, <2>4 DEF ClosedBelowThreshold
<1>5. ASSUME NEW r \in Requests, RecordFailure(r) PROVE BreakerInv'
  <2>1. UNCHANGED cfg
    BY <1>5 DEF RecordFailure, Config
  <2>2. \A g \in Instances : g = req[r].breaker => HasBreaker(cfg[g])
    BY <1>0 DEF HeldOK
  <2>3. \A g \in Instances : brk[g] \in BreakerRecord
    BY <1>0 DEF BreakerOK, BreakerRecord
  <2>4. brk' = [g \in Instances |-> IF g = req[r].breaker THEN Failed(g) ELSE brk[g]]
    BY <1>5 DEF RecordFailure
  <2>5. brk' \in [Instances -> BreakerRecord]
    BY <1>0, <2>2, <2>3, <2>4, FailedBreaker
  <2> QED
    BY <1>0, <1>1, <2>1, <2>2, <2>4, <2>5, FailedBreaker DEF ClosedBelowThreshold
<1>6. CASE Tick
  <2>1. UNCHANGED cfg
    BY <1>6 DEF Tick, Config
  <2>2. brk' \in [Instances -> BreakerRecord]
    BY <1>0, <1>6 DEF Tick, BreakerOK, BreakerRecord
  <2>3. \A g \in Instances : brk'[g].state = brk[g].state /\ brk'[g].fails = brk[g].fails
    BY <1>0, <1>6 DEF Tick, BreakerOK
  <2> QED
    BY <1>1, <2>1, <2>2, <2>3 DEF ClosedBelowThreshold
<1>7. CASE UNCHANGED <<cfg, brk>>
  BY <1>0, <1>7 DEF BreakerInv, BreakerOK, ClosedBelowThreshold, Threshold
<1> QED
  BY <1>2, <1>3, <1>4, <1>5, <1>6, <1>7
  DEF Next, Reload, Save, LoadProxies, LoadFails, MatchProxy, Serve, GetLimiter, GetCircuitBreaker,
      Admit, RefuseOpen, Acquire, RefuseFull, Answer, Failure, Abort, Release, Config, vars

LEMMA ReqStep == TypeOK /\ [Next]_vars => ReqOK'
<1> SUFFICES ASSUME TypeOK, [Next]_vars PROVE ReqOK'
  OBVIOUS
<1>0. InstanceOK /\ req \in [Requests -> ReqRecord]
  BY ReqOKDef DEF TypeOK
<1>1. ASSUME NEW r \in Requests, NEW q \in ReqRecord, req' = [req EXCEPT ![r] = q]
      PROVE  ReqOK'
  BY <1>0, <1>1 DEF ReqOK, ReqRecord, Pcs
<1>2. ASSUME NEW r \in Requests, NEW pc \in Pcs, Goto(r, pc) PROVE ReqOK'
  BY <1>0, <1>2 DEF Goto, ReqOK, ReqRecord, Pcs
<1>3. ASSUME NEW r \in Requests, Leave(r) PROVE ReqOK'
  <2>1. [pc |-> "release", limiter |-> req[r].limiter, breaker |-> None, probe |-> FALSE]
          \in ReqRecord
    BY <1>0 DEF ReqRecord, Pcs
  <2> QED
    BY <1>0, <1>1, <1>3, <2>1 DEF Leave
<1>4. ASSUME NEW r \in Requests, Return(r) PROVE ReqOK'
  <2>1. NoReq \in ReqRecord
    BY DEF NoReq, ReqRecord, Pcs
  <2> QED
    BY <1>1, <1>4, <2>1 DEF Return
<1>5. ASSUME NEW r \in Requests, GetLimiter(r) PROVE ReqOK'
  <2> DEFINE q == [pc |-> "breaker", limiter |-> IF HasLimiter(cfg[current]) THEN current ELSE None,
                   breaker |-> None, probe |-> FALSE]
  <2>1. q \in ReqRecord
    BY <1>0 DEF InstanceOK, ReqRecord, Pcs
  <2>2. req' = [req EXCEPT ![r] = q]
    BY <1>5 DEF GetLimiter
  <2> QED
    BY <1>1, <2>1, <2>2
<1>6. ASSUME NEW r \in Requests, GetCircuitBreaker(r) PROVE ReqOK'
  <2> DEFINE q == [pc |-> "check", limiter |-> req[r].limiter,
                   breaker |-> IF HasBreaker(cfg[current]) THEN current ELSE None,
                   probe |-> FALSE]
  <2>1. q \in ReqRecord
    BY <1>0 DEF InstanceOK, ReqRecord, Pcs
  <2>2. req' = [req EXCEPT ![r] = q]
    BY <1>0, <1>6 DEF GetCircuitBreaker
  <2> QED
    BY <1>1, <2>1, <2>2
<1>7. ASSUME NEW r \in Requests, Admit(r) \/ AdmitProbe(r) PROVE ReqOK'
  <2>1. PICK b \in BOOLEAN :
          req' = [req EXCEPT ![r] = [pc |-> "acquire", limiter |-> req[r].limiter,
                                     breaker |-> req[r].breaker, probe |-> b]]
    BY <1>0, <1>7 DEF Admit, AdmitProbe
  <2>2. [pc |-> "acquire", limiter |-> req[r].limiter, breaker |-> req[r].breaker, probe |-> b]
          \in ReqRecord
    BY <1>0 DEF ReqRecord, Pcs
  <2> QED
    BY <1>1, <2>1, <2>2
<1>8. ASSUME NEW r \in Requests, MatchProxy(r) \/ Acquire(r) \/ Answer(r) \/ Failure(r)
      PROVE ReqOK'
  BY <1>2, <1>8 DEF MatchProxy, Acquire, Answer, Failure, Pcs
<1>9. ASSUME NEW r \in Requests, Abort(r) \/ RecordSuccess(r) \/ RecordFailure(r) PROVE ReqOK'
  BY <1>3, <1>9 DEF Abort, RecordSuccess, RecordFailure
<1>10. ASSUME NEW r \in Requests, RefuseOpen(r) \/ RefuseFull(r) \/ Release(r) PROVE ReqOK'
  BY <1>4, <1>10 DEF RefuseOpen, RefuseFull, Release
<1>11. CASE UNCHANGED req
  BY <1>0, <1>11, ReqOKDef DEF ReqOK, ReqRecord, Pcs
<1> QED
  BY <1>5, <1>6, <1>7, <1>8, <1>9, <1>10, <1>11
  DEF Next, Reload, Save, LoadProxies, LoadFails, SetProxies, Serve, Tick, vars

(* A request's step leaves the configurations alone, and keeps, drops or   *)
(* newly takes each of its control objects.                                *)
LEMMA HeldStep == TypeOK /\ [Next]_vars => HeldOK'
<1> SUFFICES ASSUME TypeOK, [Next]_vars PROVE HeldOK'
  OBVIOUS
<1>0. InstanceOK /\ HeldOK /\ req \in [Requests -> ReqRecord]
  BY ReqOKDef DEF TypeOK
<1>1. ASSUME NEW r \in Requests, NEW q, req' = [req EXCEPT ![r] = q], UNCHANGED cfg,
             q.limiter # None => HasLimiter(cfg[q.limiter]),
             q.breaker # None => HasBreaker(cfg[q.breaker])
      PROVE  HeldOK'
  BY <1>0, <1>1 DEF HeldOK
<1>2. ASSUME NEW r \in Requests, NEW pc, Goto(r, pc), UNCHANGED cfg PROVE HeldOK'
  BY <1>0, <1>2 DEF Goto, HeldOK, ReqRecord
<1>3. ASSUME NEW r \in Requests, Leave(r) \/ Return(r), UNCHANGED cfg PROVE HeldOK'
  BY <1>0, <1>3 DEF Leave, Return, NoReq, HeldOK
<1>4. ASSUME NEW r \in Requests, GetLimiter(r) PROVE HeldOK'
  BY <1>0, <1>4 DEF GetLimiter, Config, HeldOK
<1>5. ASSUME NEW r \in Requests, GetCircuitBreaker(r) PROVE HeldOK'
  BY <1>0, <1>5 DEF GetCircuitBreaker, Config, HeldOK
<1>6. ASSUME NEW r \in Requests, Admit(r) PROVE HeldOK'
  BY <1>0, <1>6 DEF Admit, Config, HeldOK
<1>7. ASSUME NEW r \in Requests, AdmitProbe(r) PROVE HeldOK'
  BY <1>0, <1>7 DEF AdmitProbe, Config, HeldOK
<1>8. ASSUME NEW w \in Writers, SetProxies(w) PROVE HeldOK'
  <2>1. PICK g \in Instances : ~Referenced(g) /\ cfg' = [cfg EXCEPT ![g] = reload[w].config]
    BY <1>8 DEF SetProxies
  <2>2. \A r \in Requests : req[r].limiter # g /\ req[r].breaker # g
    BY <2>1 DEF Referenced
  <2>3. UNCHANGED req
    BY <1>8 DEF SetProxies
  <2>4. \A r \in Requests :
          req[r].limiter \in Instances \cup {None} /\ req[r].breaker \in Instances \cup {None}
    BY <1>0 DEF ReqRecord
  <2> QED
    BY <1>0, <2>1, <2>2, <2>3, <2>4 DEF HeldOK, InstanceOK, HasLimiter, HasBreaker
<1>9. ASSUME NEW r \in Requests, MatchProxy(r) \/ Acquire(r) \/ Answer(r) \/ Failure(r)
      PROVE HeldOK'
  BY <1>2, <1>9 DEF MatchProxy, Acquire, Answer, Failure, Config
<1>10. ASSUME NEW r \in Requests,
              Abort(r) \/ RecordSuccess(r) \/ RecordFailure(r) \/ RefuseOpen(r) \/ RefuseFull(r)
                \/ Release(r)
       PROVE HeldOK'
  BY <1>3, <1>10 DEF Abort, RecordSuccess, RecordFailure, RefuseOpen, RefuseFull, Release, Config
<1>11. CASE UNCHANGED <<cfg, req>>
  BY <1>0, <1>11 DEF HeldOK
<1> QED
  BY <1>4, <1>5, <1>6, <1>7, <1>8, <1>9, <1>10, <1>11
  DEF Next, Reload, Save, LoadProxies, LoadFails, Serve, Tick, Config, vars

LEMMA GatewayInit == Init => TypeOK /\ ClosedBelowThreshold
<1> SUFFICES ASSUME Init PROVE TypeOK /\ ClosedBelowThreshold
  OBVIOUS
<1>1. ReloadOK /\ InstanceOK /\ BreakerOK
  BY DEF Init, ReloadOK, InstanceOK, BreakerOK, NoReload, NewBreaker
<1>2. ReqOK /\ HeldOK
  BY DEF Init, ReqOK, HeldOK, NoReq
<1>3. \A g \in Instances : HasBreaker(cfg[g]) => Threshold(g) \in Nat /\ Threshold(g) > 0
  BY <1>1 DEF InstanceOK, HasBreaker, Threshold
<1>4. ClosedBelowThreshold
  BY <1>3 DEF Init, NewBreaker, ClosedBelowThreshold
<1> QED
  BY <1>1, <1>2, <1>4 DEF TypeOK

GatewayInv == TypeOK /\ ClosedBelowThreshold

LEMMA GatewayInvariant == Spec => []GatewayInv
<1>1. GatewayInv /\ [Next]_vars => GatewayInv'
  BY ReloadStep, InstanceStep, BreakerStep, ReqStep, HeldStep DEF GatewayInv, BreakerInv, TypeOK
<1> QED
  BY <1>1, GatewayInit, PTL DEF Spec, GatewayInv

(* Every reachable state is well typed, and a request's control objects    *)
(* exist in the configuration they were created from.                      *)
THEOREM TypeCorrect == Spec => []TypeOK
<1>1. GatewayInv => TypeOK
  BY DEF GatewayInv
<1> QED
  BY <1>1, GatewayInvariant, PTL

(* No interleaving of results, late or not, with admissions and reloads    *)
(* leaves a breaker closed that has seen Threshold failures in a row.      *)
THEOREM TripsInTime == Spec => []ClosedBelowThreshold
<1>1. GatewayInv => ClosedBelowThreshold
  BY DEF GatewayInv
<1> QED
  BY <1>1, GatewayInvariant, PTL

-----------------------------------------------------------------------------
(* The slots of a limiter. *)
LEMMA HoldersFinite ==
  ASSUME NEW g \in Instances
  PROVE  IsFiniteSet(Holders(g)) /\ Cardinality(Holders(g)) \in Nat
<1>1. Holders(g) \subseteq Requests
  BY DEF Holders, Upstream
<1> QED
  BY <1>1, FS_Subset, FS_CardinalityType

(* Steps within the handler neither take nor give a slot. *)
LEMMA SameHolders ==
  ASSUME TypeOK, SlotsAccounted, UNCHANGED <<cfg, inUse>>,
         \A r \in Requests :
           /\ r \in Upstream' <=> r \in Upstream
           /\ r \in Upstream => req'[r].limiter = req[r].limiter
  PROVE  SlotsAccounted'
<1>1. \A g : Holders(g)' = Holders(g)
  BY DEF Holders, Upstream
<1> QED
  BY <1>1 DEF SlotsAccounted

LEMMA AcquireSlot ==
  ASSUME TypeOK, SlotsAccounted, NEW r \in Requests, Acquire(r)
  PROVE  SlotsAccounted'
<1>0. req \in [Requests -> ReqRecord] /\ inUse \in [Instances -> Nat]
  BY ReqOKDef DEF TypeOK, InstanceOK
<1>1. /\ req[r].pc = "acquire"
      /\ req' = [req EXCEPT ![r].pc = "upstream"]
      /\ UNCHANGED cfg
  BY DEF Acquire, Goto, Config
<1>2. \A g \in Instances :
        Holders(g)' = IF g = req[r].limiter THEN Holders(g) \cup {r} ELSE Holders(g)
  BY <1>0, <1>1 DEF Holders, Upstream, ReqRecord
<1>3. \A g : r \notin Holders(g)
  BY <1>1 DEF Holders, Upstream
<1>4. \A g \in Instances :
        Cardinality(Holders(g))' =
          IF g = req[r].limiter THEN Cardinality(Holders(g)) + 1 ELSE Cardinality(Holders(g))
  BY <1>2, <1>3, HoldersFinite, FS_AddElement
<1>5. \A g \in Instances :
        inUse'[g] = IF g = req[r].limiter THEN inUse[g] + 1 ELSE inUse[g]
  BY <1>0 DEF Acquire
<1>6. \A g \in Instances : HasLimiter(cfg[g]) => inUse'[g] <= cfg[g].max
  <2> SUFFICES ASSUME NEW g \in Instances, HasLimiter(cfg[g]) PROVE inUse'[g] <= cfg[g].max
    OBVIOUS
  <2>1. cfg[g].max \in Nat /\ inUse[g] \in Nat /\ inUse[g] <= cfg[g].max
    BY <1>0 DEF HasLimiter, TypeOK, InstanceOK, SlotsAccounted
  <2>2. g = req[r].limiter => inUse[g] < cfg[g].max
    BY DEF Acquire
  <2> QED
    BY <1>5, <2>1, <2>2
<1> QED
  BY <1>1, <1>4, <1>5, <1>6 DEF SlotsAccounted

LEMMA ReleaseSlot ==
  ASSUME TypeOK, SlotsAccounted, NEW r \in Requests, Release(r)
  PROVE  SlotsAccounted'
<1>0. req \in [Requests -> ReqRecord] /\ inUse \in [Instances -> Nat]
  BY ReqOKDef DEF TypeOK, InstanceOK
<1>1. /\ req[r].pc = "release"
      /\ req' = [req EXCEPT ![r] = NoReq]
      /\ UNCHANGED cfg
  BY DEF Release, Return, Config
<1>2. \A g \in Instances : Holders(g)' = Holders(g) \ {r}
  BY <1>0, <1>1 DEF Holders, Upstream, NoReq
<1>3. \A g \in Instances : r \in Holders(g) <=> g = req[r].limiter
  BY <1>1 DEF Holders, Upstream
<1>4. \A g \in Instances :
        Cardinality(Holders(g))' =
          IF g = req[r].limiter THEN Cardinality(Holders(g)) - 1 ELSE Cardinality(Holders(g))
  BY <1>2, <1>3, HoldersFinite, FS_RemoveElement
<1>5. \A g \in Instances : g = req[r].limiter => inUse[g] > 0
  BY <1>3, HoldersFinite, FS_EmptySet DEF SlotsAccounted
<1>6. \A g \in Instances :
        inUse'[g] = IF g = req[r].limiter THEN inUse[g] - 1 ELSE inUse[g]
  BY <1>0, <1>5 DEF Release
<1>7. \A g \in Instances : HasLimiter(cfg[g]) => inUse'[g] <= cfg[g].max
  BY <1>0, <1>6 DEF HasLimiter, TypeOK, InstanceOK, SlotsAccounted
<1> QED
  BY <1>1, <1>4, <1>6, <1>7 DEF SlotsAccounted

(* The new limiter is held by nobody; the old one keeps its holders. *)
LEMMA ReloadSlots ==
  ASSUME TypeOK, SlotsAccounted, NEW w \in Writers, SetProxies(w)
  PROVE  SlotsAccounted'
<1>0. InstanceOK /\ ReloadOK
  BY DEF TypeOK
<1>1. PICK i \in Instances :
        /\ ~Referenced(i)
        /\ cfg' = [cfg EXCEPT ![i] = reload[w].config]
        /\ inUse' = [inUse EXCEPT ![i] = 0]
  BY DEF SetProxies
<1>2. Holders(i) = {}
  BY <1>1 DEF Holders, Upstream, Referenced
<1>3. \A g : Holders(g)' = Holders(g)
  BY DEF SetProxies, Holders, Upstream
<1>4. cfg' \in [Instances -> Configs \cup {NoConfig}]
  BY <1>0, <1>1 DEF InstanceOK, ReloadOK
<1>5. HasLimiter(cfg'[i]) => 0 <= cfg'[i].max
  BY <1>4 DEF HasLimiter
<1> QED
  BY <1>0, <1>1, <1>2, <1>3, <1>5, FS_EmptySet DEF SlotsAccounted, InstanceOK

LEMMA SlotsStep == TypeOK /\ SlotsAccounted /\ [Next]_vars => SlotsAccounted'
<1> SUFFICES ASSUME TypeOK, SlotsAccounted, [Next]_vars PROVE SlotsAccounted'
  OBVIOUS
<1>0. req \in [Requests -> ReqRecord]
  BY ReqOKDef DEF TypeOK
<1> DEFINE Before == {"idle", "limiter", "breaker", "check", "acquire"}
<1>1. ASSUME NEW r \in Requests, NEW q, req' = [req EXCEPT ![r] = q], UNCHANGED <<cfg, inUse>>,
             req[r].pc \in Before, q.pc \in Before
      PROVE  SlotsAccounted'
  BY <1>0, <1>1, SameHolders DEF Upstream
<1>2. ASSUME NEW r \in Requests, MatchProxy(r) PROVE SlotsAccounted'
  BY <1>0, <1>2, SameHolders DEF MatchProxy, Goto, Config, Upstream, ReqRecord
<1>3. ASSUME NEW r \in Requests,
             GetLimiter(r) \/ GetCircuitBreaker(r) \/ Admit(r) \/ AdmitProbe(r)
      PROVE SlotsAccounted'
  BY <1>0, <1>1, <1>3 DEF GetLimiter, GetCircuitBreaker, Admit, AdmitProbe, Config
<1>4. ASSUME NEW r \in Requests, RefuseOpen(r) \/ RefuseFull(r) PROVE SlotsAccounted'
  BY <1>0, <1>1, <1>4 DEF RefuseOpen, RefuseFull, Return, NoReq, Config
<1>5. ASSUME NEW r \in Requests, Answer(r) \/ Failure(r) PROVE SlotsAccounted'
  BY <1>0, <1>5, SameHolders DEF Answer, Failure, Goto, Config, Upstream, ReqRecord
<1>6. ASSUME NEW r \in Requests, Abort(r) \/ RecordSuccess(r) \/ RecordFailure(r)
      PROVE SlotsAccounted'
  BY <1>0, <1>6, SameHolders DEF Abort, RecordSuccess, RecordFailure, Leave, Config, Upstream
<1>7. CASE UNCHANGED <<cfg, inUse, req>>
  BY <1>7, SameHolders DEF Upstream
<1> QED
  BY <1>2, <1>3, <1>4, <1>5, <1>6, <1>7, AcquireSlot, ReleaseSlot, ReloadSlots
  DEF Next, Reload, Save, LoadProxies, LoadFails, Serve, Tick, Config, vars

LEMMA SlotsInit == Init => SlotsAccounted
<1> SUFFICES ASSUME Init PROVE SlotsAccounted
  OBVIOUS
<1>1. \A g : Holders(g) = {}
  BY DEF Init, NoReq, Holders, Upstream
<1>2. \A g \in Instances : inUse[g] = 0 /\ Cardinality(Holders(g)) = 0
  BY <1>1, FS_EmptySet DEF Init
<1>3. \A g \in Instances : HasLimiter(cfg[g]) => 0 <= cfg[g].max
  BY GatewayInit DEF TypeOK, InstanceOK, HasLimiter
<1> QED
  BY <1>2, <1>3 DEF SlotsAccounted

(* No refusal, answer, panic or reload makes a limiter lose a slot, give   *)
(* one back twice or exceed its size.                                      *)
THEOREM SlotsNeverLeak == Spec => []SlotsAccounted
BY SlotsInit, SlotsStep, TypeCorrect, PTL DEF Spec

-----------------------------------------------------------------------------
(* Changes of the record one after another: the next is saved when the     *)
(* hook of the last has returned.  With two hooks at once the one that     *)
(* read the table first may install its old copy last.                     *)
OneAtATime ==
  \A v, w \in Writers : reload[v].pc # "idle" /\ reload[w].pc # "idle" => v = w

LoadedCurrent == \A w \in Writers : reload[w].pc = "set" => reload[w].config = table

LEMMA LoadedStep ==
  TypeOK /\ LoadedCurrent /\ OneAtATime' /\ [Next]_vars => LoadedCurrent'
<1> SUFFICES ASSUME TypeOK, LoadedCurrent, OneAtATime', [Next]_vars PROVE LoadedCurrent'
  OBVIOUS
<1>0. ReloadOK
  BY DEF TypeOK
<1>1. ASSUME NEW v \in Writers, Save(v) PROVE LoadedCurrent'
  <2>1. reload'[v].pc = "load" /\ \A w \in Writers : w # v => reload'[w] = reload[w]
    BY <1>0, <1>1 DEF Save, ReloadOK
  <2>2. \A w \in Writers : reload'[w].pc # "set"
    BY <2>1 DEF OneAtATime
  <2> QED
    BY <2>2 DEF LoadedCurrent
<1>2. ASSUME NEW v \in Writers, LoadProxies(v) PROVE LoadedCurrent'
  BY <1>0, <1>2 DEF LoadProxies, LoadedCurrent, ReloadOK
<1>3. ASSUME NEW v \in Writers, LoadFails(v) \/ SetProxies(v) PROVE LoadedCurrent'
  BY <1>0, <1>3 DEF LoadFails, SetProxies, NoReload, LoadedCurrent, ReloadOK
<1>4. CASE UNCHANGED <<table, reload>>
  BY <1>4 DEF LoadedCurrent
<1> QED
  BY <1>1, <1>2, <1>3, <1>4
  DEF Next, Reload, MatchProxy, Serve, GetLimiter, GetCircuitBreaker, Admit, AdmitProbe, RefuseOpen,
      Acquire, RefuseFull, Answer, Failure, Abort, RecordSuccess, RecordFailure, Release, Tick,
      Config, vars

LEMMA InstalledStep ==
  TypeOK /\ LoadedCurrent /\ ReloadCurrent /\ [Next]_vars => ReloadCurrent'
<1> SUFFICES ASSUME TypeOK, LoadedCurrent, ReloadCurrent, [Next]_vars PROVE ReloadCurrent'
  OBVIOUS
<1>0. ReloadOK /\ InstanceOK
  BY DEF TypeOK
<1>1. ASSUME NEW v \in Writers, Save(v) \/ LoadProxies(v) PROVE ReloadCurrent'
  <2>1. reload'[v].pc # "idle"
    BY <1>0, <1>1 DEF Save, LoadProxies, ReloadOK
  <2> QED
    BY <2>1 DEF ReloadCurrent, Reloading
<1>2. ASSUME NEW v \in Writers, LoadFails(v) PROVE ReloadCurrent'
  <2>1. faults' = faults + 1 /\ faults \in Nat
    BY <1>0, <1>2 DEF LoadFails, ReloadOK
  <2> QED
    BY <2>1 DEF ReloadCurrent
<1>3. ASSUME NEW v \in Writers, SetProxies(v) PROVE ReloadCurrent'
  <2>1. cfg'[current'] = reload[v].config /\ table' = table
    BY <1>0, <1>3 DEF SetProxies, InstanceOK
  <2>2. reload[v].config = table
    BY <1>3 DEF SetProxies, LoadedCurrent
  <2> QED
    BY <2>1, <2>2 DEF ReloadCurrent
<1>4. CASE UNCHANGED Config
  BY <1>4 DEF Config, ReloadCurrent, Reloading
<1> QED
  BY <1>1, <1>2, <1>3, <1>4
  DEF Next, Reload, MatchProxy, Serve, GetLimiter, GetCircuitBreaker, Admit, AdmitProbe, RefuseOpen,
      Acquire, RefuseFull, Answer, Failure, Abort, RecordSuccess, RecordFailure, Release, Tick,
      Config, vars

(* A change of the configuration takes effect: when changes come one after *)
(* another and none failed to be read, what the handlers use is what the   *)
(* table holds, whatever requests were in progress during the reload.      *)
THEOREM ReloadsTakeEffect == Spec /\ []OneAtATime => []ReloadCurrent
<1>1. Init => LoadedCurrent /\ ReloadCurrent
  BY DEF Init, LoadedCurrent, ReloadCurrent, NoReload
<1>2. TypeOK /\ LoadedCurrent /\ ReloadCurrent /\ OneAtATime' /\ [Next]_vars
      => LoadedCurrent' /\ ReloadCurrent'
  BY LoadedStep, InstalledStep
<1> QED
  BY <1>1, <1>2, TypeCorrect, PTL DEF Spec

(* The instances the runs check, one change at a time by the size of       *)
(* Writers, are a special case.                                            *)
THEOREM OneWriterReloads ==
  ASSUME \A v, w \in Writers : v = w
  PROVE  Spec => []ReloadCurrent
<1>1. OneAtATime
  BY DEF OneAtATime
<1> QED
  BY <1>1, ReloadsTakeEffect, PTL
=============================================================================
