------------------------------ MODULE Gateway ------------------------------
(***************************************************************************)
(* plugins/gateway: the requests to one proxy record, its concurrency      *)
(* limiter and circuit breaker, and the reloads that replace both whenever *)
(* the record changes.  Limiters and breakers are kept by record id, so    *)
(* proxies do not interact.                                                *)
(*                                                                         *)
(* An instance is the pair of control objects one SetProxies creates; a    *)
(* request keeps the objects it was given, whatever is reloaded meanwhile. *)
(***************************************************************************)
EXTENDS Integers, FiniteSets

CONSTANTS
  Configs,           \* contents of the record: max, breaker, threshold
  NoConfig,          \* no such record, or one that is not active
  DefaultThreshold,  \* DefaultCircuitBreakerConfig().FailureThreshold
  Recovery,          \* config.RecoveryTimeout in ticks
  HalfOpenRequests,  \* config.HalfOpenRequests
  Requests,          \* bound: requests in progress at once
  Writers,           \* bound: changes of the record in progress at once
  Instances,         \* bound: instances referred to at once
  None,              \* a nil limiter or breaker
  MaxFaults          \* bound: reloads that cannot read the table

ASSUME GatewayAssumption ==
  /\ \A c \in Configs : c.max \in Nat /\ c.breaker \in BOOLEAN /\ c.threshold \in Int
  /\ NoConfig \notin Configs
  /\ DefaultThreshold \in Nat \ {0}
  /\ Recovery \in Nat /\ HalfOpenRequests \in Nat /\ MaxFaults \in Nat
  /\ None \notin Instances
  /\ IsFiniteSet(Requests)

VARIABLES
  table,    \* the record in _proxies
  reload,   \* what each change has still to do
  faults,   \* reloads that failed
  current,  \* the instance in m.limiters and m.breakers
  cfg,      \* by instance: the configuration it was made from
  inUse,    \* by instance: len(limiter.sem)
  brk,      \* by instance: state, failureCount and time since lastFailureTime
  req       \* by request: where it is, and the control objects it holds

vars == <<table, reload, faults, current, cfg, inUse, brk, req>>

-----------------------------------------------------------------------------
HasLimiter(c) == c # NoConfig /\ c.max > 0

HasBreaker(c) == c # NoConfig /\ c.breaker

(* NewCircuitBreaker's default for a threshold that is not positive. *)
Threshold(g) == IF cfg[g].threshold <= 0 THEN DefaultThreshold ELSE cfg[g].threshold

NewBreaker == [state |-> "closed", fails |-> 0, age |-> 0]

NoReq == [pc |-> "idle", limiter |-> None, breaker |-> None, probe |-> FALSE]

NoReload == [pc |-> "idle", config |-> NoConfig]

Referenced(g) ==
  g = current \/ \E r \in Requests : g \in {req[r].limiter, req[r].breaker}

(* Bootstrap loads the table. *)
Init ==
  /\ table \in Configs \cup {NoConfig}
  /\ reload = [w \in Writers |-> NoReload]
  /\ faults = 0
  /\ \E g \in Instances :
       /\ current = g
       /\ cfg = [i \in Instances |-> IF i = g THEN table ELSE NoConfig]
  /\ inUse = [g \in Instances |-> 0]
  /\ brk = [g \in Instances |-> NewBreaker]
  /\ req = [r \in Requests |-> NoReq]

-----------------------------------------------------------------------------
(* A record is created, updated or deleted; the hook runs after it is saved. *)
Save(w) ==
  /\ reload[w].pc = "idle"
  /\ table' \in Configs \cup {NoConfig}
  /\ reload' = [reload EXCEPT ![w].pc = "load"]
  /\ UNCHANGED <<faults, current, cfg, inUse, brk, req>>

LoadProxies(w) ==
  /\ reload[w].pc = "load"
  /\ reload' = [reload EXCEPT ![w] = [pc |-> "set", config |-> table]]
  /\ UNCHANGED <<table, faults, current, cfg, inUse, brk, req>>

(* An error of FindAllRecords counts as a missing collection. *)
LoadFails(w) ==
  /\ reload[w].pc = "load"
  /\ faults < MaxFaults
  /\ faults' = faults + 1
  /\ reload' = [reload EXCEPT ![w] = NoReload]
  /\ UNCHANGED <<table, current, cfg, inUse, brk, req>>

(* Mutant: an inactive record is skipped, and its instance stays. *)
SetProxiesSkipInactive(w) ==
  /\ reload[w].pc = "set"
  /\ \E g \in Instances :
       /\ ~Referenced(g)
       /\ current' = IF reload[w].config = NoConfig THEN current ELSE g
       /\ cfg' = [cfg EXCEPT ![g] = reload[w].config]
       /\ inUse' = [inUse EXCEPT ![g] = 0]
       /\ brk' = [brk EXCEPT ![g] = NewBreaker]
  /\ reload' = [reload EXCEPT ![w] = NoReload]
  /\ UNCHANGED <<table, faults, req>>

SetProxies(w) ==
  /\ reload[w].pc = "set"
  /\ \E g \in Instances :
       /\ ~Referenced(g)
       /\ current' = g
       /\ cfg' = [cfg EXCEPT ![g] = reload[w].config]
       /\ inUse' = [inUse EXCEPT ![g] = 0]
       /\ brk' = [brk EXCEPT ![g] = NewBreaker]
  /\ reload' = [reload EXCEPT ![w] = NoReload]
  /\ UNCHANGED <<table, faults, req>>

Reload(w) == Save(w) \/ LoadProxies(w) \/ LoadFails(w) \/ SetProxies(w)

-----------------------------------------------------------------------------
Goto(r, pc) == req' = [req EXCEPT ![r].pc = pc]

(* The handler is done but for its deferred Release. *)
Leave(r) == req' = [req EXCEPT ![r] =
  [pc |-> "release", limiter |-> @.limiter, breaker |-> None, probe |-> FALSE]]

(* The request has its response; its deferred calls have run. *)
Return(r) == req' = [req EXCEPT ![r] = NoReq]

Config == <<table, reload, faults, current, cfg>>

(* proxyHandler: MatchProxy. *)
MatchProxy(r) ==
  /\ req[r].pc = "idle"
  /\ cfg[current] # NoConfig
  /\ Goto(r, "limiter")
  /\ UNCHANGED <<Config, inUse, brk>>

GetLimiter(r) ==
  /\ req[r].pc = "limiter"
  /\ req' = [req EXCEPT ![r] =
       [pc |-> "breaker", limiter |-> IF HasLimiter(cfg[current]) THEN current ELSE None,
        breaker |-> None, probe |-> FALSE]]
  /\ UNCHANGED <<Config, inUse, brk>>

GetCircuitBreaker(r) ==
  /\ req[r].pc = "breaker"
  /\ req' = [req EXCEPT ![r] =
       [pc |-> "check", limiter |-> @.limiter,
        breaker |-> IF HasBreaker(cfg[current]) THEN current ELSE None, probe |-> FALSE]]
  /\ UNCHANGED <<Config, inUse, brk>>

Breaker(r) == brk[req[r].breaker]

(* IsOpen returns false.  A request let through in half-open is a probe. *)
Admit(r) ==
  /\ req[r].pc = "check"
  /\ req[r].breaker # None => Breaker(r).state # "open"
  /\ req' = [req EXCEPT ![r] =
       [pc |-> "acquire", limiter |-> @.limiter, breaker |-> @.breaker,
        probe |-> req[r].breaker # None /\ Breaker(r).state = "halfopen"]]
  /\ UNCHANGED <<Config, inUse, brk>>

AdmitProbe(r) ==
  /\ req[r].pc = "check"
  /\ req[r].breaker # None
  /\ Breaker(r).state = "open"
  /\ Breaker(r).age > Recovery
  /\ brk' = [brk EXCEPT ![req[r].breaker] = [state |-> "halfopen", fails |-> @.fails, age |-> 0]]
  /\ req' = [req EXCEPT ![r] =
       [pc |-> "acquire", limiter |-> @.limiter, breaker |-> @.breaker, probe |-> TRUE]]
  /\ UNCHANGED <<Config, inUse>>

(* 503 *)
RefuseOpen(r) ==
  /\ req[r].pc = "check"
  /\ req[r].breaker # None
  /\ Breaker(r).state = "open"
  /\ Breaker(r).age <= Recovery
  /\ Return(r)
  /\ UNCHANGED <<Config, inUse, brk>>

Acquire(r) ==
  /\ req[r].pc = "acquire"
  /\ req[r].limiter # None => inUse[req[r].limiter] < cfg[req[r].limiter].max
  /\ inUse' = [g \in Instances |-> inUse[g] + IF g = req[r].limiter THEN 1 ELSE 0]
  /\ Goto(r, "upstream")
  /\ UNCHANGED <<Config, brk>>

(* Mutant: try again instead of 429. *)
RefuseFullRetry(r) ==
  /\ req[r].pc = "acquire"
  /\ req[r].limiter # None
  /\ inUse[req[r].limiter] >= cfg[req[r].limiter].max
  /\ Goto(r, "check")
  /\ UNCHANGED <<Config, inUse, brk>>

(* 429 *)
RefuseFull(r) ==
  /\ req[r].pc = "acquire"
  /\ req[r].limiter # None
  /\ inUse[req[r].limiter] >= cfg[req[r].limiter].max
  /\ Return(r)
  /\ UNCHANGED <<Config, inUse, brk>>

(* The upstream answers below 500. *)
Answer(r) ==
  /\ req[r].pc = "upstream"
  /\ Goto(r, "succeeded")
  /\ UNCHANGED <<Config, inUse, brk>>

(* It answers 5xx, times out or cannot be reached. *)
Failure(r) ==
  /\ req[r].pc = "upstream"
  /\ Goto(r, "failed")
  /\ UNCHANGED <<Config, inUse, brk>>

(* Mutant: the slot is given back by a plain call at the end. *)
AbortNoRelease(r) ==
  /\ req[r].pc = "upstream"
  /\ Return(r)
  /\ UNCHANGED <<Config, inUse, brk>>

(* ReverseProxy panics when the body breaks off: only the deferred calls run. *)
Abort(r) ==
  /\ req[r].pc = "upstream"
  /\ Leave(r)
  /\ UNCHANGED <<Config, inUse, brk>>

(* Mutant: a success in half-open is not acted upon. *)
RecordSuccessNoClose(r) ==
  /\ req[r].pc = "succeeded"
  /\ brk' = [g \in Instances |->
       IF g = req[r].breaker THEN [brk[g] EXCEPT !.fails = 0] ELSE brk[g]]
  /\ Leave(r)
  /\ UNCHANGED <<Config, inUse>>

RecordSuccess(r) ==
  /\ req[r].pc = "succeeded"
  /\ brk' = [g \in Instances |->
       IF g # req[r].breaker THEN brk[g]
       ELSE [state |-> IF brk[g].state = "halfopen" THEN "closed" ELSE brk[g].state,
             fails |-> 0, age |-> brk[g].age]]
  /\ Leave(r)
  /\ UNCHANGED <<Config, inUse>>

(* Mutant: > for >=. *)
FailedLate(g) ==
  CASE brk[g].state = "closed" ->
         [state |-> IF brk[g].fails + 1 > Threshold(g) THEN "open" ELSE "closed",
          fails |-> brk[g].fails + 1, age |-> 0]
    [] brk[g].state = "halfopen" -> [state |-> "open", fails |-> Threshold(g), age |-> 0]
    [] OTHER -> [brk[g] EXCEPT !.age = 0]

(* The breaker after one more failure; lastFailureTime is read only while  *)
(* it is open, and set whenever it opens, so age is zero otherwise.        *)
Failed(g) ==
  CASE brk[g].state = "closed" ->
         [state |-> IF brk[g].fails + 1 >= Threshold(g) THEN "open" ELSE "closed",
          fails |-> brk[g].fails + 1, age |-> 0]
    [] brk[g].state = "halfopen" -> [state |-> "open", fails |-> Threshold(g), age |-> 0]
    [] OTHER -> [brk[g] EXCEPT !.age = 0]

RecordFailure(r) ==
  /\ req[r].pc = "failed"
  /\ brk' = [g \in Instances |-> IF g = req[r].breaker THEN Failed(g) ELSE brk[g]]
  /\ Leave(r)
  /\ UNCHANGED <<Config, inUse>>

(* The deferred Release. *)
Release(r) ==
  /\ req[r].pc = "release"
  /\ inUse' = [g \in Instances |->
       IF g = req[r].limiter /\ inUse[g] > 0 THEN inUse[g] - 1 ELSE inUse[g]]
  /\ Return(r)
  /\ UNCHANGED <<Config, brk>>

Tick ==
  /\ \E g \in Instances : brk[g].state = "open" /\ brk[g].age <= Recovery
  /\ brk' = [g \in Instances |->
       IF brk[g].state = "open" /\ brk[g].age <= Recovery
       THEN [brk[g] EXCEPT !.age = @ + 1] ELSE brk[g]]
  /\ UNCHANGED <<Config, inUse, req>>

Serve(r) ==
  \/ GetLimiter(r) \/ GetCircuitBreaker(r) \/ Admit(r) \/ AdmitProbe(r) \/ RefuseOpen(r)
  \/ Acquire(r) \/ RefuseFull(r) \/ Answer(r) \/ Failure(r) \/ Abort(r)
  \/ RecordSuccess(r) \/ RecordFailure(r) \/ Release(r)

Next ==
  \/ \E w \in Writers : Reload(w)
  \/ \E r \in Requests : MatchProxy(r) \/ Serve(r)
  \/ Tick

Spec == Init /\ [][Next]_vars

-----------------------------------------------------------------------------
Upstream == {r \in Requests : req[r].pc \in {"upstream", "succeeded", "failed", "release"}}

Holders(g) == {r \in Upstream : req[r].limiter = g}

ReloadOK ==
  /\ table \in Configs \cup {NoConfig}
  /\ reload \in [Writers -> [pc : {"idle", "load", "set"}, config : Configs \cup {NoConfig}]]
  /\ faults \in 0 .. MaxFaults

InstanceOK ==
  /\ current \in Instances
  /\ cfg \in [Instances -> Configs \cup {NoConfig}]
  /\ inUse \in [Instances -> Nat]

BreakerOK ==
  brk \in [Instances -> [state : {"closed", "open", "halfopen"}, fails : Nat, age : Nat]]

ReqOK ==
  req \in [Requests ->
    [ pc : {"idle", "limiter", "breaker", "check", "acquire", "upstream", "succeeded",
            "failed", "release"},
      limiter : Instances \cup {None}, breaker : Instances \cup {None}, probe : BOOLEAN ]]

(* Held control objects exist in the configuration they were made from. *)
HeldOK ==
  \A r \in Requests :
    /\ req[r].limiter # None => HasLimiter(cfg[req[r].limiter])
    /\ req[r].breaker # None => HasBreaker(cfg[req[r].breaker])

TypeOK == ReloadOK /\ InstanceOK /\ BreakerOK /\ ReqOK /\ HeldOK

(* A limiter's slots are those of the requests that hold it, across every  *)
(* refusal, answer, panic and reload: none leaks, none is given back       *)
(* twice, and no more are taken than there are.                            *)
SlotsAccounted ==
  \A g \in Instances :
    /\ inUse[g] = Cardinality(Holders(g))
    /\ HasLimiter(cfg[g]) => inUse[g] <= cfg[g].max

(* A closed breaker has always seen fewer failures in a row than would     *)
(* open it, whoever recorded them and however late.                        *)
ClosedBelowThreshold ==
  \A g \in Instances :
    HasBreaker(cfg[g]) /\ brk[g].state = "closed" => brk[g].fails < Threshold(g)

Reloading == \E w \in Writers : reload[w].pc # "idle"

(* README.md, usage.md: a change of the configuration takes effect.  Once  *)
(* no change is in progress and none failed to be read, the table and the  *)
(* installed instance agree.                                               *)
ReloadCurrent == Reloading \/ faults > 0 \/ cfg[current] = table

-----------------------------------------------------------------------------
(* Handlers run; upstream requests end with the proxy's timeout; time goes on. *)
Fairness ==
  /\ \A r \in Requests : WF_vars(Serve(r))
  /\ WF_vars(Tick)

FairSpec == Spec /\ Fairness

(* Every request gets its response. *)
RequestsEnd == \A r \in Requests : req[r].pc # "idle" ~> req[r].pc = "idle"

(* An upstream that works again is used again: when from some time on no   *)
(* request fails or breaks off, and requests keep coming, the breaker      *)
(* closes.                                                                 *)
Recovers ==
  /\ <>[][~\E r \in Requests : Failure(r) \/ Abort(r)]_vars
  /\ []<><<\E r \in Requests : MatchProxy(r)>>_vars
  => []<>(brk[current].state = "closed")

-----------------------------------------------------------------------------
(* README.md: the requests half-open lets through. *)
ProbeLimit ==
  \A g \in Instances :
    Cardinality({r \in Requests : req[r].breaker = g /\ req[r].probe}) <= HalfOpenRequests
=============================================================================
