---------------------------- MODULE RealtimeNet ----------------------------
(***************************************************************************)
(* What the realtime client of jssdk and the realtime endpoints of         *)
(* pocketless share: event streams (GET /api/realtime) and requests that   *)
(* submit subscriptions (POST /api/realtime), with the network between.    *)
(***************************************************************************)
EXTENDS Naturals

CONSTANTS
  Topics,     \* subscription keys
  Listeners,  \* listener closures, one for each call of subscribe
  Conns,      \* EventSource objects; the server names its client after them
  Posts,      \* names of requests in flight
  Users,      \* signed-in users of the SDK
  Retries,    \* tries of the loop that submits again; 3 in the code
  None,       \* no connection, no request, nobody
  App,        \* the application, as the one that awaits an unsubscribe
  Ordered,    \* requests reach the handler in the order they were sent
  MaxFaults   \* bound: faults of network and server, and changes of the user

ASSUME NetAssumption ==
  /\ None \notin Conns \cup Posts \cup Users
  /\ App \notin Conns \cup Listeners
  /\ Conns \cap Listeners = {}
  /\ Ordered \in BOOLEAN
  /\ Retries \in Nat /\ MaxFaults \in Nat

VARIABLES
  link,    \* whether a stream's connection is up
  stage,   \* how far the server is with a stream
  post,    \* requests that the client waits for or the server works on
  ahead,   \* for a request on the wire, the older ones that are still on it
  faults

netVars == <<link, stage, post, ahead, faults>>

Stages == {"none", "hung", "opening", "registered", "listening", "discarded"}

(* A request: its stream and its topics, who sends it, who awaits it, whether
   they still do, and where it is. *)
Request == [conn : Conns, topics : SUBSET Topics, user : Users \cup {None},
            owner : Conns \cup Listeners \cup {App}, awaited : BOOLEAN,
            at : {"wire", "hook", "accepted", "refused", "lost"}]

ASSUME RequestAssumption == None \notin Request

NetTypeOK ==
  /\ link \in [Conns -> BOOLEAN]
  /\ stage \in [Conns -> Stages]
  /\ post \in [Posts -> Request \cup {None}]
  /\ ahead \in [Posts -> SUBSET Posts]
  /\ faults \in 0..MaxFaults

NetInit ==
  /\ link = [c \in Conns |-> FALSE]
  /\ stage = [c \in Conns |-> "none"]
  /\ post = [p \in Posts |-> None]
  /\ ahead = [p \in Posts |-> {}]
  /\ faults = 0

OnWire == {p \in Posts : post[p] # None /\ post[p].at = "wire"}
OffWire(p) == ahead' = [q \in Posts |-> IF q = p THEN {} ELSE ahead[q] \ {p}]

InFlight == {p \in Posts : post[p] # None}

(* A request nobody awaits and the server is done with is gone. *)
Over(r) == ~r.awaited /\ r.at \in {"accepted", "refused", "lost"}
Settled(r) == IF Over(r) THEN None ELSE r

Update(p, r) == post' = [post EXCEPT ![p] = Settled(r)]

Fault == faults < MaxFaults /\ faults' = faults + 1

(* broker.clientById finds the client. *)
InBroker(c) == stage[c] \in {"registered", "listening", "discarded"}
=============================================================================
