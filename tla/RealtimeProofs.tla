--------------------------- MODULE RealtimeProofs ---------------------------
(***************************************************************************)
(* Theorems about Realtime, for any topics, listeners, streams, requests,   *)
(* users, retries and faults.                                              *)
(***************************************************************************)
EXTENDS Realtime, TLAPS

USE NetAssumption

Subscriptions == [Topics -> SUBSET Listeners]
CallType == [Listeners -> {"idle", "connecting", "submitting", "done", "failed"}]
ChainType == [Conns -> [pc : {"off", "sent", "loop", "finish", "failed"}, left : 0..Retries]]
PostType == [Posts -> Request \cup {None}]

-----------------------------------------------------------------------------
(* What aborting the request of a stream, and submitting, leave well-typed. *)
LEMMA AbortTypes ==
  ASSUME TypeOK, NEW id
  PROVE /\ PostAborted(id) \in PostType
        /\ CallAborted(id) \in CallType
        /\ ChainAborted(id) \in ChainType
<1>1. PostAborted(id) \in PostType
  <2> SUFFICES ASSUME NEW p \in Posts, p \in Cancelled(id)
               PROVE Settled([post[p] EXCEPT !.awaited = FALSE]) \in Request \cup {None}
    BY DEF PostAborted, PostType, TypeOK, NetTypeOK
  <2>1. post[p] \in Request
    BY DEF Cancelled, TypeOK, NetTypeOK
  <2>2. [post[p] EXCEPT !.awaited = FALSE] \in Request
    BY <2>1 DEF Request
  <2> QED
    BY <2>2 DEF Settled
<1>2. CallAborted(id) \in CallType
  BY DEF CallAborted, CallType, TypeOK, ClientTypeOK
<1>3. ChainAborted(id) \in ChainType
  BY DEF ChainAborted, ChainType, TypeOK, ClientTypeOK
<1> QED
  BY <1>1, <1>2, <1>3

SendTyped ==
  /\ NetTypeOK'
  /\ attached' \subseteq Topics \X Listeners /\ lastSent' \subseteq Topics
  /\ auth' = auth /\ acked' \in BOOLEAN

LEMMA SendTypes ==
  ASSUME TypeOK, NEW id \in Conns, NEW s \in Subscriptions,
         NEW o \in Conns \cup Listeners \cup {App}, Send(id, s, o)
  PROVE SendTyped
<1> DEFINE q == CHOOSE q \in FreePosts : TRUE
           r == [conn |-> id, topics |-> Keys(s), user |-> auth, owner |-> o, awaited |-> TRUE, at |-> "wire"]
<1>1. q \in Posts
  BY DEF Send, FreePosts
<1>2. r \in Request
  BY DEF Request, Keys, TypeOK, ClientTypeOK
<1>3. post' \in PostType
  BY <1>1, <1>2, AbortTypes DEF Send, PostType
<1>4. ahead' \in [Posts -> SUBSET Posts]
  BY <1>1 DEF Send, OnWire, TypeOK, NetTypeOK
<1>5. link' = link /\ stage' = stage /\ faults' = faults
  BY DEF Send
<1>6. attached' \subseteq Topics \X Listeners
  BY DEF Send, Pairs, TypeOK, ClientTypeOK
<1>7. lastSent' \subseteq Topics /\ auth' = auth /\ acked' \in BOOLEAN
  BY DEF Send, Keys
<1>8. NetTypeOK'
  BY <1>3, <1>4, <1>5 DEF PostType, TypeOK, NetTypeOK
<1> QED
  BY <1>6, <1>7, <1>8 DEF SendTyped

LEMMA CloseTypes ==
  ASSUME TypeOK, NEW id, Close(id)
  PROVE /\ post' \in PostType /\ ahead' \in [Posts -> SUBSET Posts]
        /\ attached' \subseteq Topics \X Listeners /\ lastSent' \subseteq Topics
        /\ auth' \in Users \cup {None} /\ acked' \in BOOLEAN
        /\ clientId' = None
BY AbortTypes DEF Close, TypeOK, NetTypeOK, ClientTypeOK

LEMMA DisconnectTypes ==
  ASSUME TypeOK, NEW id, NEW outcome \in {"done", "failed"}, Disconnect(id, outcome),
         faults' \in 0..MaxFaults, subs' \in Subscriptions, chain' \in ChainType
  PROVE NetTypeOK' /\ ClientTypeOK'
<1>1. call' \in CallType
  BY AbortTypes DEF Disconnect, CallType, TypeOK, ClientTypeOK
<1>2. link' \in [Conns -> BOOLEAN] /\ stage' \in [Conns -> Stages]
  BY DEF Disconnect, LinkClosed, TypeOK, NetTypeOK
<1>3. Close(id)
  BY DEF Disconnect
<1> QED
  BY <1>1, <1>2, <1>3, CloseTypes
  DEF Disconnect, Subscriptions, CallType, ChainType, PostType, NetTypeOK, ClientTypeOK

LEMMA InitConnectTypes ==
  ASSUME TypeOK, InitConnect, faults' = faults, subs' \in Subscriptions, chain' \in ChainType,
         call' \in CallType, pending' \subseteq Listeners, retrying' = retrying
  PROVE NetTypeOK' /\ ClientTypeOK'
<1> DEFINE c == CHOOSE c \in FreeConns : TRUE
<1>1. c \in Conns
  BY DEF InitConnect, FreeConns
<1>2. link' \in [Conns -> BOOLEAN] /\ stage' \in [Conns -> Stages] /\ es' \in Conns
  BY <1>1 DEF InitConnect, LinkClosed, Stages, TypeOK, NetTypeOK
<1>3. Close(clientId) /\ connectTimer' \in BOOLEAN /\ retryTimer' \in BOOLEAN
  BY DEF InitConnect
<1> QED
  BY <1>2, <1>3, CloseTypes
  DEF Subscriptions, CallType, ChainType, PostType, TypeOK, NetTypeOK, ClientTypeOK

LEMMA ConnectErrorTypes ==
  ASSUME TypeOK, NEW id, ConnectErrorHandler(id), faults' \in 0..MaxFaults, chain' \in ChainType
  PROVE NetTypeOK' /\ ClientTypeOK'
<1>0. subs' \in Subscriptions
  BY DEF ConnectErrorHandler, Subscriptions, TypeOK, ClientTypeOK
<1>1. CASE Disconnect(id, "failed")
  BY <1>0, <1>1, DisconnectTypes
<1>2. CASE ~Disconnect(id, "failed")
  <2>1. call' \in CallType
    BY <1>2, AbortTypes DEF ConnectErrorHandler
  <2>2. link' \in [Conns -> BOOLEAN] /\ stage' \in [Conns -> Stages]
    BY <1>2 DEF ConnectErrorHandler, LinkClosed, TypeOK, NetTypeOK
  <2>3. Close(id)
    BY <1>2 DEF ConnectErrorHandler
  <2>4. es' = None /\ retrying' = TRUE /\ connectTimer' = FALSE /\ retryTimer' = TRUE /\ pending' = pending
    BY <1>2 DEF ConnectErrorHandler
  <2> QED
    BY <1>0, <2>1, <2>2, <2>3, <2>4, CloseTypes
    DEF Subscriptions, CallType, ChainType, PostType, TypeOK, NetTypeOK, ClientTypeOK
<1> QED
  BY <1>1, <1>2

-----------------------------------------------------------------------------
(* Type correctness: the client. *)
LEMMA SubscribeTypes ==
  ASSUME TypeOK, NEW k \in Topics, NEW l \in Listeners, Subscribe(k, l)
  PROVE NetTypeOK' /\ ClientTypeOK'
<1> DEFINE s == [subs EXCEPT ![k] = @ \cup {l}]
<1>0. s \in Subscriptions /\ subs' = s
  BY DEF Subscribe, Subscriptions, TypeOK, ClientTypeOK
<1>a. CallAborted(clientId) \in CallType /\ ChainAborted(clientId) \in ChainType
  BY AbortTypes
<1>1. CASE ~IsConnected /\ Connect(l)
  <2>1. CASE InitConnect /\ pending' = {l} /\ call' = [CallAborted(clientId) EXCEPT ![l] = "connecting"]
             /\ chain' = ChainAborted(clientId) /\ UNCHANGED <<faults, retrying>>
    <3>1. call' \in CallType
      BY <1>a, <2>1 DEF CallType
    <3>2. chain' \in ChainType /\ pending' \subseteq Listeners /\ retrying' = retrying /\ faults' = faults
      BY <1>a, <2>1
    <3>3. InitConnect /\ subs' \in Subscriptions
      BY <1>0, <2>1
    <3> QED
      BY <3>1, <3>2, <3>3, InitConnectTypes
  <2>2. CASE /\ pending' = pending \cup {l} /\ call' = [call EXCEPT ![l] = "connecting"]
             /\ UNCHANGED <<netVars, es, clientId, retrying, connectTimer, retryTimer, attached, lastSent, chain, auth, acked>>
    BY <1>0, <2>2 DEF netVars, Subscriptions, TypeOK, NetTypeOK, ClientTypeOK
  <2>3. CASE /\ call' = [call EXCEPT ![l] = "done"]
             /\ UNCHANGED <<netVars, connVars, attached, lastSent, chain, auth, acked>>
    BY <1>0, <2>3 DEF netVars, connVars, Subscriptions, TypeOK, NetTypeOK, ClientTypeOK
  <2> QED
    BY <1>1, <2>1, <2>2, <2>3 DEF Connect
<1>2. CASE /\ IsConnected /\ Send(clientId, s, l)
           /\ call' = [CallAborted(clientId) EXCEPT ![l] = "submitting"]
           /\ chain' = ChainAborted(clientId) /\ UNCHANGED connVars
  <2>1. clientId \in Conns
    BY <1>2 DEF IsConnected, TypeOK, ClientTypeOK
  <2>2. SendTyped
    BY <1>0, <1>2, <2>1, SendTypes
  <2>3. call' \in CallType /\ chain' \in ChainType
    BY <1>2, <1>a DEF CallType
  <2> QED
    BY <1>0, <1>2, <2>2, <2>3
    DEF SendTyped, connVars, Subscriptions, CallType, ChainType, TypeOK, ClientTypeOK
<1>3. CASE /\ attached' = attached \cup {<<k, l>>} /\ call' = [call EXCEPT ![l] = "done"]
           /\ UNCHANGED <<netVars, connVars, lastSent, chain, auth, acked>>
  BY <1>0, <1>3 DEF netVars, connVars, Subscriptions, TypeOK, NetTypeOK, ClientTypeOK
<1> QED
  BY <1>1, <1>2, <1>3 DEF Subscribe

LEMMA RemoveTypes ==
  ASSUME TypeOK, NEW s \in Subscriptions, Remove(s)
  PROVE NetTypeOK' /\ ClientTypeOK'
<1>0. subs' \in Subscriptions
  BY DEF Remove
<1>a. CallAborted(clientId) \in CallType /\ ChainAborted(clientId) \in ChainType
  BY AbortTypes
<1>1. CASE Disconnect(clientId, "done") /\ chain' = ChainAborted(clientId) /\ UNCHANGED faults
  <2>1. faults' \in 0..MaxFaults /\ chain' \in ChainType
    BY <1>a, <1>1 DEF TypeOK, NetTypeOK
  <2> QED
    BY <1>0, <1>1, <2>1, DisconnectTypes
<1>2. CASE /\ clientId # None /\ Send(clientId, s, App) /\ call' = CallAborted(clientId)
           /\ chain' = ChainAborted(clientId) /\ UNCHANGED connVars
  <2>1. clientId \in Conns
    BY <1>2 DEF TypeOK, ClientTypeOK
  <2>2. SendTyped
    BY <1>2, <2>1, SendTypes
  <2> QED
    BY <1>0, <1>a, <1>2, <2>2
    DEF SendTyped, connVars, Subscriptions, CallType, ChainType, TypeOK, ClientTypeOK
<1>3. CASE /\ attached' = Detached(s)
           /\ UNCHANGED <<netVars, connVars, lastSent, promiseVars, auth, acked>>
  BY <1>0, <1>3
  DEF Detached, netVars, connVars, promiseVars, Subscriptions, TypeOK, NetTypeOK, ClientTypeOK
<1> QED
  BY <1>1, <1>2, <1>3 DEF Remove

(* The subscriptions an unsubscribe leaves. *)
LEMMA RemovedSubs ==
  ASSUME TypeOK
  PROVE /\ \A K \in SUBSET Topics : [k \in Topics |-> IF k \in K THEN {} ELSE subs[k]] \in Subscriptions
        /\ \A k \in Topics, l \in Listeners : [subs EXCEPT ![k] = @ \ {l}] \in Subscriptions
BY DEF Subscriptions, TypeOK, ClientTypeOK

LEMMA CallsTypes ==
  ASSUME TypeOK, Calls
  PROVE NetTypeOK' /\ ClientTypeOK'
<1>1. ASSUME NEW k \in Topics, NEW l \in Listeners, Subscribe(k, l) \/ UnsubscribeListener(k, l)
      PROVE NetTypeOK' /\ ClientTypeOK'
  BY <1>1, SubscribeTypes, RemoveTypes, RemovedSubs DEF UnsubscribeListener
<1>2. ASSUME NEW K \in SUBSET Topics, Unsubscribe(K) \/ UnsubscribeByPrefix(K)
      PROVE NetTypeOK' /\ ClientTypeOK'
  <2>1. Unsubscribe(K)
    BY <1>2 DEF UnsubscribeByPrefix
  <2> QED
    BY <2>1, RemoveTypes, RemovedSubs DEF Unsubscribe
<1>3. ASSUME NEW u \in Users \cup {None}, SignIn(u)
      PROVE NetTypeOK' /\ ClientTypeOK'
  BY <1>3 DEF SignIn, Fault, connVars, promiseVars, TypeOK, NetTypeOK, ClientTypeOK
<1> QED
  BY <1>1, <1>2, <1>3 DEF Calls

(* The promises of a chain, one step at a time. *)
LEMMA ChainTypes ==
  ASSUME TypeOK, NEW c \in Conns, NEW f \in ChainType
  PROVE /\ \A pc \in {"off", "sent", "loop", "finish", "failed"} : Goto(f, c, pc) \in ChainType
        /\ ChainOver(f, c) \in ChainType
        /\ \A n \in 0..Retries : [f EXCEPT ![c] = [pc |-> "sent", left |-> n]] \in ChainType
BY DEF Goto, ChainOver, ChainType

LEMMA TasksTypes ==
  ASSUME TypeOK, Tasks
  PROVE NetTypeOK' /\ ClientTypeOK'
<1>a. /\ CallAborted(clientId) \in CallType /\ ChainAborted(clientId) \in ChainType
      /\ chain \in ChainType /\ subs \in Subscriptions
  BY AbortTypes DEF ChainType, Subscriptions, TypeOK, ClientTypeOK
<1>1. ASSUME NEW c \in Conns, Greet(c) PROVE NetTypeOK' /\ ClientTypeOK'
  <2>1. SendTyped
    BY <1>a, <1>1, SendTypes DEF Greet
  <2>a. Retries \in 0..Retries
    OBVIOUS
  <2>2. chain' \in ChainType
    BY <1>1, <2>a, ChainTypes, AbortTypes DEF Greet
  <2>5. call' \in CallType
    BY <1>1, AbortTypes DEF Greet
  <2>3. es' = c /\ clientId' = c
    BY <1>1 DEF Greet
  <2>4. UNCHANGED <<subs, retrying, connectTimer, retryTimer, pending>>
    BY <1>1 DEF Greet
  <2> QED
    BY <2>1, <2>2, <2>3, <2>4, <2>5 DEF SendTyped, CallType, ChainType, TypeOK, ClientTypeOK
<1>2. ASSUME NEW c \in Conns, ChainRetry(c) PROVE NetTypeOK' /\ ClientTypeOK'
  <2>1. clientId \in Conns
    BY <1>2 DEF ChainRetry, TypeOK, ClientTypeOK
  <2>2. SendTyped
    BY <1>a, <1>2, <2>1, SendTypes DEF ChainRetry
  <2>3. chain[c].left - 1 \in 0..Retries
    BY <1>a, <1>2 DEF ChainRetry, ChainType
  <2>4. chain' \in ChainType /\ call' \in CallType
    BY <1>a, <1>2, <2>3, ChainTypes DEF ChainRetry
  <2> QED
    BY <1>2, <2>2, <2>4 DEF ChainRetry, SendTyped, connVars, CallType, ChainType, TypeOK, ClientTypeOK
<1>3. ASSUME NEW c \in Conns, ChainLeave(c) PROVE NetTypeOK' /\ ClientTypeOK'
  <2>1. chain' \in ChainType
    BY <1>a, <1>3, ChainTypes DEF ChainLeave
  <2> QED
    BY <1>3, <2>1 DEF ChainLeave, netVars, connVars, ChainType, TypeOK, NetTypeOK, ClientTypeOK
<1>4. ASSUME NEW c \in Conns, ChainFinish(c) PROVE NetTypeOK' /\ ClientTypeOK'
  <2>1. chain' \in ChainType
    BY <1>a, <1>4, ChainTypes DEF ChainFinish
  <2>2. call' \in CallType
    BY <1>4 DEF ChainFinish, CallType, TypeOK, ClientTypeOK
  <2> QED
    BY <1>4, <2>1, <2>2 DEF ChainFinish, netVars, CallType, ChainType, TypeOK, NetTypeOK, ClientTypeOK
<1>5. ASSUME NEW c \in Conns, ChainFail(c) PROVE NetTypeOK' /\ ClientTypeOK'
  <2>1. chain' \in ChainType /\ faults' \in 0..MaxFaults
    BY <1>a, <1>5, ChainTypes DEF ChainFail, TypeOK, NetTypeOK
  <2> QED
    BY <1>5, <2>1, ConnectErrorTypes DEF ChainFail
<1>6. ASSUME NEW p \in Posts, Reply(p) PROVE NetTypeOK' /\ ClientTypeOK'
  <2>1. chain' \in ChainType
    BY <1>a, <1>6, ChainTypes DEF Reply
  <2>2. call' \in CallType
    BY <1>6 DEF Reply, CallType, TypeOK, ClientTypeOK
  <2>3. post' \in PostType
    BY <1>6 DEF Reply, PostType, TypeOK, NetTypeOK
  <2>4. acked' \in BOOLEAN
    BY <1>6 DEF Reply, TypeOK, ClientTypeOK
  <2> QED
    BY <1>6, <2>1, <2>2, <2>3, <2>4
    DEF Reply, connVars, CallType, ChainType, PostType, TypeOK, NetTypeOK, ClientTypeOK
<1>7. CASE ConnError \/ ConnectTimeout
  <2>1. chain' \in ChainType /\ faults' \in 0..MaxFaults
    BY <1>a, <1>7 DEF ConnError, ConnectTimeout, Fault, TypeOK, NetTypeOK
  <2> QED
    BY <1>7, <2>1, ConnectErrorTypes DEF ConnError, ConnectTimeout
<1>8. CASE RetryFires
  <2>1. pending' \subseteq Listeners /\ subs' \in Subscriptions
    BY <1>a, <1>8 DEF RetryFires, TypeOK, ClientTypeOK
  <2> QED
    BY <1>a, <1>8, <2>1, InitConnectTypes DEF RetryFires
<1> QED
  BY <1>1, <1>2, <1>3, <1>4, <1>5, <1>6, <1>7, <1>8 DEF Tasks

(* Type correctness: the server. *)
LEMMA UpdateTypes ==
  ASSUME TypeOK, NEW p \in Posts, NEW a \in {"hook", "accepted", "refused", "lost"}, post[p] # None,
         Update(p, [post[p] EXCEPT !.at = a])
  PROVE post' \in PostType
<1>1. post[p] \in Request
  BY DEF TypeOK, NetTypeOK
<1>2. [post[p] EXCEPT !.at = a] \in Request
  BY <1>1 DEF Request
<1>3. Settled([post[p] EXCEPT !.at = a]) \in Request \cup {None}
  BY <1>2 DEF Settled
<1> QED
  BY <1>3 DEF Update, PostType, TypeOK, NetTypeOK

LEMMA ServerTypes ==
  ASSUME TypeOK, ServerNext
  PROVE NetTypeOK' /\ ServerTypeOK'
<1>0. NetTypeOK /\ ServerTypeOK
  BY DEF TypeOK
<1>1. ASSUME NEW c \in Conns, Register(c) \/ Hang(c) \/ Forget(c) \/ Listen(c) \/ Discard(c)
      PROVE NetTypeOK' /\ ServerTypeOK'
  <2>1. stage' \in [Conns -> Stages]
    BY <1>0, <1>1 DEF Register, Hang, Forget, Listen, Discard, To, Stages, NetTypeOK
  <2>2. faults' \in 0..MaxFaults
    BY <1>0, <1>1 DEF Register, Hang, Forget, Listen, Discard, Fault, NetTypeOK
  <2>3. UNCHANGED <<link, post, ahead, serverVars>>
    BY <1>1 DEF Register, Hang, Forget, Listen, Discard
  <2> QED
    BY <1>0, <2>1, <2>2, <2>3 DEF serverVars, NetTypeOK, ServerTypeOK
<1>4. ASSUME NEW c \in Conns, Refuse(c) \/ ConnectFails(c) \/ Unregister(c) \/ LinkFails(c)
      PROVE NetTypeOK' /\ ServerTypeOK'
  <2>1. stage' \in [Conns -> Stages]
    BY <1>0, <1>4 DEF Refuse, ConnectFails, Unregister, LinkFails, To, Stages, NetTypeOK
  <2>2. faults' \in 0..MaxFaults
    BY <1>0, <1>4 DEF Refuse, ConnectFails, Unregister, LinkFails, Fault, NetTypeOK
  <2>3. link' \in [Conns -> BOOLEAN] /\ post' = post /\ ahead' = ahead
    BY <1>0, <1>4 DEF Refuse, ConnectFails, Unregister, LinkFails, NetTypeOK
  <2>4. ServerTypeOK'
    BY <1>0, <1>4 DEF Refuse, ConnectFails, Unregister, LinkFails, serverVars, ServerTypeOK
  <2> QED
    BY <1>0, <2>1, <2>2, <2>3, <2>4 DEF NetTypeOK
<1>2. ASSUME NEW p \in Posts, Begin(p) \/ Finish(p) \/ HookThrows(p) \/ Lose(p)
      PROVE NetTypeOK' /\ ServerTypeOK'
  <2>1. post' \in PostType
    BY <1>2, UpdateTypes DEF Begin, Finish, HookThrows, Lose
  <2>2. ahead' \in [Posts -> SUBSET Posts]
    BY <1>0, <1>2 DEF Begin, Finish, HookThrows, Lose, OffWire, NetTypeOK
  <2>3. post[p] \in Request
    BY <1>0, <1>2 DEF Begin, Finish, HookThrows, Lose, NetTypeOK
  <2>4. ServerTypeOK'
    BY <1>0, <1>2, <2>3 DEF Begin, Finish, HookThrows, Lose, serverVars, ServerTypeOK, Request
  <2>5. link' = link /\ stage' = stage /\ faults' \in 0..MaxFaults
    BY <1>0, <1>2 DEF Begin, Finish, HookThrows, Lose, Fault, NetTypeOK
  <2> QED
    BY <1>0, <2>1, <2>2, <2>4, <2>5 DEF PostType, NetTypeOK
<1>3. CASE Restart
  <2>1. ASSUME NEW p \in Posts, post[p] # None
        PROVE Settled([post[p] EXCEPT !.at = "lost"]) \in Request \cup {None}
    <3>1. [post[p] EXCEPT !.at = "lost"] \in Request
      BY <1>0, <2>1 DEF NetTypeOK, Request
    <3> QED
      BY <3>1 DEF Settled
  <2>2. post' \in PostType
    BY <1>0, <1>3, <2>1 DEF Restart, PostType, NetTypeOK
  <2> QED
    BY <1>0, <1>3, <2>2 DEF Restart, Fault, Stages, PostType, NetTypeOK, ServerTypeOK
<1> QED
  BY <1>1, <1>2, <1>3, <1>4 DEF ServerNext

(* The types of TypeOK are those of every reachable state. *)
THEOREM TypeCorrect == Spec => []TypeOK
<1>1. Init => TypeOK
  <2> SUFFICES ASSUME Init PROVE TypeOK
    OBVIOUS
  <2>1. NetTypeOK
    BY DEF Init, NetInit, NetTypeOK, Stages
  <2>2. ServerTypeOK
    BY DEF Init, ServerInit, ServerTypeOK
  <2>3. chain \in ChainType
    BY DEF Init, ClientInit, ChainType
  <2>4. ClientTypeOK
    BY <2>3 DEF Init, ClientInit, ClientTypeOK, ChainType
  <2> QED
    BY <2>1, <2>2, <2>4 DEF TypeOK
<1>2. TypeOK /\ [Next]_vars => TypeOK'
  <2> SUFFICES ASSUME TypeOK, [Next]_vars PROVE TypeOK'
    OBVIOUS
  <2>1. CASE ClientNext /\ UNCHANGED serverVars
    <3>1. NetTypeOK' /\ ClientTypeOK'
      BY <2>1, CallsTypes, TasksTypes DEF ClientNext
    <3> QED
      BY <2>1, <3>1 DEF TypeOK, ServerTypeOK, serverVars
  <2>2. CASE ServerNext /\ UNCHANGED clientVars
    <3>1. NetTypeOK' /\ ServerTypeOK'
      BY <2>2, ServerTypes
    <3> QED
      BY <2>2, <3>1 DEF TypeOK, ClientTypeOK, clientVars, promiseVars
  <2>3. CASE UNCHANGED vars
    BY <2>3
    DEF vars, netVars, clientVars, promiseVars, serverVars, TypeOK, NetTypeOK, ClientTypeOK, ServerTypeOK
  <2> QED
    BY <2>1, <2>2, <2>3 DEF Next
<1> QED
  BY <1>1, <1>2, PTL DEF Spec

-----------------------------------------------------------------------------
(* The chain of a stream awaits at most one request, and while it awaits one
   it is nowhere else; a stream that has not been greeted has no chain. *)
Waits(p) == post[p] # None /\ post[p].awaited

Owned == \A p \in Posts : Waits(p) /\ post[p].owner \in Conns => chain[post[p].owner].pc = "sent"
Unique == \A p, q \in Posts :
            Waits(p) /\ Waits(q) /\ post[p].owner \in Conns /\ post[q].owner = post[p].owner => p = q
Fresh == es # None /\ clientId = None => chain[es].pc = "off"

ChainInv == Owned /\ Unique /\ Fresh

(* Chains that do not await anything are left alone. *)
Undisturbed(f, g) == \A c \in Conns : f[c].pc # "sent" => g[c] = f[c]

LEMMA AbortWaits ==
  ASSUME TypeOK, NEW id
  PROVE \A p \in Posts : PostAborted(id)[p] # None /\ PostAborted(id)[p].awaited =>
          Waits(p) /\ post[p].conn # id /\ PostAborted(id)[p] = post[p]
<1> SUFFICES ASSUME NEW p \in Posts, p \in Cancelled(id), PostAborted(id)[p] # None
             PROVE ~PostAborted(id)[p].awaited
  BY DEF PostAborted, Cancelled, Waits
<1>1. post[p] \in Request
  BY DEF Cancelled, TypeOK, NetTypeOK
<1>2. ~[post[p] EXCEPT !.awaited = FALSE].awaited
  BY <1>1 DEF Request
<1> QED
  BY <1>2 DEF PostAborted, Settled

LEMMA AbortChain ==
  ASSUME TypeOK, ChainInv, NEW id
  PROVE /\ Undisturbed(chain, ChainAborted(id))
        /\ \A p \in Posts : Waits(p) /\ post[p].conn # id /\ post[p].owner \in Conns =>
             ChainAborted(id)[post[p].owner].pc = "sent"
<1>1. \A c \in Conns : c \in Woken(id) => chain[c].pc = "sent"
  BY DEF Woken, Cancelled, ChainInv, Owned, Waits
<1>2. \A p \in Posts : Waits(p) /\ post[p].conn # id /\ post[p].owner \in Conns => post[p].owner \notin Woken(id)
  BY DEF Woken, Cancelled, ChainInv, Unique, Waits
<1> QED
  BY <1>1, <1>2 DEF ChainAborted, Undisturbed, ChainInv, Owned

LEMMA CloseChain ==
  ASSUME TypeOK, ChainInv, NEW id, post' = PostAborted(id), chain' = ChainAborted(id)
  PROVE Owned' /\ Unique' /\ Undisturbed(chain, chain')
<1>1. \A p \in Posts : Waits(p)' => Waits(p) /\ post[p].conn # id /\ post'[p] = post[p]
  BY AbortWaits DEF Waits
<1>2. Owned'
  BY <1>1, AbortChain DEF Owned
<1>3. Unique'
  <2> SUFFICES ASSUME NEW a \in Posts, NEW b \in Posts, Waits(a)', Waits(b)',
                      post'[a].owner \in Conns, post'[b].owner = post'[a].owner
               PROVE a = b
    BY DEF Unique
  <2>1. Waits(a) /\ Waits(b) /\ post'[a] = post[a] /\ post'[b] = post[b]
    BY <1>1
  <2> QED
    BY <2>1 DEF ChainInv, Unique
<1> QED
  BY <1>2, <1>3, AbortChain

(* What a submission does to the requests. *)
LEMMA SendWaits ==
  ASSUME TypeOK, NEW id, NEW s, NEW o, Send(id, s, o)
  PROVE \E q \in Posts :
          /\ post[q] = None
          /\ post'[q] = [conn |-> id, topics |-> Keys(s), user |-> auth, owner |-> o,
                         awaited |-> TRUE, at |-> "wire"]
          /\ ahead' = [ahead EXCEPT ![q] = OnWire]
          /\ \A p \in Posts \ {q} : post'[p] = PostAborted(id)[p]
          /\ \A p \in Posts \ {q} : Waits(p)' => Waits(p) /\ post[p].conn # id /\ post'[p] = post[p]
<1> DEFINE q == CHOOSE q \in FreePosts : TRUE
<1>1. q \in Posts /\ post[q] = None
  BY DEF Send, FreePosts
<1>2. post' = [PostAborted(id) EXCEPT ![q] =
        [conn |-> id, topics |-> Keys(s), user |-> auth, owner |-> o, awaited |-> TRUE, at |-> "wire"]]
  BY DEF Send
<1>3. DOMAIN PostAborted(id) = Posts
  BY DEF PostAborted
<1>4. \A p \in Posts \ {q} : post'[p] = PostAborted(id)[p]
  BY <1>1, <1>2, <1>3
<1>5. \A p \in Posts \ {q} : Waits(p)' => Waits(p) /\ post[p].conn # id /\ post'[p] = post[p]
  BY <1>4, AbortWaits DEF Waits
<1>6. post'[q] = [conn |-> id, topics |-> Keys(s), user |-> auth, owner |-> o,
                  awaited |-> TRUE, at |-> "wire"]
  BY <1>1, <1>2, <1>3
<1>7. ahead' = [ahead EXCEPT ![q] = OnWire]
  BY DEF Send
<1> QED
  BY <1>1, <1>4, <1>5, <1>6, <1>7

LEMMA SendChain ==
  ASSUME TypeOK, ChainInv, NEW id, NEW s, NEW o \in Listeners \cup {App}, Send(id, s, o),
         chain' = ChainAborted(id)
  PROVE Owned' /\ Unique' /\ Undisturbed(chain, chain')
<1>0. PICK q \in Posts :
        /\ post'[q] = [conn |-> id, topics |-> Keys(s), user |-> auth, owner |-> o,
                       awaited |-> TRUE, at |-> "wire"]
        /\ \A p \in Posts \ {q} : Waits(p)' => Waits(p) /\ post[p].conn # id /\ post'[p] = post[p]
  BY SendWaits
<1>1. /\ post'[q].owner = o
      /\ \A p \in Posts \ {q} : Waits(p)' => Waits(p) /\ post[p].conn # id /\ post'[p] = post[p]
  BY <1>0
<1>2. o \notin Conns
  OBVIOUS
<1>3. Owned'
  BY <1>1, <1>2, AbortChain DEF Owned
<1>4. Unique'
  <2> SUFFICES ASSUME NEW a \in Posts, NEW b \in Posts, Waits(a)', Waits(b)',
                      post'[a].owner \in Conns, post'[b].owner = post'[a].owner
               PROVE a = b
    BY DEF Unique
  <2>1. a # q /\ b # q
    BY <1>1, <1>2
  <2>2. Waits(a) /\ Waits(b) /\ post'[a] = post[a] /\ post'[b] = post[b]
    BY <1>1, <2>1
  <2> QED
    BY <2>2 DEF ChainInv, Unique
<1> QED
  BY <1>3, <1>4, AbortChain

LEMMA SendOwnChain ==
  ASSUME TypeOK, ChainInv, NEW id, NEW s, NEW c \in Conns, Send(id, s, c), chain[c].pc # "sent",
         NEW n, chain' = [ChainAborted(id) EXCEPT ![c] = [pc |-> "sent", left |-> n]]
  PROVE /\ Owned' /\ Unique' /\ chain'[c].pc = "sent"
        /\ \A d \in Conns \ {c} : chain[d].pc # "sent" => chain'[d] = chain[d]
<1>0. PICK q \in Posts :
        /\ post'[q] = [conn |-> id, topics |-> Keys(s), user |-> auth, owner |-> c,
                       awaited |-> TRUE, at |-> "wire"]
        /\ \A p \in Posts \ {q} : Waits(p)' => Waits(p) /\ post[p].conn # id /\ post'[p] = post[p]
  BY SendWaits
<1>1. /\ post'[q].owner = c
      /\ \A p \in Posts \ {q} : Waits(p)' => Waits(p) /\ post[p].conn # id /\ post'[p] = post[p]
  BY <1>0
<1>2. DOMAIN ChainAborted(id) = Conns
  BY DEF ChainAborted
<1>3. chain'[c].pc = "sent" /\ \A d \in Conns \ {c} : chain'[d] = ChainAborted(id)[d]
  BY <1>2
<1>4. \A p \in Posts \ {q} : Waits(p)' => post'[p].owner # c
  BY <1>1 DEF ChainInv, Owned
<1>5. Owned'
  BY <1>1, <1>3, <1>4, AbortChain DEF Owned
<1>6. Unique'
  <2> SUFFICES ASSUME NEW a \in Posts, NEW b \in Posts, Waits(a)', Waits(b)',
                      post'[a].owner \in Conns, post'[b].owner = post'[a].owner
               PROVE a = b
    BY DEF Unique
  <2>1. CASE a # q /\ b # q
    <3>1. Waits(a) /\ Waits(b) /\ post'[a] = post[a] /\ post'[b] = post[b]
      BY <1>1, <2>1
    <3> QED
      BY <3>1 DEF ChainInv, Unique
  <2>2. CASE a = q \/ b = q
    BY <1>1, <1>4, <2>2
  <2> QED
    BY <2>1, <2>2 DEF ChainInv, Unique
<1> QED
  BY <1>3, <1>5, <1>6, AbortChain DEF Undisturbed

LEMMA InitConnectFresh ==
  ASSUME TypeOK, ChainInv, InitConnect, chain' = ChainAborted(clientId)
  PROVE ChainInv' /\ connectTimer' = TRUE /\ Undisturbed(chain, chain')
<1> DEFINE c == CHOOSE c \in FreeConns : TRUE
<1>1. c \in Conns /\ chain[c].pc = "off" /\ es' = c
  BY DEF InitConnect, FreeConns
<1>2. Owned' /\ Unique' /\ Undisturbed(chain, chain')
  BY CloseChain DEF InitConnect, Close
<1>3. chain'[c].pc = "off"
  BY <1>1, <1>2 DEF Undisturbed
<1>4. connectTimer' = TRUE
  BY DEF InitConnect
<1> QED
  BY <1>1, <1>2, <1>3, <1>4 DEF ChainInv, Fresh

LEMMA ConnectErrorChain ==
  ASSUME TypeOK, ChainInv, NEW id, ConnectErrorHandler(id), Owned', Unique'
  PROVE ChainInv' /\ WaitGuarded'
<1>1. es' = None /\ (pending' = {} \/ retryTimer' = TRUE)
  BY DEF ConnectErrorHandler, Disconnect
<1> QED
  BY <1>1 DEF ChainInv, Fresh, WaitGuarded

(* What both invariants need of a step that leaves the timers and the calls that
   wait as they are. *)
LEMMA GuardKept ==
  ASSUME WaitGuarded, UNCHANGED <<connectTimer, retryTimer, pending>>,
         \/ Undisturbed(chain, chain')
         \/ Quiet
  PROVE WaitGuarded'
BY DEF WaitGuarded, Undisturbed, Quiet

LEMMA CallsChain ==
  ASSUME TypeOK, ChainInv, WaitGuarded, Calls
  PROVE ChainInv' /\ WaitGuarded'
<1>1. ASSUME NEW s, Remove(s) PROVE ChainInv' /\ WaitGuarded'
  <2>1. CASE Disconnect(clientId, "done") /\ chain' = ChainAborted(clientId)
    <3>1. Owned' /\ Unique'
      BY <2>1, CloseChain DEF Disconnect, Close
    <3> QED
      BY <2>1, <3>1 DEF Disconnect, ChainInv, Fresh, WaitGuarded
  <2>2. CASE /\ clientId # None /\ Send(clientId, s, App)
             /\ chain' = ChainAborted(clientId) /\ UNCHANGED connVars
    <3>1. Owned' /\ Unique' /\ Undisturbed(chain, chain')
      BY <2>2, SendChain
    <3> QED
      BY <2>2, <3>1, GuardKept DEF connVars, ChainInv, Fresh
  <2>3. CASE UNCHANGED <<netVars, connVars, promiseVars>>
    BY <2>3 DEF netVars, connVars, promiseVars, ChainInv, Owned, Unique, Fresh, WaitGuarded, Waits
  <2> QED
    BY <1>1, <2>1, <2>2, <2>3 DEF Remove
<1>2. ASSUME NEW k \in Topics, NEW l \in Listeners, Subscribe(k, l)
      PROVE ChainInv' /\ WaitGuarded'
  <2>1. CASE InitConnect /\ chain' = ChainAborted(clientId)
    BY <2>1, InitConnectFresh DEF WaitGuarded
  <2>2. CASE /\ pending # {} /\ UNCHANGED <<netVars, es, clientId, connectTimer, retryTimer, chain>>
    BY <2>2 DEF netVars, ChainInv, Owned, Unique, Fresh, WaitGuarded, Waits
  <2>3. CASE UNCHANGED <<netVars, connVars, chain>>
    BY <2>3 DEF netVars, connVars, ChainInv, Owned, Unique, Fresh, WaitGuarded, Waits
  <2>4. CASE /\ IsConnected /\ Send(clientId, [subs EXCEPT ![k] = @ \cup {l}], l)
             /\ chain' = ChainAborted(clientId) /\ UNCHANGED connVars
    <3>1. Owned' /\ Unique' /\ Undisturbed(chain, chain')
      BY <2>4, SendChain
    <3> QED
      BY <2>4, <3>1, GuardKept DEF IsConnected, connVars, ChainInv, Fresh
  <2> QED
    BY <1>2, <2>1, <2>2, <2>3, <2>4 DEF Subscribe, Connect
<1>3. ASSUME NEW u, SignIn(u) PROVE ChainInv' /\ WaitGuarded'
  BY <1>3 DEF SignIn, connVars, promiseVars, ChainInv, Owned, Unique, Fresh, WaitGuarded, Waits
<1> QED
  BY <1>1, <1>2, <1>3 DEF Calls, UnsubscribeListener, UnsubscribeByPrefix, Unsubscribe

LEMMA TasksChain ==
  ASSUME TypeOK, ChainInv, WaitGuarded, Tasks
  PROVE ChainInv' /\ WaitGuarded'
<1>1. ASSUME NEW c \in Conns, Greet(c) PROVE ChainInv' /\ WaitGuarded'
  <2>1. chain[c].pc = "off" /\ c # None
    BY <1>1 DEF Greet, ChainInv, Fresh
  <2>2. Send(c, subs, c) /\ chain' = [ChainAborted(c) EXCEPT ![c] = [pc |-> "sent", left |-> Retries]]
    BY <1>1 DEF Greet
  <2>3. Owned' /\ Unique'
    BY <2>1, <2>2, SendOwnChain
  <2>4. WaitGuarded'
    BY <1>1, GuardKept DEF Greet
  <2>5. clientId' # None
    BY <1>1, <2>1 DEF Greet
  <2> QED
    BY <2>3, <2>4, <2>5 DEF ChainInv, Fresh
<1>2. ASSUME NEW c \in Conns, ChainRetry(c) PROVE ChainInv' /\ WaitGuarded'
  <2>1. /\ Owned' /\ Unique'
        /\ \A d \in Conns \ {c} : chain[d].pc # "sent" => chain'[d] = chain[d]
    BY <1>2, SendOwnChain DEF ChainRetry
  <2>2. WaitGuarded'
    BY <1>2, <2>1 DEF ChainRetry, connVars, WaitGuarded
  <2> QED
    BY <1>2, <2>1, <2>2 DEF ChainRetry, connVars, ChainInv, Fresh
<1>3. ASSUME NEW c \in Conns, ChainLeave(c) \/ ChainFinish(c) PROVE ChainInv' /\ WaitGuarded'
  <2>1. /\ chain \in ChainType /\ chain[c].pc \in {"loop", "finish"} /\ chain'[c].pc \in {"off", "finish"}
        /\ \A d \in Conns \ {c} : chain'[d] = chain[d]
        /\ chain[c].pc = "loop" => chain'[c].pc = "finish"
        /\ chain[c].pc = "finish" => chain'[c].pc = "off"
    BY <1>3 DEF ChainLeave, ChainFinish, Goto, ChainOver, ChainType, TypeOK, ClientTypeOK
  <2>2. Owned' /\ Unique'
    BY <1>3, <2>1 DEF ChainLeave, ChainFinish, netVars, ChainInv, Owned, Unique, Waits
  <2>3. Fresh'
    <3>1. es' = es /\ clientId' = clientId
      BY <1>3 DEF ChainLeave, ChainFinish, connVars
    <3>2. es \in Conns \cup {None}
      BY DEF TypeOK, ClientTypeOK
    <3> QED
      BY <2>1, <3>1, <3>2 DEF ChainInv, Fresh
  <2>4. WaitGuarded'
    BY <1>3, <2>1 DEF ChainLeave, ChainFinish, connVars, WaitGuarded
  <2> QED
    BY <2>2, <2>3, <2>4 DEF ChainInv
<1>4. ASSUME NEW c \in Conns, ChainFail(c) PROVE ChainInv' /\ WaitGuarded'
  <2>1. PostAborted(None) = post
    <3>1. Cancelled(None) = {}
      BY DEF Cancelled, TypeOK, NetTypeOK, Request
    <3> QED
      BY <3>1 DEF PostAborted, TypeOK, NetTypeOK
  <2>2. post' = post
    BY <1>4, <2>1 DEF ChainFail, ConnectErrorHandler, Disconnect, Close
  <2>3. \A d \in Conns \ {c} : chain'[d] = chain[d]
    BY <1>4 DEF ChainFail, ChainOver, TypeOK, ClientTypeOK
  <2>4. Owned' /\ Unique'
    BY <1>4, <2>2, <2>3 DEF ChainFail, ChainInv, Owned, Unique, Waits
  <2> QED
    BY <1>4, <2>4, ConnectErrorChain DEF ChainFail
<1>5. ASSUME NEW p \in Posts, Reply(p) PROVE ChainInv' /\ WaitGuarded'
  <2>1. Waits(p) /\ post' = [post EXCEPT ![p] = None] /\ Quiet
    BY <1>5 DEF Reply, Waits
  <2>2. \A q \in Posts : Waits(q)' => q # p /\ Waits(q) /\ post'[q] = post[q]
    BY <2>1 DEF Waits, TypeOK, NetTypeOK
  <2>3. \A d \in Conns : d # post[p].owner => chain'[d] = chain[d]
    BY <1>5 DEF Reply, Goto, TypeOK, ClientTypeOK
  <2>4. Owned'
    BY <2>1, <2>2, <2>3 DEF ChainInv, Owned, Unique
  <2>5. Unique'
    BY <2>2 DEF ChainInv, Unique
  <2>6. Undisturbed(chain, chain')
    BY <2>1, <2>3 DEF ChainInv, Owned, Undisturbed
  <2>7. Fresh'
    BY <1>5, <2>6 DEF Reply, connVars, ChainInv, Fresh, Undisturbed, TypeOK, ClientTypeOK
  <2>8. WaitGuarded'
    BY <1>5, <2>1, GuardKept DEF Reply, connVars
  <2> QED
    BY <2>4, <2>5, <2>7, <2>8 DEF ChainInv
<1>6. CASE ConnError \/ ConnectTimeout
  <2>1. post' = PostAborted(clientId) /\ chain' = ChainAborted(clientId) /\ ConnectErrorHandler(clientId)
    BY <1>6 DEF ConnError, ConnectTimeout, ConnectErrorHandler, Disconnect, Close
  <2> QED
    BY <2>1, CloseChain, ConnectErrorChain
<1>7. CASE RetryFires
  BY <1>7, InitConnectFresh DEF RetryFires, WaitGuarded
<1> QED
  BY <1>1, <1>2, <1>3, <1>4, <1>5, <1>6, <1>7 DEF Tasks

(* The server never makes anybody wait. *)
LEMMA ServerWaits ==
  ASSUME TypeOK, ServerNext
  PROVE \A q \in Posts : Waits(q)' =>
          /\ Waits(q) /\ post'[q].owner = post[q].owner /\ post'[q].conn = post[q].conn
          /\ post'[q].topics = post[q].topics
<1>0. \A q \in Posts : post[q] # None => post[q] \in Request
  BY DEF TypeOK, NetTypeOK
<1>1. ASSUME NEW p \in Posts, NEW a, post[p] # None, Update(p, [post[p] EXCEPT !.at = a])
      PROVE \A q \in Posts : Waits(q)' =>
              /\ Waits(q) /\ post'[q].owner = post[q].owner /\ post'[q].conn = post[q].conn
              /\ post'[q].topics = post[q].topics
  BY <1>0, <1>1 DEF Update, Settled, Waits, Request, TypeOK, NetTypeOK
<1>2. ASSUME NEW p \in Posts, Begin(p) \/ Finish(p) \/ HookThrows(p) \/ Lose(p)
      PROVE post[p] # None /\ \E a : Update(p, [post[p] EXCEPT !.at = a])
  BY <1>2 DEF Begin, Finish, HookThrows, Lose
<1>3. CASE Restart
  BY <1>0, <1>3 DEF Restart, Settled, Waits, Request
<1>4. ASSUME NEW c \in Conns,
             \/ Register(c) \/ Refuse(c) \/ ConnectFails(c) \/ Hang(c) \/ Forget(c) \/ Listen(c)
             \/ Discard(c) \/ Unregister(c) \/ LinkFails(c)
      PROVE post' = post
  BY <1>4
  DEF Register, Refuse, ConnectFails, Hang, Forget, Listen, Discard, Unregister, LinkFails
<1> QED
  BY <1>1, <1>2, <1>3, <1>4 DEF ServerNext, Waits

(* A call of subscribe that waits always has something that ends it. *)
THEOREM WaitingIsGuarded == Spec => []WaitGuarded
<1>1. Init => ChainInv /\ WaitGuarded
  BY DEF Init, NetInit, ClientInit, ChainInv, Owned, Unique, Fresh, WaitGuarded, Waits
<1>2. TypeOK /\ ChainInv /\ WaitGuarded /\ [Next]_vars => ChainInv' /\ WaitGuarded'
  <2> SUFFICES ASSUME TypeOK, ChainInv, WaitGuarded, [Next]_vars PROVE ChainInv' /\ WaitGuarded'
    OBVIOUS
  <2>1. CASE ClientNext
    BY <2>1, CallsChain, TasksChain DEF ClientNext
  <2>2. CASE ServerNext /\ UNCHANGED clientVars
    <3>1. Owned' /\ Unique'
      BY <2>2, ServerWaits DEF clientVars, promiseVars, ChainInv, Owned, Unique
    <3> QED
      BY <2>2, <3>1 DEF clientVars, promiseVars, ChainInv, Fresh, WaitGuarded
  <2>3. CASE UNCHANGED vars
    BY <2>3 DEF vars, netVars, clientVars, promiseVars, ChainInv, Owned, Unique, Fresh, WaitGuarded, Waits
  <2> QED
    BY <2>1, <2>2, <2>3 DEF Next
<1> QED
  BY <1>1, <1>2, TypeCorrect, PTL DEF Spec

-----------------------------------------------------------------------------
(* Nobody is left behind.  A request that is aborted wakes whom it kept      *)
(* waiting, every other stays awaited until its answer.                      *)
AwaitedBy(p, o) == post[p] # None /\ post[p].awaited /\ post[p].owner = o

LEMMA AbortSpares ==
  ASSUME TypeOK, NEW id, NEW o, Awaited(o), o \notin Woken(id)
  PROVE  \E p \in Posts : AwaitedBy(p, o) /\ PostAborted(id)[p] = post[p]
<1>1. PICK p \in Posts : AwaitedBy(p, o)
  BY DEF Awaited, InFlight, AwaitedBy
<1>2. p \notin Cancelled(id)
  BY <1>1 DEF Woken, AwaitedBy
<1> QED
  BY <1>1, <1>2 DEF PostAborted

LEMMA CloseAttended ==
  ASSUME TypeOK, Attended, NEW id, post' = PostAborted(id),
         \A c \in Conns : chain'[c].pc = "sent" => chain[c].pc = "sent" /\ c \notin Woken(id),
         \A l \in Listeners : /\ call'[l] = "submitting" => call[l] = "submitting" /\ l \notin Woken(id)
                              /\ call'[l] = "connecting" => l \in pending'
  PROVE  Attended'
<1>1. ASSUME NEW o, Awaited(o), o \notin Woken(id) PROVE Awaited(o)'
  BY <1>1, AbortSpares DEF Awaited, InFlight, AwaitedBy
<1>2. ASSUME NEW c \in Conns, chain'[c].pc = "sent" PROVE Awaited(c)'
  BY <1>1, <1>2 DEF Attended
<1>3. ASSUME NEW l \in Listeners, call'[l] = "submitting" PROVE Awaited(l)'
  BY <1>1, <1>3 DEF Attended
<1> QED
  BY <1>2, <1>3 DEF Attended

(* A submission takes the place of the one it aborts; o awaits it. *)
LEMMA SendAttended ==
  ASSUME TypeOK, Attended, NEW id \in Conns, NEW s, NEW o \in Conns \cup Listeners \cup {App},
         Send(id, s, o),
         \A c \in Conns : chain'[c].pc = "sent" => c = o \/ (chain[c].pc = "sent" /\ c \notin Woken(id)),
         \A l \in Listeners :
            /\ call'[l] = "submitting" => l = o \/ (call[l] = "submitting" /\ l \notin Woken(id))
            /\ call'[l] = "connecting" => l \in pending'
  PROVE  Attended'
<1>1. PICK q \in Posts :
        /\ post[q] = None
        /\ post'[q] = [conn |-> id, topics |-> Keys(s), user |-> auth, owner |-> o,
                       awaited |-> TRUE, at |-> "wire"]
        /\ \A p \in Posts \ {q} : post'[p] = PostAborted(id)[p]
  BY SendWaits
<1>2. Awaited(o)'
  <2>1. post'[q] \in Request /\ post'[q].awaited /\ post'[q].owner = o
    BY <1>1 DEF Request, Keys, TypeOK, ClientTypeOK
  <2> QED
    BY <2>1, RequestAssumption DEF Awaited, InFlight
<1>3. ASSUME NEW w, Awaited(w), w \notin Woken(id) PROVE Awaited(w)'
  <2>1. PICK p \in Posts : AwaitedBy(p, w) /\ PostAborted(id)[p] = post[p]
    BY <1>3, AbortSpares
  <2>2. p # q /\ post'[p] = post[p]
    BY <1>1, <2>1 DEF AwaitedBy
  <2> QED
    BY <2>1, <2>2 DEF AwaitedBy, Awaited, InFlight
<1>4. ASSUME NEW c \in Conns, chain'[c].pc = "sent" PROVE Awaited(c)'
  BY <1>2, <1>3, <1>4 DEF Attended
<1>5. ASSUME NEW l \in Listeners, call'[l] = "submitting" PROVE Awaited(l)'
  BY <1>2, <1>3, <1>5 DEF Attended
<1> QED
  BY <1>4, <1>5 DEF Attended

(* No request begins or ends for the client. *)
LEMMA SameAttended ==
  ASSUME Attended, post' = post,
         \A c \in Conns : chain'[c].pc = "sent" => chain[c].pc = "sent",
         \A l \in Listeners : /\ call'[l] = "submitting" => call[l] = "submitting"
                              /\ call'[l] = "connecting" => l \in pending'
  PROVE  Attended'
BY DEF Attended, Awaited, InFlight

(* Who is woken waits for nothing any more. *)
LEMMA AbortWakes ==
  ASSUME TypeOK, NEW id
  PROVE  /\ \A c \in Conns : ChainAborted(id)[c].pc = "sent" => chain[c].pc = "sent" /\ c \notin Woken(id)
         /\ \A l \in Listeners :
              /\ CallAborted(id)[l] = "submitting" => call[l] = "submitting" /\ l \notin Woken(id)
              /\ CallAborted(id)[l] = "connecting" => call[l] = "connecting"
<1>1. \A c \in Conns : chain[c] \in [pc : {"off", "sent", "loop", "finish", "failed"}, left : 0..Retries]
  BY DEF TypeOK, ClientTypeOK
<1>2. \A c \in Conns : c \in Woken(id) => ChainAborted(id)[c].pc = "loop"
  BY <1>1 DEF ChainAborted
<1>3. \A c \in Conns : c \notin Woken(id) => ChainAborted(id)[c] = chain[c]
  BY DEF ChainAborted
<1> QED
  BY <1>2, <1>3 DEF CallAborted

LEMMA DisconnectAttended ==
  ASSUME TypeOK, Attended, NEW id, NEW outcome \in {"done", "failed"}, Disconnect(id, outcome),
         \A c \in Conns : chain'[c].pc = "sent" => chain[c].pc = "sent" /\ c \notin Woken(id)
  PROVE  Attended'
<1>1. \A l \in Listeners : call'[l] = IF l \in pending THEN outcome ELSE CallAborted(id)[l]
  BY DEF Disconnect
<1>2. \A l \in Listeners : call[l] = "connecting" => l \in pending
  BY DEF Attended
<1>3. \A l \in Listeners : /\ call'[l] = "submitting" => call[l] = "submitting" /\ l \notin Woken(id)
                           /\ call'[l] # "connecting"
  BY <1>1, <1>2, AbortWakes
<1>4. post' = PostAborted(id)
  BY DEF Disconnect, Close
<1> QED
  BY <1>3, <1>4, CloseAttended

LEMMA ErrorAttended ==
  ASSUME TypeOK, Attended, NEW id, ConnectErrorHandler(id),
         \A c \in Conns : chain'[c].pc = "sent" => chain[c].pc = "sent" /\ c \notin Woken(id)
  PROVE  Attended'
<1>1. CASE Disconnect(id, "failed")
  BY <1>1, DisconnectAttended
<1>2. CASE Close(id) /\ call' = CallAborted(id) /\ UNCHANGED pending
  <2>1. \A l \in Listeners : /\ call'[l] = "submitting" => call[l] = "submitting" /\ l \notin Woken(id)
                             /\ call'[l] = "connecting" => l \in pending'
    BY <1>2, AbortWakes DEF Attended
  <2> QED
    BY <1>2, <2>1, CloseAttended DEF Close
<1> QED
  BY <1>1, <1>2 DEF ConnectErrorHandler

LEMMA CallsAttended ==
  ASSUME TypeOK, Attended, Calls
  PROVE  Attended'
<1>1. ASSUME NEW s, Remove(s) PROVE Attended'
  <2>1. CASE Disconnect(clientId, "done") /\ chain' = ChainAborted(clientId)
    BY <2>1, DisconnectAttended, AbortWakes
  <2>2. CASE /\ clientId # None /\ Send(clientId, s, App) /\ call' = CallAborted(clientId)
             /\ chain' = ChainAborted(clientId) /\ UNCHANGED connVars
    <3>0. clientId \in Conns
      BY <2>2 DEF TypeOK, ClientTypeOK
    <3>1. \A l \in Listeners : /\ call'[l] = "submitting" => call[l] = "submitting" /\ l \notin Woken(clientId)
                               /\ call'[l] = "connecting" => l \in pending'
      BY <2>2, AbortWakes DEF Attended, connVars
    <3>2. \A c \in Conns : chain'[c].pc = "sent" => chain[c].pc = "sent" /\ c \notin Woken(clientId)
      BY <2>2, AbortWakes
    <3> QED
      BY <2>2, <3>0, <3>1, <3>2, SendAttended
  <2>3. CASE UNCHANGED <<netVars, connVars, promiseVars>>
    BY <2>3, SameAttended DEF netVars, connVars, promiseVars, Attended
  <2> QED
    BY <1>1, <2>1, <2>2, <2>3 DEF Remove
<1>2. ASSUME NEW k \in Topics, NEW l \in Listeners, Subscribe(k, l) PROVE Attended'
  <2> DEFINE s == [subs EXCEPT ![k] = @ \cup {l}]
  <2>0. call \in CallType
    BY DEF TypeOK, ClientTypeOK, CallType
  <2>1. CASE /\ InitConnect /\ pending = {} /\ pending' = {l} /\ chain' = ChainAborted(clientId)
             /\ call' = [CallAborted(clientId) EXCEPT ![l] = "connecting"]
    <3>1. \A m \in Listeners : call'[m] = IF m = l THEN "connecting" ELSE CallAborted(clientId)[m]
      BY <2>1 DEF CallAborted
    <3>2. \A m \in Listeners :
            /\ call'[m] = "submitting" => call[m] = "submitting" /\ m \notin Woken(clientId)
            /\ call'[m] = "connecting" => m \in pending'
      BY <2>1, <3>1, AbortWakes DEF Attended
    <3>3. \A c \in Conns : chain'[c].pc = "sent" => chain[c].pc = "sent" /\ c \notin Woken(clientId)
      BY <2>1, AbortWakes
    <3> QED
      BY <2>1, <3>2, <3>3, CloseAttended DEF InitConnect, Close
  <2>2. CASE /\ pending' = pending \cup {l} /\ call' = [call EXCEPT ![l] = "connecting"]
             /\ UNCHANGED <<netVars, chain>>
    BY <2>0, <2>2, SameAttended DEF netVars, Attended, CallType
  <2>3. CASE call' = [call EXCEPT ![l] = "done"] /\ UNCHANGED <<netVars, pending, chain>>
    BY <2>0, <2>3, SameAttended DEF netVars, Attended, CallType
  <2>4. CASE /\ IsConnected /\ Send(clientId, s, l) /\ call' = [CallAborted(clientId) EXCEPT ![l] = "submitting"]
             /\ chain' = ChainAborted(clientId) /\ UNCHANGED connVars
    <3>1. \A m \in Listeners : call'[m] = IF m = l THEN "submitting" ELSE CallAborted(clientId)[m]
      BY <2>4 DEF CallAborted
    <3>2. \A m \in Listeners :
            /\ call'[m] = "submitting" => m = l \/ (call[m] = "submitting" /\ m \notin Woken(clientId))
            /\ call'[m] = "connecting" => m \in pending'
      BY <2>4, <3>1, AbortWakes DEF Attended, connVars
    <3>3. \A c \in Conns : chain'[c].pc = "sent" => chain[c].pc = "sent" /\ c \notin Woken(clientId)
      BY <2>4, AbortWakes
    <3>4. clientId \in Conns
      BY <2>4 DEF IsConnected, TypeOK, ClientTypeOK
    <3> HIDE DEF s
    <3> QED
      BY <2>4, <3>2, <3>3, <3>4, SendAttended
  <2> QED
    BY <1>2, <2>1, <2>2, <2>3, <2>4 DEF Subscribe, Connect, connVars
<1>3. ASSUME NEW u, SignIn(u) PROVE Attended'
  BY <1>3, SameAttended DEF SignIn, connVars, promiseVars, Attended
<1> QED
  BY <1>1, <1>2, <1>3 DEF Calls, UnsubscribeListener, UnsubscribeByPrefix, Unsubscribe

LEMMA TasksAttended ==
  ASSUME TypeOK, Attended, Tasks
  PROVE  Attended'
<1>0. call \in CallType /\ chain \in ChainType
  BY DEF TypeOK, ClientTypeOK, CallType, ChainType
<1>1. ASSUME NEW c \in Conns, NEW id \in Conns, NEW n, Send(id, subs, c), call' = CallAborted(id), UNCHANGED pending,
             chain' = [ChainAborted(id) EXCEPT ![c] = [pc |-> "sent", left |-> n]]
      PROVE  Attended'
  <2>1. \A d \in Conns : d # c => chain'[d] = ChainAborted(id)[d]
    BY <1>1 DEF ChainAborted
  <2>2. \A d \in Conns : chain'[d].pc = "sent" => d = c \/ (chain[d].pc = "sent" /\ d \notin Woken(id))
    BY <2>1, AbortWakes
  <2>3. \A l \in Listeners : /\ call'[l] = "submitting" => call[l] = "submitting" /\ l \notin Woken(id)
                             /\ call'[l] = "connecting" => l \in pending'
    BY <1>1, AbortWakes DEF Attended
  <2> QED
    BY <1>1, <2>2, <2>3, SendAttended
<1>2. ASSUME NEW c \in Conns, Greet(c) \/ ChainRetry(c) PROVE Attended'
  <2>1. CASE Greet(c)
    BY <1>1, <2>1 DEF Greet
  <2>2. CASE ChainRetry(c)
    <3>1. clientId \in Conns
      BY <2>2 DEF ChainRetry, TypeOK, ClientTypeOK
    <3> QED
      BY <1>1, <2>2, <3>1 DEF ChainRetry, connVars
  <2> QED
    BY <1>2, <2>1, <2>2
<1>3. ASSUME NEW c \in Conns, ChainLeave(c) \/ ChainFinish(c) PROVE Attended'
  <2>1. \A d \in Conns : chain'[d].pc = "sent" => chain[d].pc = "sent"
    BY <1>0, <1>3 DEF ChainLeave, ChainFinish, Goto, ChainOver, ChainType
  <2>2. post' = post
    BY <1>3 DEF ChainLeave, ChainFinish, netVars
  <2>3. \A l \in Listeners : /\ call'[l] = "submitting" => call[l] = "submitting"
                             /\ call'[l] = "connecting" => l \in pending'
    BY <1>3 DEF ChainLeave, ChainFinish, connVars, Attended
  <2> QED
    BY <2>1, <2>2, <2>3, SameAttended
<1>4. ASSUME NEW c \in Conns, ChainFail(c) PROVE Attended'
  <2>1. Woken(None) = {}
    BY DEF Woken, Cancelled, TypeOK, NetTypeOK, Request
  <2>2. \A d \in Conns : chain'[d].pc = "sent" => chain[d].pc = "sent" /\ d \notin Woken(None)
    BY <1>0, <1>4, <2>1 DEF ChainFail, ChainOver, ChainType
  <2> QED
    BY <1>4, <2>2, ErrorAttended DEF ChainFail
<1>5. ASSUME NEW p \in Posts, Reply(p) PROVE Attended'
  <2> DEFINE o == post[p].owner
  <2>1. post' = [post EXCEPT ![p] = None] /\ pending' = pending
    BY <1>5 DEF Reply, connVars
  <2>2. o \in Conns \cup Listeners \cup {App}
    BY <1>5 DEF Reply, TypeOK, NetTypeOK, Request
  <2>3. ASSUME NEW w, w # o, Awaited(w) PROVE Awaited(w)'
    BY <2>1, <2>3 DEF Awaited, InFlight, TypeOK, NetTypeOK
  <2>4. ASSUME NEW c \in Conns, chain'[c].pc = "sent" PROVE c # o /\ chain[c].pc = "sent"
    BY <1>0, <1>5, <2>4 DEF Reply, Goto, ChainType
  <2>5. ASSUME NEW l \in Listeners
        PROVE  /\ call'[l] = "submitting" => l # o /\ call[l] = "submitting"
               /\ call'[l] = "connecting" => call[l] = "connecting"
    BY <1>0, <1>5 DEF Reply, CallType
  <2> HIDE DEF o
  <2> QED
    BY <2>1, <2>3, <2>4, <2>5 DEF Attended
<1>6. CASE ConnError \/ ConnectTimeout
  <2>1. chain' = ChainAborted(clientId) /\ ConnectErrorHandler(clientId)
    BY <1>6 DEF ConnError, ConnectTimeout
  <2> QED
    BY <2>1, ErrorAttended, AbortWakes
<1>7. CASE RetryFires
  <2>1. /\ post' = PostAborted(clientId) /\ chain' = ChainAborted(clientId)
        /\ call' = CallAborted(clientId) /\ pending' = pending
    BY <1>7 DEF RetryFires, InitConnect, Close
  <2>2. \A l \in Listeners : /\ call'[l] = "submitting" => call[l] = "submitting" /\ l \notin Woken(clientId)
                             /\ call'[l] = "connecting" => l \in pending'
    BY <2>1, AbortWakes DEF Attended
  <2> QED
    BY <2>1, <2>2, CloseAttended, AbortWakes
<1> QED
  BY <1>2, <1>3, <1>4, <1>5, <1>6, <1>7 DEF Tasks

(* Where the server moves a request. *)
Fates == {"hook", "accepted", "refused", "lost"}

(* The server lets go of no request that is awaited. *)
LEMMA ServerAttends ==
  ASSUME TypeOK, ServerNext, NEW q \in Posts, post[q] # None, post[q].awaited
  PROVE  post'[q] # None /\ post'[q].awaited /\ post'[q].owner = post[q].owner
<1>0. post[q] \in Request /\ post \in [Posts -> Request \cup {None}]
  BY DEF TypeOK, NetTypeOK
<1>0a. None \notin Request
  BY RequestAssumption
<1>1. ASSUME NEW p \in Posts, NEW a \in Fates, post[p] # None, Update(p, [post[p] EXCEPT !.at = a])
      PROVE  post'[q] # None /\ post'[q].awaited /\ post'[q].owner = post[q].owner
  <2>1. CASE p # q
    BY <1>0, <1>1, <2>1 DEF Update
  <2>2. CASE p = q
    <3> DEFINE r == [post[q] EXCEPT !.at = a]
    <3>1. r \in Request /\ r.awaited = post[q].awaited /\ r.owner = post[q].owner
      BY <1>0, <1>1, <2>2 DEF Request, Fates
    <3>2. post'[q] = Settled(r)
      BY <1>0, <1>1, <2>2 DEF Update
    <3> HIDE DEF r
    <3> QED
      BY <1>0a, <3>1, <3>2 DEF Settled, Over
  <2> QED
    BY <2>1, <2>2
<1>2. ASSUME NEW p \in Posts, Begin(p) \/ Finish(p) \/ HookThrows(p) \/ Lose(p)
      PROVE  post[p] # None /\ \E a \in Fates : Update(p, [post[p] EXCEPT !.at = a])
  BY <1>2 DEF Begin, Finish, HookThrows, Lose, Fates
<1>3. CASE Restart
  <2> DEFINE r == [post[q] EXCEPT !.at = "lost"]
  <2>1. r \in Request /\ r.awaited = post[q].awaited /\ r.owner = post[q].owner
    BY <1>0 DEF Request
  <2>2. post'[q] = Settled(r) \/ post'[q] = post[q]
    BY <1>3 DEF Restart
  <2> HIDE DEF r
  <2> QED
    BY <1>0a, <2>1, <2>2 DEF Settled, Over
<1>4. ASSUME NEW c \in Conns,
             \/ Register(c) \/ Refuse(c) \/ ConnectFails(c) \/ Hang(c) \/ Forget(c) \/ Listen(c)
             \/ Discard(c) \/ Unregister(c) \/ LinkFails(c)
      PROVE  post' = post
  BY <1>4
  DEF Register, Refuse, ConnectFails, Hang, Forget, Listen, Discard, Unregister, LinkFails
<1> QED
  BY <1>1, <1>2, <1>3, <1>4 DEF ServerNext

(* No call of subscribe and no chain of promises is left waiting for what    *)
(* will not come, for any topics, listeners, streams, requests and faults:   *)
(* an abort wakes whoever waits, and nothing drops a request that is awaited.*)
THEOREM NobodyLeftBehind == Spec => []Attended
<1>1. Init => Attended
  BY DEF Init, ClientInit, Attended
<1>2. TypeOK /\ Attended /\ [Next]_vars => Attended'
  <2> SUFFICES ASSUME TypeOK, Attended, [Next]_vars PROVE Attended'
    OBVIOUS
  <2>1. CASE ClientNext
    BY <2>1, CallsAttended, TasksAttended DEF ClientNext
  <2>2. CASE ServerNext /\ UNCHANGED clientVars
    <3>1. ASSUME NEW o, Awaited(o) PROVE Awaited(o)'
      BY <2>2, <3>1, ServerAttends DEF Awaited, InFlight
    <3> QED
      BY <2>2, <3>1 DEF clientVars, promiseVars, Attended
  <2>3. CASE UNCHANGED vars
    BY <2>3 DEF vars, netVars, clientVars, promiseVars, Attended, Awaited, InFlight
  <2> QED
    BY <2>1, <2>2, <2>3 DEF Next
<1> QED
  BY <1>1, <1>2, TypeCorrect, PTL DEF Spec

-----------------------------------------------------------------------------
(* No event reaches a listener that was unsubscribed. *)
LEMMA SendAttached ==
  ASSUME TypeOK, AttachedSubscribed, NEW id, NEW s, NEW o, Send(id, s, o), subs' = s,
         es' = es, es # None
  PROVE AttachedSubscribed'
<1>1. attached' = Pairs(s)
  BY DEF Send, AttachedSubscribed
<1>2. Pairs(subs)' = Pairs(s)
  BY DEF Pairs
<1> QED
  BY <1>1, <1>2 DEF AttachedSubscribed

LEMMA ClosedAttached ==
  ASSUME attached' = {}
  PROVE AttachedSubscribed'
BY DEF AttachedSubscribed

THEOREM NothingStaleAttached == Spec => []AttachedSubscribed
<1>1. Init => AttachedSubscribed
  BY DEF Init, ClientInit, AttachedSubscribed
<1>2. TypeOK /\ AttachedSubscribed /\ [Next]_vars => AttachedSubscribed'
  <2> SUFFICES ASSUME TypeOK, AttachedSubscribed, [Next]_vars PROVE AttachedSubscribed'
    OBVIOUS
  <2>a. clientId # None => es # None
    BY DEF TypeOK, ClientTypeOK
  <2>b. ASSUME NEW id, ConnectErrorHandler(id) PROVE AttachedSubscribed'
    BY <2>b, ClosedAttached DEF ConnectErrorHandler, Disconnect, Close
  <2>c. ASSUME InitConnect PROVE AttachedSubscribed'
    BY <2>c, ClosedAttached DEF InitConnect, Close
  <2>d. ASSUME UNCHANGED <<attached, subs, es>> PROVE AttachedSubscribed'
    BY <2>d DEF AttachedSubscribed, Pairs
  <2>1. ASSUME NEW s \in Subscriptions, Remove(s), \A k \in Topics : s[k] \subseteq subs[k]
        PROVE AttachedSubscribed'
    <3>1. CASE Disconnect(clientId, "done")
      BY <3>1, ClosedAttached DEF Disconnect, Close
    <3>2. CASE clientId # None /\ Send(clientId, s, App) /\ UNCHANGED connVars
      BY <2>1, <2>a, <3>2, SendAttached DEF Remove, connVars
    <3>3. CASE attached' = Detached(s) /\ UNCHANGED connVars
      <4>1. Pairs(subs)' = Pairs(s)
        BY <2>1 DEF Remove, Pairs
      <4> QED
        BY <3>3, <4>1 DEF Detached, connVars, AttachedSubscribed
    <3> QED
      BY <2>1, <3>1, <3>2, <3>3 DEF Remove
  <2>2. ASSUME NEW k \in Topics, NEW l \in Listeners, Subscribe(k, l) PROVE AttachedSubscribed'
    <3> DEFINE s == [subs EXCEPT ![k] = @ \cup {l}]
    <3>1. subs' = s /\ s[k] = subs[k] \cup {l} /\ Pairs(subs) \subseteq Pairs(subs)'
      BY <2>2 DEF Subscribe, Pairs, TypeOK, ClientTypeOK
    <3>2. CASE InitConnect
      BY <2>c, <3>2
    <3>3. CASE UNCHANGED <<attached, es>>
      BY <3>1, <3>3 DEF AttachedSubscribed
    <3>4. CASE IsConnected /\ Send(clientId, s, l) /\ UNCHANGED connVars
      BY <2>a, <3>1, <3>4, SendAttached DEF IsConnected, connVars
    <3>5. CASE IsConnected /\ attached' = attached \cup {<<k, l>>} /\ UNCHANGED connVars
      <4>1. <<k, l>> \in Pairs(subs)'
        BY <3>1 DEF Pairs
      <4> QED
        BY <3>1, <3>5, <4>1 DEF IsConnected, connVars, AttachedSubscribed
    <3> QED
      BY <2>2, <3>2, <3>3, <3>4, <3>5 DEF Subscribe, Connect, connVars
  <2>3. CASE Calls
    <3>1. ASSUME NEW K \in SUBSET Topics, Unsubscribe(K) \/ UnsubscribeByPrefix(K)
          PROVE AttachedSubscribed'
      <4> DEFINE s == [k \in Topics |-> IF k \in K THEN {} ELSE subs[k]]
      <4>1. Remove(s) /\ s \in Subscriptions /\ \A k \in Topics : s[k] \subseteq subs[k]
        BY <3>1, RemovedSubs DEF Unsubscribe, UnsubscribeByPrefix
      <4> HIDE DEF s
      <4> QED
        BY <2>1, <4>1
    <3>2. ASSUME NEW k \in Topics, NEW l \in Listeners, UnsubscribeListener(k, l)
          PROVE AttachedSubscribed'
      <4> DEFINE s == [subs EXCEPT ![k] = @ \ {l}]
      <4>1. Remove(s) /\ s \in Subscriptions
        BY <3>2, RemovedSubs DEF UnsubscribeListener
      <4>2. \A j \in Topics : s[j] \subseteq subs[j]
        BY DEF TypeOK, ClientTypeOK
      <4> HIDE DEF s
      <4> QED
        BY <2>1, <4>1, <4>2
    <3>3. ASSUME NEW u, SignIn(u) PROVE AttachedSubscribed'
      BY <2>d, <3>3 DEF SignIn, connVars
    <3> QED
      BY <2>2, <2>3, <3>1, <3>2, <3>3 DEF Calls
  <2>4. CASE Tasks
    <3>1. ASSUME NEW c \in Conns, Greet(c) \/ ChainRetry(c) PROVE AttachedSubscribed'
      <4>1. CASE Greet(c)
        BY <2>a, <4>1, SendAttached DEF Greet
      <4>2. CASE ChainRetry(c)
        BY <2>a, <4>2, SendAttached DEF ChainRetry, connVars
      <4> QED
        BY <3>1, <4>1, <4>2
    <3>2. ASSUME NEW c \in Conns, ChainLeave(c) \/ ChainFinish(c) PROVE AttachedSubscribed'
      BY <2>d, <3>2 DEF ChainLeave, ChainFinish, connVars
    <3>3. ASSUME NEW p \in Posts, Reply(p) PROVE AttachedSubscribed'
      BY <2>d, <3>3 DEF Reply, connVars
    <3> QED
      BY <2>4, <2>b, <2>c, <3>1, <3>2, <3>3 DEF Tasks, ChainFail, ConnError, ConnectTimeout, RetryFires
  <2>5. CASE UNCHANGED clientVars
    BY <2>d, <2>5 DEF clientVars
  <2> QED
    BY <2>3, <2>4, <2>5 DEF Next, ClientNext, vars
<1> QED
  BY <1>1, <1>2, TypeCorrect, PTL DEF Spec

-----------------------------------------------------------------------------
(* The server delivers what it has answered.  While the last submission of a
   client is on the wire, the older ones are ahead of it; once it has begun none
   is left there, and those still in the hook can only add topics. *)
Clear(c) == \A p \in OnWire : post[p].conn # c

Latest(p) ==
  /\ ~acked /\ post[p].topics = lastSent
  /\ post[p].at = "wire" => \A q \in OnWire \ {p} : post[q].conn = clientId => q \in ahead[p]
  /\ post[p].at = "hook" => Clear(clientId)
  /\ post[p].at = "accepted" => lastSent \subseteq subscribed[clientId] /\ Clear(clientId)

Covering ==
  clientId # None /\ InBroker(clientId) =>
    /\ acked => lastSent \subseteq subscribed[clientId] /\ Clear(clientId)
    /\ \A p \in Posts : Waits(p) /\ post[p].conn = clientId => Latest(p)

Greeted == clientId # None => stage[clientId] \notin {"opening", "hung"}

OneWaits == \A p, q \in Posts : Waits(p) /\ Waits(q) /\ post[p].conn = post[q].conn => p = q

CoverInv == Covering /\ Greeted

(* At most one request of a stream is awaited: a new one aborts the one before. *)
LEMMA OneWaitsStep == TypeOK /\ OneWaits /\ [Next]_vars => OneWaits'
<1> SUFFICES ASSUME TypeOK, OneWaits, [Next]_vars PROVE OneWaits'
  OBVIOUS
<1>a. ASSUME \A p \in Posts : Waits(p)' => Waits(p) /\ post'[p].conn = post[p].conn
      PROVE OneWaits'
  BY <1>a DEF OneWaits
<1>b. ASSUME NEW id, post' = PostAborted(id) PROVE OneWaits'
  <2>1. \A p \in Posts : Waits(p)' => Waits(p) /\ post'[p].conn = post[p].conn
    BY <1>b, AbortWaits DEF Waits
  <2> QED
    BY <1>a, <2>1
<1>c. ASSUME post' = post PROVE OneWaits'
  BY <1>c DEF OneWaits, Waits
<1>d. ASSUME NEW id, NEW s, NEW o, Send(id, s, o) PROVE OneWaits'
  <2>1. PICK q \in Posts :
          /\ post'[q] = [conn |-> id, topics |-> Keys(s), user |-> auth, owner |-> o,
                         awaited |-> TRUE, at |-> "wire"]
          /\ \A p \in Posts \ {q} : Waits(p)' => Waits(p) /\ post[p].conn # id /\ post'[p] = post[p]
    BY <1>d, SendWaits
  <2>2. post'[q].conn = id
    BY <2>1
  <2>3. \A p \in Posts \ {q} : Waits(p)' => Waits(p) /\ post'[p].conn # id /\ post'[p].conn = post[p].conn
    BY <2>1
  <2> QED
    BY <2>2, <2>3 DEF OneWaits
<1>e. ASSUME NEW id, ConnectErrorHandler(id) PROVE OneWaits'
  BY <1>b, <1>e DEF ConnectErrorHandler, Disconnect, Close
<1>f. ASSUME InitConnect PROVE OneWaits'
  BY <1>b, <1>f DEF InitConnect, Close
<1>1. ASSUME NEW s, Remove(s) PROVE OneWaits'
  BY <1>1, <1>b, <1>c, <1>d DEF Remove, Disconnect, Close, netVars
<1>2. ASSUME NEW k \in Topics, NEW l \in Listeners, Subscribe(k, l) PROVE OneWaits'
  BY <1>2, <1>c, <1>d, <1>f DEF Subscribe, Connect, netVars
<1>3. CASE Calls
  BY <1>3, <1>1, <1>2, <1>c DEF Calls, UnsubscribeListener, UnsubscribeByPrefix, Unsubscribe, SignIn
<1>4. ASSUME NEW p \in Posts, Reply(p) PROVE OneWaits'
  <2>1. \A q \in Posts : Waits(q)' => Waits(q) /\ post'[q].conn = post[q].conn
    BY <1>4 DEF Reply, Waits, TypeOK, NetTypeOK
  <2> QED
    BY <1>a, <2>1
<1>5. ASSUME NEW c \in Conns, Greet(c) \/ ChainRetry(c) \/ ChainLeave(c) \/ ChainFinish(c) PROVE OneWaits'
  BY <1>5, <1>c, <1>d DEF Greet, ChainRetry, ChainLeave, ChainFinish, netVars
<1>6. CASE Tasks
  BY <1>6, <1>4, <1>5, <1>e, <1>f DEF Tasks, ChainFail, ConnError, ConnectTimeout, RetryFires
<1>7. CASE ServerNext
  <2>1. \A p \in Posts : Waits(p)' => Waits(p) /\ post'[p].conn = post[p].conn
    BY <1>7, ServerWaits
  <2> QED
    BY <1>a, <2>1
<1>8. CASE UNCHANGED vars
  BY <1>8, <1>c DEF vars, netVars
<1> QED
  BY <1>3, <1>6, <1>7, <1>8 DEF Next, ClientNext

LEMMA SendCovers ==
  ASSUME TypeOK, NEW id \in Conns, NEW s, NEW o, Send(id, s, o), clientId' = id,
         stage[id] \notin {"opening", "hung"}
  PROVE CoverInv'
<1>1. PICK q \in Posts :
        /\ post[q] = None
        /\ post'[q] = [conn |-> id, topics |-> Keys(s), user |-> auth, owner |-> o,
                       awaited |-> TRUE, at |-> "wire"]
        /\ ahead' = [ahead EXCEPT ![q] = OnWire]
        /\ \A p \in Posts \ {q} : post'[p] = PostAborted(id)[p]
        /\ \A p \in Posts \ {q} : Waits(p)' => Waits(p) /\ post[p].conn # id /\ post'[p] = post[p]
  BY SendWaits
<1>2. lastSent' = Keys(s) /\ acked' = FALSE /\ stage' = stage
  BY DEF Send
<1>3. ahead'[q] = OnWire
  BY <1>1 DEF TypeOK, NetTypeOK
<1>4. \A p \in Posts \ {q} : p \in OnWire' => p \in OnWire
  <2> SUFFICES ASSUME NEW p \in Posts \ {q}, post'[p] # None, post'[p].at = "wire" PROVE p \in OnWire
    BY DEF OnWire
  <2>1. CASE p \in Cancelled(id)
    <3>1. post[p] # None /\ post[p] \in Request
      BY <2>1 DEF Cancelled, TypeOK, NetTypeOK
    <3>2. post'[p] = Settled([post[p] EXCEPT !.awaited = FALSE])
      BY <1>1, <2>1 DEF PostAborted
    <3>3. post'[p] = [post[p] EXCEPT !.awaited = FALSE]
      BY <3>2 DEF Settled
    <3>4. post[p].at = "wire"
      BY <3>1, <3>3 DEF Request
    <3> QED
      BY <3>1, <3>4 DEF OnWire
  <2>2. CASE p \notin Cancelled(id)
    BY <1>1, <2>2 DEF PostAborted, OnWire
  <2> QED
    BY <2>1, <2>2
<1>5. \A p \in Posts : Waits(p)' /\ post'[p].conn = id => p = q
  BY <1>1
<1>6. post'[q].topics = lastSent' /\ post'[q].at = "wire"
  BY <1>1, <1>2
<1>7. \A p \in OnWire' \ {q} : p \in ahead'[q]
  BY <1>3, <1>4 DEF OnWire
<1>8. Latest(q)'
  BY <1>2, <1>6, <1>7 DEF Latest
<1> QED
  BY <1>2, <1>5, <1>8 DEF CoverInv, Covering, Greeted

(* Without a client id there is nothing to say. *)
LEMMA CloseCovers ==
  ASSUME clientId' = None
  PROVE CoverInv'
BY DEF CoverInv, Covering, Greeted

LEMMA KeepCovers ==
  ASSUME CoverInv, UNCHANGED <<netVars, clientId, lastSent, acked, subscribed>>
  PROVE CoverInv'
BY DEF CoverInv, Covering, Greeted, Latest, Clear, Waits, InBroker, OnWire, netVars

LEMMA ClientCovers ==
  ASSUME TypeOK, OneWaits, CoverInv, ClientNext, UNCHANGED serverVars
  PROVE CoverInv'
<1>a. clientId # None => clientId \in Conns
  BY DEF TypeOK, ClientTypeOK
<1>b. ASSUME NEW id, ConnectErrorHandler(id) PROVE CoverInv'
  BY <1>b, CloseCovers DEF ConnectErrorHandler, Disconnect, Close
<1>c. ASSUME InitConnect PROVE CoverInv'
  BY <1>c, CloseCovers DEF InitConnect, Close
<1>d. ASSUME NEW s, NEW o, clientId # None, Send(clientId, s, o), clientId' = clientId PROVE CoverInv'
  BY <1>a, <1>d, SendCovers DEF CoverInv, Greeted
<1>e. ASSUME UNCHANGED <<netVars, clientId, lastSent, acked>> PROVE CoverInv'
  BY <1>e, KeepCovers DEF serverVars
<1>1. ASSUME NEW s, Remove(s) PROVE CoverInv'
  <2>1. CASE Disconnect(clientId, "done")
    BY <2>1, CloseCovers DEF Disconnect, Close
  <2> QED
    BY <1>1, <1>d, <1>e, <2>1 DEF Remove, connVars
<1>2. ASSUME NEW k \in Topics, NEW l \in Listeners, Subscribe(k, l) PROVE CoverInv'
  BY <1>2, <1>c, <1>d, <1>e DEF Subscribe, Connect, IsConnected, connVars
<1>3. ASSUME NEW u, SignIn(u) PROVE CoverInv'
  <2>1. UNCHANGED <<stage, post, ahead, clientId, lastSent, acked, subscribed>>
    BY <1>3 DEF SignIn, connVars, serverVars
  <2> QED
    BY <2>1 DEF CoverInv, Covering, Greeted, Latest, Clear, Waits, InBroker, OnWire
<1>4. CASE Calls
  BY <1>4, <1>1, <1>2, <1>3 DEF Calls, UnsubscribeListener, UnsubscribeByPrefix, Unsubscribe
<1>5. ASSUME NEW c \in Conns, Greet(c) PROVE CoverInv'
  BY <1>5, SendCovers DEF Greet, InBroker
<1>6. ASSUME NEW c \in Conns, ChainRetry(c) PROVE CoverInv'
  BY <1>6, <1>d DEF ChainRetry, connVars
<1>7. ASSUME NEW c \in Conns, ChainLeave(c) \/ ChainFinish(c) PROVE CoverInv'
  BY <1>7, <1>e DEF ChainLeave, ChainFinish, connVars
<1>8. ASSUME NEW p \in Posts, Reply(p) PROVE CoverInv'
  <2>1. Waits(p) /\ post' = [post EXCEPT ![p] = None]
    BY <1>8 DEF Reply, Waits
  <2>2. /\ \A q \in Posts : post'[q] # None => q # p /\ post'[q] = post[q]
        /\ OnWire' \subseteq OnWire
    BY <2>1 DEF TypeOK, NetTypeOK, OnWire
  <2>3. UNCHANGED <<stage, ahead, clientId, lastSent, subscribed>>
    BY <1>8 DEF Reply, connVars, serverVars
  <2>4. Greeted'
    BY <2>3 DEF CoverInv, Greeted
  <2>5. ASSUME clientId # None, InBroker(clientId)
        PROVE /\ acked' => lastSent \subseteq subscribed[clientId] /\ Clear(clientId)
              /\ \A q \in Posts : Waits(q)' /\ post'[q].conn = clientId => Latest(q) /\ acked' = acked
    <3>0. Waits(p) /\ post[p].conn = clientId => Latest(p)
      BY <2>5 DEF CoverInv, Covering
    <3>1. CASE acked' = acked
      BY <2>2, <2>5, <3>1 DEF CoverInv, Covering, Waits
    <3>2. CASE acked' # acked
      <4>1. post[p].at = "accepted" /\ post[p].conn = clientId
        BY <1>8, <3>2 DEF Reply, TypeOK, ClientTypeOK
      <4>2. lastSent \subseteq subscribed[clientId] /\ Clear(clientId)
        BY <2>1, <3>0, <4>1 DEF Latest
      <4>3. \A q \in Posts : ~(Waits(q)' /\ post'[q].conn = clientId)
        <5> SUFFICES ASSUME NEW q \in Posts, Waits(q)', post'[q].conn = clientId PROVE FALSE
          OBVIOUS
        <5>1. q # p /\ Waits(q) /\ post[q].conn = clientId
          BY <2>2 DEF Waits
        <5> QED
          BY <2>1, <4>1, <5>1 DEF OneWaits
      <4> QED
        BY <4>2, <4>3
    <3> QED
      BY <3>1, <3>2
  <2>6. Clear(clientId) => Clear(clientId)'
    BY <2>2, <2>3 DEF Clear, OnWire
  <2>7. ASSUME NEW q \in Posts, Waits(q)', Latest(q), acked' = acked
        PROVE Latest(q)'
    <3>1. post'[q] = post[q]
      BY <2>2, <2>7 DEF Waits
    <3>2. post[q].at = "wire" => \A x \in OnWire' \ {q} : post'[x].conn = clientId' => x \in ahead'[q]
      BY <2>2, <2>3, <2>7 DEF Latest, OnWire
    <3> QED
      BY <2>3, <2>6, <2>7, <3>1, <3>2 DEF Latest
  <2> QED
    BY <2>3, <2>4, <2>5, <2>6, <2>7 DEF CoverInv, Covering, InBroker
<1> QED
  BY <1>4, <1>5, <1>6, <1>7, <1>8, <1>b, <1>c
  DEF ClientNext, Tasks, ChainFail, ConnError, ConnectTimeout, RetryFires

(* A request moves on. *)
LEMMA Moves ==
  ASSUME TypeOK, NEW p \in Posts, NEW a \in {"hook", "accepted", "refused", "lost"}, post[p] # None,
         Update(p, [post[p] EXCEPT !.at = a])
  PROVE /\ \A q \in Posts \ {p} : post'[q] = post[q]
        /\ Waits(p)' => /\ Waits(p) /\ post'[p].at = a
                        /\ post'[p].conn = post[p].conn /\ post'[p].topics = post[p].topics
        /\ OnWire' = OnWire \ {p}
        /\ \A c \in Conns : Clear(c) => Clear(c)'
<1>1. post[p] \in Request /\ post' = [post EXCEPT ![p] = Settled([post[p] EXCEPT !.at = a])]
  BY DEF Update, TypeOK, NetTypeOK
<1>2. \A q \in Posts \ {p} : post'[q] = post[q]
  BY <1>1
<1>3. post'[p] = None \/ post'[p] = [post[p] EXCEPT !.at = a]
  BY <1>1 DEF Settled, TypeOK, NetTypeOK
<1>4. Waits(p)' => /\ Waits(p) /\ post'[p].at = a
                   /\ post'[p].conn = post[p].conn /\ post'[p].topics = post[p].topics
  BY <1>1, <1>3 DEF Waits, Request
<1>5. OnWire' = OnWire \ {p}
  BY <1>1, <1>2, <1>3 DEF OnWire, Request
<1>6. \A c \in Conns : Clear(c) => Clear(c)'
  BY <1>2, <1>5 DEF Clear, OnWire
<1> QED
  BY <1>2, <1>4, <1>5, <1>6

(* What the handlers keep, of the requests that are not the one they work on. *)
LEMMA OthersLatest ==
  ASSUME TypeOK, NEW p \in Posts, NEW q \in Posts \ {p}, clientId \in Conns, Latest(q),
         UNCHANGED <<clientId, lastSent, acked>>,
         post'[q] = post[q], OnWire' = OnWire \ {p}, \A x \in Posts \ {p} : post'[x] = post[x],
         \A x \in Posts \ {p} : ahead[x] \ {p} \subseteq ahead'[x],
         subscribed[clientId] \subseteq subscribed'[clientId], Clear(clientId) => Clear(clientId)'
  PROVE Latest(q)'
<1>1. post'[q].at = "wire" => \A x \in OnWire' \ {q} : post'[x].conn = clientId => x \in ahead'[q]
  BY DEF Latest, OnWire
<1> QED
  BY <1>1 DEF Latest

LEMMA BeginCovers ==
  ASSUME TypeOK, CoverInv, Ordered, NEW p \in Posts, Begin(p), UNCHANGED clientVars
  PROVE CoverInv'
<1>0. UNCHANGED <<clientId, lastSent, acked, stage>>
  BY DEF Begin, clientVars
<1>1. /\ post[p] # None /\ post[p].at = "wire" /\ ahead[p] = {} /\ OffWire(p) /\ p \in OnWire
      /\ post[p] \in Request
  BY DEF Begin, OnWire, TypeOK, NetTypeOK
<1>2. PICK a \in {"hook", "refused"} : Update(p, [post[p] EXCEPT !.at = a])
  BY DEF Begin
<1>3. /\ \A q \in Posts \ {p} : post'[q] = post[q]
      /\ Waits(p)' => /\ Waits(p) /\ post'[p].at = a
                      /\ post'[p].conn = post[p].conn /\ post'[p].topics = post[p].topics
      /\ OnWire' = OnWire \ {p}
      /\ \A c \in Conns : Clear(c) => Clear(c)'
  BY <1>1, <1>2, Moves
<1>c. Clear(clientId) => Clear(clientId)'
  BY <1>0, <1>3 DEF Clear, OnWire
<1>4. \A x \in Posts : ahead[x] \ {p} \subseteq ahead'[x]
  BY <1>1 DEF OffWire
<1>5. Greeted'
  BY <1>0 DEF CoverInv, Greeted
<1>6. ASSUME clientId # None, InBroker(clientId)
      PROVE /\ acked => lastSent \subseteq subscribed'[clientId] /\ Clear(clientId)'
            /\ \A q \in Posts : Waits(q)' /\ post'[q].conn = clientId => Latest(q)'
  <2>0. clientId \in Conns
    BY <1>6 DEF TypeOK, ClientTypeOK
  <2>1. CASE post[p].conn # clientId
    <3>1. subscribed'[clientId] = subscribed[clientId]
      BY <2>0, <2>1 DEF Begin, TypeOK, ServerTypeOK
    <3>2. ASSUME NEW q \in Posts, Waits(q)', post'[q].conn = clientId PROVE Latest(q)'
      <4>1. q # p /\ Latest(q)
        BY <1>3, <1>6, <2>1, <3>2 DEF CoverInv, Covering, Waits
      <4> QED
        BY <1>0, <1>3, <1>c, <1>4, <2>0, <3>1, <4>1, OthersLatest
    <3> QED
      BY <1>c, <1>6, <3>1, <3>2 DEF CoverInv, Covering
  <2>2. CASE post[p].conn = clientId
    <3>1. ~Clear(clientId)
      BY <1>1, <2>2 DEF Clear
    <3>2. ~acked
      BY <1>6, <3>1 DEF CoverInv, Covering
    <3>3. ASSUME NEW q \in Posts, Waits(q)', post'[q].conn = clientId PROVE Latest(q)'
      <4>1. CASE q = p
        <5>1. Latest(p)
          BY <1>3, <1>6, <2>2, <3>3, <4>1 DEF CoverInv, Covering
        <5>2. Clear(clientId)'
          BY <1>0, <1>1, <1>3, <3>3, <4>1, <5>1 DEF Latest, Clear, OnWire
        <5> QED
          BY <1>0, <1>3, <3>3, <4>1, <5>1, <5>2 DEF Latest
      <4>2. CASE q # p
        <5>1. Latest(q) /\ post'[q] = post[q]
          BY <1>3, <1>6, <3>3, <4>2 DEF CoverInv, Covering, Waits
        <5>2. post[q].at \notin {"hook", "accepted"}
          BY <3>1, <5>1 DEF Latest
        <5>3. post'[q].at = "wire" => \A x \in OnWire' \ {q} : post'[x].conn = clientId => x \in ahead'[q]
          BY <1>3, <1>4, <5>1 DEF Latest, OnWire
        <5> QED
          BY <1>0, <5>1, <5>2, <5>3 DEF Latest
      <4> QED
        BY <4>1, <4>2
    <3> QED
      BY <3>2, <3>3
  <2> QED
    BY <2>1, <2>2
<1> QED
  BY <1>0, <1>5, <1>6 DEF CoverInv, Covering, InBroker

LEMMA LaterCovers ==
  ASSUME TypeOK, CoverInv, NEW p \in Posts, Finish(p) \/ HookThrows(p) \/ Lose(p), UNCHANGED clientVars
  PROVE CoverInv'
<1>0. UNCHANGED <<clientId, lastSent, acked, stage>>
  BY DEF Finish, HookThrows, Lose, clientVars
<1>1. post[p] # None /\ post[p] \in Request
  BY DEF Finish, HookThrows, Lose, TypeOK, NetTypeOK
<1>2. PICK a \in {"accepted", "refused", "lost"} :
        Update(p, [post[p] EXCEPT !.at = a]) /\ (a = "accepted" => Finish(p))
  BY DEF Finish, HookThrows, Lose
<1>3. /\ \A q \in Posts \ {p} : post'[q] = post[q]
      /\ Waits(p)' => /\ Waits(p) /\ post'[p].at = a
                      /\ post'[p].conn = post[p].conn /\ post'[p].topics = post[p].topics
      /\ OnWire' = OnWire \ {p}
      /\ \A c \in Conns : Clear(c) => Clear(c)'
  BY <1>1, <1>2, Moves
<1>c. Clear(clientId) => Clear(clientId)'
  BY <1>0, <1>3 DEF Clear, OnWire
<1>4. \A x \in Posts \ {p} : ahead[x] \ {p} \subseteq ahead'[x]
  BY DEF Finish, HookThrows, Lose, OffWire
<1>5. Greeted'
  BY <1>0 DEF CoverInv, Greeted
<1>6. \A c \in Conns : subscribed[c] \subseteq subscribed'[c]
  BY DEF Finish, HookThrows, Lose, serverVars, TypeOK, ServerTypeOK
<1>7. ASSUME clientId # None, InBroker(clientId)
      PROVE /\ acked => lastSent \subseteq subscribed'[clientId] /\ Clear(clientId)'
            /\ \A q \in Posts : Waits(q)' /\ post'[q].conn = clientId => Latest(q)'
  <2>0. clientId \in Conns
    BY <1>7 DEF TypeOK, ClientTypeOK
  <2>1. acked => lastSent \subseteq subscribed'[clientId] /\ Clear(clientId)'
    BY <1>c, <1>6, <1>7, <2>0 DEF CoverInv, Covering
  <2>2. ASSUME NEW q \in Posts, Waits(q)', post'[q].conn = clientId PROVE Latest(q)'
    <3>1. CASE q # p
      <4>1. Latest(q) /\ post'[q] = post[q]
        BY <1>3, <1>7, <2>2, <3>1 DEF CoverInv, Covering, Waits
      <4> QED
        BY <1>0, <1>3, <1>c, <1>4, <1>6, <2>0, <3>1, <4>1, OthersLatest
    <3>2. CASE q = p
      <4>1. Latest(p) /\ post[p].conn = clientId
        BY <1>3, <1>7, <2>2, <3>2 DEF CoverInv, Covering
      <4>2. CASE a = "accepted"
        <5>1. post[p].at = "hook" /\ subscribed'[clientId] = subscribed[clientId] \cup post[p].topics
          BY <1>2, <1>7, <2>0, <4>1, <4>2 DEF Finish, TypeOK, ServerTypeOK
        <5>2. lastSent \subseteq subscribed'[clientId] /\ Clear(clientId)'
          BY <1>c, <4>1, <5>1 DEF Latest
        <5> QED
          BY <1>0, <1>3, <2>2, <3>2, <4>1, <4>2, <5>2 DEF Latest
      <4>3. CASE a # "accepted"
        BY <1>0, <1>2, <1>3, <2>2, <3>2, <4>1, <4>3 DEF Latest
      <4> QED
        BY <4>2, <4>3
    <3> QED
      BY <3>1, <3>2
  <2> QED
    BY <2>1, <2>2
<1> QED
  BY <1>0, <1>5, <1>7 DEF CoverInv, Covering, InBroker

LEMMA StreamCovers ==
  ASSUME TypeOK, CoverInv, NEW c \in Conns, UNCHANGED clientVars,
         \/ Register(c) \/ Refuse(c) \/ ConnectFails(c) \/ Hang(c) \/ Forget(c) \/ Listen(c)
         \/ Discard(c) \/ Unregister(c) \/ LinkFails(c)
  PROVE CoverInv'
<1>1. UNCHANGED <<post, ahead, clientId, lastSent, acked>>
  BY DEF Register, Refuse, ConnectFails, Hang, Forget, Listen, Discard, Unregister, LinkFails, clientVars
<1>2. clientId # None => clientId \in Conns
  BY DEF TypeOK, ClientTypeOK
<1>3. ASSUME clientId # None
      PROVE /\ stage'[clientId] \notin {"opening", "hung"}
            /\ InBroker(clientId)' => InBroker(clientId) /\ subscribed'[clientId] = subscribed[clientId]
  <2>1. stage[clientId] \notin {"opening", "hung"}
    BY <1>3 DEF CoverInv, Greeted
  <2>2. CASE Register(c) \/ Refuse(c) \/ Hang(c) \/ Forget(c)
    BY <1>1, <1>2, <1>3, <2>1, <2>2
    DEF Register, Refuse, Hang, Forget, To, serverVars, InBroker, TypeOK, NetTypeOK
  <2>3. CASE ConnectFails(c) \/ Unregister(c)
    BY <1>1, <1>2, <1>3, <2>1, <2>3
    DEF ConnectFails, Unregister, Ended, To, InBroker, TypeOK, NetTypeOK, ServerTypeOK
  <2>4. CASE Listen(c) \/ Discard(c) \/ LinkFails(c)
    BY <1>1, <1>2, <1>3, <2>1, <2>4
    DEF Listen, Discard, LinkFails, To, serverVars, InBroker, TypeOK, NetTypeOK
  <2> QED
    BY <2>2, <2>3, <2>4
<1> QED
  BY <1>1, <1>3 DEF CoverInv, Covering, Greeted, Latest, Clear, Waits, OnWire

(* Where requests reach the handler in the order they were sent, the server
   delivers every topic of a submission it has answered. *)
THEOREM AnsweredIsDelivered == ASSUME Ordered PROVE Spec => []ServerCovers
<1>1. Init => OneWaits /\ CoverInv
  BY DEF Init, NetInit, ClientInit, OneWaits, Waits, CoverInv, Covering, Greeted
<1>2. TypeOK /\ OneWaits /\ CoverInv /\ [Next]_vars => CoverInv'
  <2> SUFFICES ASSUME TypeOK, OneWaits, CoverInv, [Next]_vars PROVE CoverInv'
    OBVIOUS
  <2>1. CASE ClientNext /\ UNCHANGED serverVars
    BY <2>1, ClientCovers
  <2>2. CASE ServerNext /\ UNCHANGED clientVars
    <3>1. CASE Restart
      BY <2>2, <3>1 DEF Restart, clientVars, CoverInv, Covering, Greeted, InBroker, TypeOK, ClientTypeOK
    <3> QED
      BY <2>2, <3>1, BeginCovers, LaterCovers, StreamCovers DEF ServerNext
  <2>3. CASE UNCHANGED vars
    BY <2>3, KeepCovers DEF vars, clientVars, serverVars
  <2> QED
    BY <2>1, <2>2, <2>3 DEF Next
<1>3. CoverInv => ServerCovers
  BY DEF CoverInv, Covering, ServerCovers
<1> QED
  BY <1>1, <1>2, <1>3, TypeCorrect, OneWaitsStep, PTL DEF Spec
=============================================================================
