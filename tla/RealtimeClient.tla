--------------------------- MODULE RealtimeClient ---------------------------
(***************************************************************************)
(* The realtime client of jssdk: services/RealtimeService.ts, with the part *)
(* of Client.ts that sends and aborts its requests.  One thread: an action  *)
(* is one task.  Continuations of promises run before the next event, timer *)
(* or answer; the application may call from any of them.                    *)
(***************************************************************************)
EXTENDS RealtimeNet

VARIABLES
  subs,         \* this.subscriptions: the listeners of each key
  es,           \* this.eventSource
  clientId,     \* this.clientId
  attached,     \* pairs given to eventSource.addEventListener
  lastSent,     \* this.lastSentSubscriptions
  retrying,     \* this.reconnectAttempts > 0
  connectTimer, \* connectTimeoutId is armed
  retryTimer,   \* reconnectTimeoutId is armed
  pending,      \* this.pendingConnects, by the listener whose call waits
  call,         \* the promise that subscribe returned
  chain,        \* promises chained to each stream's PB_CONNECT: where, and tries left
  auth,         \* the user of the auth store
  acked         \* (history) the last submission was answered with 204

promiseVars == <<call, chain>>
clientVars == <<subs, es, clientId, attached, lastSent, retrying, connectTimer, retryTimer,
                pending, promiseVars, auth, acked>>

ClientTypeOK ==
  /\ subs \in [Topics -> SUBSET Listeners]
  /\ es \in Conns \cup {None} /\ clientId \in {None, es}
  /\ attached \subseteq Topics \X Listeners
  /\ lastSent \subseteq Topics
  /\ retrying \in BOOLEAN /\ connectTimer \in BOOLEAN /\ retryTimer \in BOOLEAN
  /\ pending \subseteq Listeners
  /\ call \in [Listeners -> {"idle", "connecting", "submitting", "done", "failed"}]
  /\ chain \in [Conns -> [pc : {"off", "sent", "loop", "finish", "failed"}, left : 0..Retries]]
  /\ auth \in Users \cup {None}
  /\ acked \in BOOLEAN

ClientInit ==
  /\ subs = [k \in Topics |-> {}]
  /\ es = None /\ clientId = None
  /\ attached = {} /\ lastSent = {}
  /\ retrying = FALSE /\ connectTimer = FALSE /\ retryTimer = FALSE
  /\ pending = {}
  /\ call = [l \in Listeners |-> "idle"]
  /\ chain = [c \in Conns |-> [pc |-> "off", left |-> 0]]
  /\ auth \in Users \cup {None}
  /\ acked = FALSE

IsConnected == es # None /\ clientId # None /\ pending = {}

(* Continuations have run out: the next event can be taken. *)
Quiet == \A c \in Conns : chain[c].pc \in {"off", "sent"}

Keys(s) == {k \in Topics : s[k] # {}}
Pairs(s) == {x \in Topics \X Listeners : x[2] \in s[x[1]]}

connVars == <<es, clientId, retrying, connectTimer, retryTimer, pending>>

(***************************************************************************)
(* cancelRequest("realtime_" + id): the request of this stream is aborted,  *)
(* and who awaits it goes on as if it had succeeded.                        *)
(***************************************************************************)
Cancelled(id) == {p \in Posts : post[p] # None /\ post[p].awaited /\ post[p].conn = id}
Woken(id) == {post[p].owner : p \in Cancelled(id)}

PostAborted(id) == [p \in Posts |-> IF p \in Cancelled(id)
                                    THEN Settled([post[p] EXCEPT !.awaited = FALSE]) ELSE post[p]]

(* Mutant: an aborted request settles no call. *)
CallAbortedNever(id) == call

CallAborted(id) == [l \in Listeners |-> IF l \in Woken(id) THEN "done" ELSE call[l]]

ChainAborted(id) == [c \in Conns |-> IF c \in Woken(id) THEN [chain[c] EXCEPT !.pc = "loop"] ELSE chain[c]]

FreePosts == {p \in Posts : post[p] = None}

(* submitSubscriptions for client id, of subscriptions s, awaited by o: all
   listeners are attached, a request for the same client is aborted. *)
Send(id, s, o) ==
  /\ FreePosts # {}
  /\ LET p == CHOOSE p \in FreePosts : TRUE
     IN /\ post' = [PostAborted(id) EXCEPT ![p] =
              [conn |-> id, topics |-> Keys(s), user |-> auth, owner |-> o, awaited |-> TRUE, at |-> "wire"]]
        /\ ahead' = [ahead EXCEPT ![p] = OnWire]
  /\ attached' = (attached \ Pairs(subs)) \cup Pairs(s)
  /\ lastSent' = Keys(s)
  /\ acked' = FALSE
  /\ UNCHANGED <<link, stage, faults, auth>>

(* disconnect: the timers, the listeners, the request of client id, the stream. *)
Close(id) ==
  /\ post' = PostAborted(id)
  /\ attached' = {}
  /\ clientId' = None
  /\ UNCHANGED <<ahead, lastSent, acked, auth>>

LinkClosed == [c \in Conns |-> link[c] /\ c # es]

(* Mutant: the calls that wait are not resolved. *)
DisconnectForgets(id, outcome) ==
  /\ Close(id)
  /\ es' = None /\ link' = LinkClosed /\ UNCHANGED stage
  /\ retrying' = FALSE /\ connectTimer' = FALSE /\ retryTimer' = FALSE
  /\ call' = CallAborted(id)
  /\ UNCHANGED pending

(* disconnect(false); the calls that wait end as they are told. *)
Disconnect(id, outcome) ==
  /\ Close(id)
  /\ es' = None /\ link' = LinkClosed /\ UNCHANGED stage
  /\ retrying' = FALSE /\ connectTimer' = FALSE /\ retryTimer' = FALSE
  /\ pending' = {}
  /\ call' = [l \in Listeners |-> IF l \in pending THEN outcome ELSE CallAborted(id)[l]]

FreeConns == {c \in Conns : /\ c # es /\ stage[c] = "none" /\ ~link[c] /\ chain[c].pc = "off"
                            /\ \A p \in InFlight : c \notin {post[p].conn, post[p].owner}}

(* Mutant: the timer of the connect is not set. *)
InitConnectUntimed ==
  /\ FreeConns # {}
  /\ Close(clientId)
  /\ LET c == CHOOSE c \in FreeConns : TRUE
     IN /\ es' = c
        /\ link' = [LinkClosed EXCEPT ![c] = TRUE]
        /\ stage' = [stage EXCEPT ![c] = "opening"]
  /\ connectTimer' = FALSE /\ retryTimer' = FALSE

(* initConnect: disconnect(true), the timer, a new stream. *)
InitConnect ==
  /\ FreeConns # {}
  /\ Close(clientId)
  /\ LET c == CHOOSE c \in FreeConns : TRUE
     IN /\ es' = c
        /\ link' = [LinkClosed EXCEPT ![c] = TRUE]
        /\ stage' = [stage EXCEPT ![c] = "opening"]
  /\ connectTimer' = TRUE /\ retryTimer' = FALSE

(***************************************************************************)
(* subscribe                                                               *)
(***************************************************************************)
(* connect: the first that waits opens the stream, nobody waits for a reconnect. *)
Connect(l) ==
  \/ /\ ~retrying /\ pending = {}
     /\ InitConnect
     /\ pending' = {l}
     /\ call' = [CallAborted(clientId) EXCEPT ![l] = "connecting"]
     /\ chain' = ChainAborted(clientId)
     /\ UNCHANGED <<faults, retrying>>
  \/ /\ ~retrying /\ pending # {}
     /\ pending' = pending \cup {l}
     /\ call' = [call EXCEPT ![l] = "connecting"]
     /\ UNCHANGED <<netVars, es, clientId, retrying, connectTimer, retryTimer, attached, lastSent, chain, auth, acked>>
  \/ /\ retrying
     /\ call' = [call EXCEPT ![l] = "done"]
     /\ UNCHANGED <<netVars, connVars, attached, lastSent, chain, auth, acked>>

Subscribe(k, l) ==
  LET s == [subs EXCEPT ![k] = @ \cup {l}]
  IN /\ \A j \in Topics : l \notin subs[j]
     /\ call[l] = "idle"
     /\ subs' = s
     /\ \/ ~IsConnected /\ Connect(l)
        \/ /\ IsConnected /\ subs[k] = {}
           /\ Send(clientId, s, l)
           /\ call' = [CallAborted(clientId) EXCEPT ![l] = "submitting"]
           /\ chain' = ChainAborted(clientId)
           /\ UNCHANGED connVars
        \/ /\ IsConnected /\ subs[k] # {}
           /\ attached' = attached \cup {<<k, l>>}
           /\ call' = [call EXCEPT ![l] = "done"]
           /\ UNCHANGED <<netVars, connVars, lastSent, chain, auth, acked>>

(***************************************************************************)
(* The unsubscribe family, told apart by the subscriptions s they leave.   *)
(***************************************************************************)
(* Mutant: removeEventListener is not called. *)
DetachedNone(s) == attached

Detached(s) == attached \cap Pairs(s)

Remove(s) ==
  /\ subs' = s
  /\ \/ /\ Keys(s) = {}
        /\ Disconnect(clientId, "done")
        /\ chain' = ChainAborted(clientId)
        /\ UNCHANGED faults
     \/ /\ Keys(s) # {} /\ Keys(s) # Keys(subs) /\ clientId # None
        /\ Send(clientId, s, App)
        /\ call' = CallAborted(clientId)
        /\ chain' = ChainAborted(clientId)
        /\ UNCHANGED connVars
     \/ /\ Keys(s) # {} /\ (Keys(s) = Keys(subs) \/ clientId = None)
        /\ attached' = Detached(s)
        /\ UNCHANGED <<netVars, connVars, lastSent, promiseVars, auth, acked>>

(* unsubscribe() and unsubscribe(topic); with a topic nobody knows nothing changes
   unless there are no subscriptions left. *)
Unsubscribe(K) == Remove([k \in Topics |-> IF k \in K THEN {} ELSE subs[k]])

(* unsubscribeByPrefix *)
UnsubscribeByPrefix(K) == K \cap Keys(subs) # {} /\ Unsubscribe(K)

(* The function subscribe returned: unsubscribeByTopicAndListener. *)
UnsubscribeListener(k, l) ==
  /\ call[l] = "done"
  /\ Remove([subs EXCEPT ![k] = @ \ {l}])

(* Another user, or nobody, is in the auth store. *)
SignIn(u) ==
  /\ auth # u /\ Fault
  /\ auth' = u
  /\ UNCHANGED <<link, stage, post, ahead, subs, connVars, attached, lastSent, promiseVars, acked>>

(***************************************************************************)
(* PB_CONNECT and the promises chained to it.                              *)
(***************************************************************************)
Goto(f, c, pc) == [f EXCEPT ![c] = [pc |-> pc, left |-> f[c].left]]

Greet(c) ==
  /\ Quiet /\ es = c /\ clientId = None /\ link[c] /\ InBroker(c)
  /\ clientId' = c
  /\ Send(c, subs, c)
  /\ chain' = [ChainAborted(c) EXCEPT ![c] = [pc |-> "sent", left |-> Retries]]
  /\ call' = CallAborted(c)
  /\ UNCHANGED <<subs, es, retrying, connectTimer, retryTimer, pending>>

HasUnsent == lastSent # Keys(subs)

(* The loop: submit again what is not sent. *)
ChainRetry(c) ==
  /\ chain[c].pc = "loop" /\ HasUnsent /\ chain[c].left > 0 /\ clientId # None
  /\ Send(clientId, subs, c)
  /\ chain' = [ChainAborted(clientId) EXCEPT ![c] = [pc |-> "sent", left |-> chain[c].left - 1]]
  /\ call' = CallAborted(clientId)
  /\ UNCHANGED <<subs, connVars>>

(* Everything is sent, or the tries are used up (with no client they are at once). *)
ChainLeave(c) ==
  /\ chain[c].pc = "loop" /\ (~HasUnsent \/ chain[c].left = 0 \/ clientId = None)
  /\ chain' = Goto(chain, c, "finish")
  /\ UNCHANGED <<netVars, subs, connVars, attached, lastSent, call, auth, acked>>

ChainOver(f, c) == [f EXCEPT ![c] = [pc |-> "off", left |-> 0]]

(* Whoever waits is connected; the timers and the count of attempts are    *)
(* reset.  The listeners of PB_CONNECT, which follow, are assumed not to   *)
(* throw.                                                                  *)
ChainFinish(c) ==
  /\ chain[c].pc = "finish"
  /\ call' = [l \in Listeners |-> IF l \in pending THEN "done" ELSE call[l]]
  /\ pending' = {}
  /\ retrying' = FALSE /\ connectTimer' = FALSE /\ retryTimer' = FALSE
  /\ chain' = ChainOver(chain, c)
  /\ UNCHANGED <<netVars, subs, es, clientId, attached, lastSent, auth, acked>>

(***************************************************************************)
(* connectErrorHandler with client id.                                     *)
(***************************************************************************)
ConnectErrorHandler(id) ==
  /\ UNCHANGED subs
  /\ \/ id = None /\ ~retrying /\ Disconnect(id, "failed")
     \/ /\ id # None \/ retrying
        /\ Close(id)
        /\ es' = None /\ link' = LinkClosed /\ UNCHANGED stage
        /\ retrying' = TRUE /\ connectTimer' = FALSE /\ retryTimer' = TRUE
        /\ call' = CallAborted(id)
        /\ UNCHANGED pending

(* 204, an error answer, or no answer: the promise of the request ends. *)
Reply(p) ==
  LET r == post[p]
      ok == r.at = "accepted"
  IN /\ Quiet /\ r # None /\ r.awaited /\ r.at \in {"accepted", "refused", "lost"}
     /\ post' = [post EXCEPT ![p] = None]
     /\ chain' = IF r.owner \in Conns THEN Goto(chain, r.owner, IF ok THEN "loop" ELSE "failed") ELSE chain
     /\ call' = IF r.owner \in Listeners THEN [call EXCEPT ![r.owner] = IF ok THEN "done" ELSE "failed"] ELSE call
     /\ acked' = (acked \/ (ok /\ r.conn = clientId))
     /\ UNCHANGED <<link, stage, ahead, faults, subs, connVars, attached, lastSent, auth>>

(* A submission failed: the client id is dropped before the handler looks at it. *)
ChainFail(c) ==
  /\ chain[c].pc = "failed"
  /\ ConnectErrorHandler(None)
  /\ chain' = ChainOver(chain, c)
  /\ UNCHANGED faults

(* The stream's error event, and the timer of 15 s, which fires late unless the
   server or a request of the chain says nothing. *)
ConnError ==
  /\ Quiet /\ es # None /\ ~link[es]
  /\ ConnectErrorHandler(clientId)
  /\ chain' = ChainAborted(clientId)
  /\ UNCHANGED faults

Stalled == \/ stage[es] = "hung"
           \/ \E p \in InFlight : post[p].owner = es /\ post[p].at = "lost"

ConnectTimeout ==
  /\ Quiet /\ connectTimer
  /\ IF Stalled THEN UNCHANGED faults ELSE Fault
  /\ ConnectErrorHandler(clientId)
  /\ chain' = ChainAborted(clientId)

(* The reconnect timer fires. *)
RetryFires ==
  /\ Quiet /\ retryTimer
  /\ InitConnect
  /\ call' = CallAborted(clientId)
  /\ chain' = ChainAborted(clientId)
  /\ UNCHANGED <<faults, subs, retrying, pending>>

Calls ==
  \/ \E k \in Topics, l \in Listeners : Subscribe(k, l) \/ UnsubscribeListener(k, l)
  \/ \E K \in SUBSET Topics : K # {} /\ (Unsubscribe(K) \/ UnsubscribeByPrefix(K))
  \/ \E u \in Users \cup {None} : SignIn(u)

Tasks ==
  \/ \E c \in Conns : Greet(c) \/ ChainRetry(c) \/ ChainLeave(c) \/ ChainFinish(c) \/ ChainFail(c)
  \/ \E p \in Posts : Reply(p)
  \/ ConnError \/ ConnectTimeout \/ RetryFires

ClientNext == Calls \/ Tasks
=============================================================================
