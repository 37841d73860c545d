------------------------------ MODULE Realtime ------------------------------
(***************************************************************************)
(* One realtime client of jssdk and the realtime endpoints of pocketless.  *)
(***************************************************************************)
EXTENDS RealtimeClient, RealtimeServer

vars == <<netVars, clientVars, serverVars>>

Init == NetInit /\ ClientInit /\ ServerInit

Next == \/ ClientNext /\ UNCHANGED serverVars
        \/ ServerNext /\ UNCHANGED clientVars

Serve(c) == Register(c) \/ Listen(c) \/ Unregister(c) \/ Forget(c)

Handle(p) == Begin(p) \/ Finish(p)

(* Tasks of the client and handlers of the server go on; a server that hangs,
   refuses or loses does so by a fault. *)
Fairness ==
  /\ WF_vars(Tasks /\ UNCHANGED serverVars)
  /\ \A c \in Conns : WF_vars(Serve(c) /\ UNCHANGED clientVars)
  /\ \A p \in Posts : WF_vars(Handle(p) /\ UNCHANGED clientVars)

Spec == Init /\ [][Next]_vars /\ Fairness

TypeOK == NetTypeOK /\ ClientTypeOK /\ ServerTypeOK

(* An event never reaches a listener that was unsubscribed: what is attached
   to the stream is subscribed, and nothing is attached without a stream. *)
AttachedSubscribed ==
  /\ attached \subseteq Pairs(subs)
  /\ es = None => attached = {}

(* A call of subscribe that waits has something that ends it: the timer of the
   connect or of the next attempt, or a promise that is about to resolve it. *)
WaitGuarded ==
  pending # {} => \/ connectTimer \/ retryTimer
                  \/ \E c \in Conns : chain[c].pc \in {"finish", "failed"}

Awaited(o) == \E p \in InFlight : post[p].awaited /\ post[p].owner = o

(* Nobody is left behind: a call of subscribe, or a chain of promises, waits
   for a request only while one is under way for it that was not aborted, and
   for the connection only while it is among those whom the connection, its
   failure or a disconnect will resolve. *)
Attended ==
  /\ \A l \in Listeners : /\ call[l] = "connecting" => l \in pending
                          /\ call[l] = "submitting" => Awaited(l)
  /\ \A c \in Conns : chain[c].pc = "sent" => Awaited(c)

(* When the last submission was answered with 204, the server delivers every
   topic of it, whatever earlier submissions it was still working on. *)
ServerCovers ==
  clientId # None /\ acked /\ InBroker(clientId) => lastSent \subseteq subscribed[clientId]

(* A call of subscribe that connects returns, whatever fails. *)
ConnectSettles ==
  \A l \in Listeners : call[l] = "connecting" ~> call[l] # "connecting"

(* The server forgets a client whose stream was closed. *)
Unregisters == \A c \in Conns : InBroker(c) /\ es # c ~> ~InBroker(c)

(* connectErrorHandler, "otherwise -> reconnect in the background". *)
Reconnects == retrying ~> IsConnected \/ Keys(subs) = {}

(* POST /api/realtime, "only a guest may become a user, the user may not be
   changed": while a client is registered. *)
IdentityKept ==
  [][\A c \in Conns : identity[c] # None /\ InBroker(c)' => identity'[c] = identity[c]]_vars
=============================================================================
