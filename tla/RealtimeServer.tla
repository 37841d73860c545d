--------------------------- MODULE RealtimeServer ---------------------------
(***************************************************************************)
(* The realtime endpoints of pocketless: apis/realtime.ts with the broker  *)
(* and the clients of tools/subscriptions.  A handler runs alone between   *)
(* two awaits; other handlers run while it awaits a hook or a write.       *)
(***************************************************************************)
EXTENDS RealtimeNet

VARIABLES
  subscribed,  \* client.subscriptions() of each registered client
  identity     \* REALTIME_CLIENT_AUTH_KEY in the client's store

serverVars == <<subscribed, identity>>

ServerTypeOK ==
  /\ subscribed \in [Conns -> SUBSET Topics]
  /\ identity \in [Conns -> Users \cup {None}]

ServerInit ==
  /\ subscribed = [c \in Conns |-> {}]
  /\ identity = [c \in Conns |-> None]

(***************************************************************************)
(* GET /api/realtime.                                                      *)
(***************************************************************************)
To(c, s) == stage' = [stage EXCEPT ![c] = s]

(* The connect hook has returned: register, then write PB_CONNECT. *)
Register(c) ==
  /\ stage[c] = "opening"
  /\ To(c, "registered")
  /\ UNCHANGED <<link, post, ahead, faults, serverVars>>

(* The connect hook throws, or the request ends before the handler does anything. *)
Refuse(c) ==
  /\ stage[c] = "opening"
  /\ IF link[c] THEN Fault ELSE UNCHANGED faults
  /\ To(c, "none")
  /\ link' = [link EXCEPT ![c] = FALSE]
  /\ UNCHANGED <<post, ahead, serverVars>>

(* The connection is accepted and nothing ever comes. *)
Hang(c) ==
  /\ stage[c] = "opening" /\ Fault
  /\ To(c, "hung")
  /\ UNCHANGED <<link, post, ahead, serverVars>>

Forget(c) ==
  /\ stage[c] = "hung" /\ ~link[c]
  /\ To(c, "none")
  /\ UNCHANGED <<link, post, ahead, faults, serverVars>>

(* The write of PB_CONNECT has returned: onMessage, and the wait for the end. *)
Listen(c) ==
  /\ stage[c] = "registered"
  /\ To(c, "listening")
  /\ UNCHANGED <<link, post, ahead, faults, serverVars>>

(* The hook or the write of PB_CONNECT throws: finally, broker.unregister. *)
ConnectFails(c) ==
  /\ stage[c] = "registered" /\ Fault
  /\ To(c, "none")
  /\ link' = [link EXCEPT ![c] = FALSE]
  /\ subscribed' = [subscribed EXCEPT ![c] = {}]
  /\ identity' = [identity EXCEPT ![c] = None]
  /\ UNCHANGED <<post, ahead>>

(* The idle timer or a failed write discards the client. *)
Discard(c) ==
  /\ stage[c] = "listening" /\ Fault
  /\ To(c, "discarded")
  /\ UNCHANGED <<link, post, ahead, serverVars>>

(* Mutant: the wait does not look at stream.aborted, and an abort before the wait is missed. *)
EndedMissed(c) == stage[c] = "discarded"

Ended(c) == stage[c] = "discarded" \/ (stage[c] = "listening" /\ ~link[c])

(* The poll or the abort callback ends the wait: finally, broker.unregister. *)
Unregister(c) ==
  /\ Ended(c)
  /\ To(c, "none")
  /\ link' = [link EXCEPT ![c] = FALSE]
  /\ subscribed' = [subscribed EXCEPT ![c] = {}]
  /\ identity' = [identity EXCEPT ![c] = None]
  /\ UNCHANGED <<post, ahead, faults>>

(***************************************************************************)
(* POST /api/realtime.                                                     *)
(***************************************************************************)
(* Only a guest may become somebody. *)
SameAuth(r) == identity[r.conn] \in {None, r.user}

(* Up to the subscribe hook.  A request that is refused changes nothing; one
   that is not has all topics of its client cleared. *)
Begin(p) ==
  LET r == post[p]
      valid == InBroker(r.conn) /\ SameAuth(r)
  IN /\ r # None /\ r.at = "wire"
     /\ Ordered => ahead[p] = {}
     /\ OffWire(p)
     /\ Update(p, [r EXCEPT !.at = IF valid THEN "hook" ELSE "refused"])
     /\ subscribed' = IF valid THEN [subscribed EXCEPT ![r.conn] = {}] ELSE subscribed
     /\ UNCHANGED <<link, stage, faults, identity>>

(* Mutant: the old topics are cleared after the hook, with the new ones set. *)
FinishReplaces(p) ==
  LET r == post[p]
  IN /\ r # None /\ r.at = "hook"
     /\ Update(p, [r EXCEPT !.at = "accepted"])
     /\ subscribed' = IF InBroker(r.conn) THEN [subscribed EXCEPT ![r.conn] = r.topics] ELSE subscribed
     /\ identity' = IF InBroker(r.conn) THEN [identity EXCEPT ![r.conn] = r.user] ELSE identity
     /\ UNCHANGED <<link, stage, ahead, faults>>

(* After the hook: the identity, the topics, 204.  A client that has been
   unregistered meanwhile is out of the broker and matters no more. *)
Finish(p) ==
  LET r == post[p]
  IN /\ r # None /\ r.at = "hook"
     /\ Update(p, [r EXCEPT !.at = "accepted"])
     /\ subscribed' = IF InBroker(r.conn) THEN [subscribed EXCEPT ![r.conn] = @ \cup r.topics] ELSE subscribed
     /\ identity' = IF InBroker(r.conn) THEN [identity EXCEPT ![r.conn] = r.user] ELSE identity
     /\ UNCHANGED <<link, stage, ahead, faults>>

(* The subscribe hook throws: the topics stay cleared. *)
HookThrows(p) ==
  LET r == post[p]
  IN /\ r # None /\ r.at = "hook" /\ Fault
     /\ Update(p, [r EXCEPT !.at = "refused"])
     /\ UNCHANGED <<link, stage, ahead, serverVars>>

(***************************************************************************)
(* Faults.                                                                 *)
(***************************************************************************)
LinkFails(c) ==
  /\ link[c] /\ Fault
  /\ link' = [link EXCEPT ![c] = FALSE]
  /\ UNCHANGED <<stage, post, ahead, serverVars>>

(* A request is lost; one that was aborted may be dropped on the way. *)
Lose(p) ==
  LET r == post[p]
  IN /\ r # None /\ r.at = "wire"
     /\ IF r.awaited THEN Fault ELSE UNCHANGED faults
     /\ OffWire(p)
     /\ Update(p, [r EXCEPT !.at = "lost"])
     /\ UNCHANGED <<link, stage, serverVars>>

(* The server restarts: streams end, handlers are gone, nobody is registered. *)
Restart ==
  /\ Fault /\ \E c \in Conns : stage[c] # "none"
  /\ link' = [c \in Conns |-> FALSE]
  /\ stage' = [c \in Conns |-> "none"]
  /\ post' = [p \in Posts |-> IF post[p] # None /\ post[p].at = "hook"
                              THEN Settled([post[p] EXCEPT !.at = "lost"]) ELSE post[p]]
  /\ subscribed' = [c \in Conns |-> {}]
  /\ identity' = [c \in Conns |-> None]
  /\ UNCHANGED ahead

ServerNext ==
  \/ \E c \in Conns : \/ Register(c) \/ Refuse(c) \/ ConnectFails(c) \/ Hang(c) \/ Forget(c) \/ Listen(c)
                      \/ Discard(c) \/ Unregister(c) \/ LinkFails(c)
  \/ \E p \in Posts : Begin(p) \/ Finish(p) \/ HookThrows(p) \/ Lose(p)
  \/ Restart
=============================================================================
