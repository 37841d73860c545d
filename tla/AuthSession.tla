---------------------------- MODULE AuthSession ----------------------------
(***************************************************************************)
(* The session of a superuser in jssdk: the auth store that saves itself   *)
(* asynchronously (stores/AsyncAuthStore.ts), authWithPassword and         *)
(* authRefresh (services/RecordService.ts), the refresh before a request   *)
(* (tools/refresh.ts), and the cancellation of requests with the same key  *)
(* (Client.ts): all refreshes have one key, all sign-ins another.          *)
(*                                                                         *)
(* Of a token only whose it is and how near its end are kept.  Requests of *)
(* the application have keys of their own.  What follows an answer without *)
(* another request is one step: nothing else is assumed to run between the *)
(* reactions of its promises.                                              *)
(***************************************************************************)
EXTENDS Naturals, Sequences

CONSTANTS
  Users,     \* superusers
  Calls,     \* requests of the application
  NoUser,    \* no token; an empty save
  NoRequest,
  App,       \* the application, as the one that awaits a sign-in
  Load,      \* _loadInitial in the queue
  MaxQueue,  \* bound: saves queued, behind the load or not, when the application acts
  MaxLosses  \* bound: sign-ins refused, saves and loads that fail, reloads

ASSUME AuthAssumption ==
  /\ NoUser \notin Users /\ App \notin Calls
  /\ Load \notin Users \cup {NoUser}
  /\ NoRequest \notin [by : Calls, of : Users]
  /\ NoRequest \notin [by : Calls \cup {App}, of : Users, register : BOOLEAN]
  /\ MaxQueue \in Nat /\ MaxLosses \in Nat

VARIABLES
  user,     \* whose token and record the auth store holds
  life,     \* of that token; "expiring": within the threshold of its end
  auto,     \* whose session beforeSend refreshes (_resetAutoRefresh exists)
  call,     \* the application's requests, and whose refresh each goes through
  refresh,  \* the request to auth-refresh that is awaited, and by which call
  signIn,   \* the request to auth-with-password that is awaited
  queue,    \* AsyncAuthStore.queue
  saved,    \* what save and clear have made of the storage
  kept,     \* neither the last save nor a load since then failed (history)
  losses

authVars == <<user, life, auto, call, refresh, signIn, queue, saved, kept, losses>>

storeVars == <<queue, saved, kept>>

Idle == [pc |-> "idle", of |-> NoUser]

AuthInit ==
  /\ user = NoUser /\ saved = NoUser /\ life = "fresh"
  /\ auto = NoUser
  /\ call = [c \in Calls |-> Idle]
  /\ refresh = NoRequest /\ signIn = NoRequest
  /\ queue = <<Load>> /\ kept = TRUE
  /\ losses = 0

-----------------------------------------------------------------------------
Loss == losses < MaxLosses /\ losses' = losses + 1

Becomes(pc, u) == [pc |-> pc, of |-> u]

(* Mutant: whoever is in the store, the refresh stays. *)
AutoOfAny(u) == IF u = NoUser THEN NoUser ELSE auto

(* The callback of onChange: another user, or nobody, ends the refresh. *)
AutoOf(u) == IF auto = u THEN auto ELSE NoUser

(* save, and clear for NoUser: the store and the queue. *)
Save(u) == user' = u /\ queue' = Append(queue, u)

(* authResponse: a new token of u is saved. *)
Issued(u) == Save(u) /\ life' = "fresh" /\ UNCHANGED <<saved, kept>>

Quick == Len(SelectSeq(queue, LAMBDA u : u # Load)) < MaxQueue

-----------------------------------------------------------------------------
Awaits(request, c) == request # NoRequest /\ request.by = c

(* authWithPassword of u: the sign-in before it is aborted, and a call that *)
(* awaits that one fails.                                                   *)
Request(by, u, register, calls) ==
  /\ signIn' = [by |-> by, of |-> u, register |-> register]
  /\ call' = [c \in Calls |-> IF by # c /\ Awaits(signIn, c) THEN Idle ELSE calls[c]]

(* send, and beforeSend: the token is good, about to expire, or over.  A    *)
(* call whose refresh is aborted by another's goes on to sign in.           *)
Send(c) ==
  /\ call[c].pc = "idle" /\ Quick
  /\ \/ /\ auto = NoUser \/ life = "fresh"
        /\ call' = [call EXCEPT ![c] = Becomes("sent", auto)]
        /\ UNCHANGED <<refresh, signIn>>
     \/ /\ auto # NoUser /\ life = "expiring"
        /\ refresh' = [by |-> c, of |-> user]
        /\ call' = [d \in Calls |-> CASE d = c -> Becomes("refreshing", auto)
                                      [] d # c /\ Awaits(refresh, d) -> Becomes("refused", call[d].of)
                                      [] OTHER -> call[d]]
        /\ UNCHANGED signIn
     \/ /\ auto # NoUser /\ life = "expired"
        /\ Request(c, auto, FALSE, [call EXCEPT ![c] = Becomes("signing", auto)])
        /\ UNCHANGED refresh
  /\ UNCHANGED <<user, life, auto, storeVars, losses>>

(* catch: with the password this beforeSend was registered with. *)
Reauthenticate(c) ==
  /\ call[c].pc = "refused"
  /\ Request(c, call[c].of, FALSE, [call EXCEPT ![c].pc = "signing"])
  /\ UNCHANGED <<user, life, auto, refresh, storeVars, losses>>

Refreshed(c) ==
  /\ Awaits(refresh, c)
  /\ Issued(refresh.of)
  /\ auto' = AutoOf(refresh.of)
  /\ call' = [call EXCEPT ![c].pc = "sent"]
  /\ refresh' = NoRequest
  /\ UNCHANGED <<signIn, losses>>

(* The token is over by then, or the request fails. *)
RefreshRefused(c) ==
  /\ Awaits(refresh, c)
  /\ refresh' = NoRequest
  /\ call' = [call EXCEPT ![c].pc = "refused"]
  /\ UNCHANGED <<user, life, auto, signIn, storeVars, losses>>

(* authWithPassword has its answer: who is registered, and the call that waits. *)
SignedIn ==
  /\ signIn # NoRequest
  /\ Issued(signIn.of)
  /\ auto' = IF signIn.register THEN signIn.of ELSE AutoOf(signIn.of)
  /\ call' = [c \in Calls |-> IF Awaits(signIn, c) THEN [call[c] EXCEPT !.pc = "sent"] ELSE call[c]]
  /\ signIn' = NoRequest
  /\ UNCHANGED <<refresh, losses>>

(* Mutant: a call whose sign-in is refused tries again. *)
RefusedRetries ==
  /\ signIn # NoRequest
  /\ call' = [c \in Calls |-> IF Awaits(signIn, c) THEN [call[c] EXCEPT !.pc = "refused"] ELSE call[c]]
  /\ signIn' = NoRequest
  /\ UNCHANGED <<user, life, auto, refresh, storeVars, losses>>

SignInRefused ==
  /\ signIn # NoRequest /\ Loss
  /\ call' = [c \in Calls |-> IF Awaits(signIn, c) THEN Idle ELSE call[c]]
  /\ signIn' = NoRequest
  /\ UNCHANGED <<user, life, auto, refresh, storeVars>>

(* The answer to the request itself, whatever it is. *)
Answer(c) ==
  /\ call[c].pc = "sent"
  /\ call' = [call EXCEPT ![c] = Idle]
  /\ UNCHANGED <<user, life, auto, refresh, signIn, storeVars, losses>>

-----------------------------------------------------------------------------
(* The application signs in, with or without autoRefreshThreshold. *)
AuthWithPassword(u) ==
  /\ Quick
  /\ auto' = NoUser
  /\ \E register \in BOOLEAN : Request(App, u, register, call)
  /\ UNCHANGED <<user, life, refresh, storeVars, losses>>

Clear ==
  /\ Quick /\ user # NoUser
  /\ Save(NoUser)
  /\ auto' = AutoOf(NoUser)
  /\ UNCHANGED <<life, call, refresh, signIn, saved, kept, losses>>

Expire ==
  /\ user # NoUser /\ life # "expired"
  /\ life' = IF life = "fresh" THEN "expiring" ELSE "expired"
  /\ UNCHANGED <<user, auto, call, refresh, signIn, storeVars, losses>>

-----------------------------------------------------------------------------
(* Mutant: what is queued runs at once. *)
RunningAll == 1..Len(queue)

(* _dequeue runs the first; the next when its promise has settled. *)
Running == IF queue = <<>> THEN {} ELSE {1}

Dequeued(i) == SubSeq(queue, 1, i - 1) \o SubSeq(queue, i + 1, Len(queue))

(* What was saved, at any time of its life, is loaded and saved again; a   *)
(* load that fails is swallowed, and the storage keeps what it has.        *)
LoadInitial ==
  /\ queue # <<>> /\ Head(queue) = Load
  /\ \/ /\ saved = NoUser
        /\ queue' = Tail(queue)
        /\ UNCHANGED <<user, life, auto, kept, losses>>
     \/ /\ saved # NoUser
        /\ user' = saved /\ life' \in {"fresh", "expiring", "expired"}
        /\ queue' = Append(Tail(queue), saved)
        /\ auto' = AutoOf(saved)
        /\ UNCHANGED <<kept, losses>>
     \/ /\ saved # NoUser /\ Loss
        /\ queue' = Tail(queue) /\ kept' = FALSE
        /\ UNCHANGED <<user, life, auto>>
  /\ UNCHANGED <<call, refresh, signIn, saved>>

Persist ==
  /\ \E i \in Running :
       /\ queue[i] # Load
       /\ queue' = Dequeued(i)
       /\ \/ saved' = queue[i] /\ kept' = TRUE /\ UNCHANGED losses
          \/ Loss /\ kept' = FALSE /\ UNCHANGED saved
  /\ UNCHANGED <<user, life, auto, call, refresh, signIn>>

(* The page is loaded again, before or after the save that runs got through. *)
Reload ==
  /\ Loss
  /\ saved' \in {saved} \cup {queue[i] : i \in {j \in Running : queue[j] # Load}}
  /\ user' = NoUser /\ auto' = NoUser /\ life' = "fresh"
  /\ call' = [c \in Calls |-> Idle]
  /\ refresh' = NoRequest /\ signIn' = NoRequest
  /\ queue' = <<Load>> /\ kept' = TRUE

Answers(c) == Refreshed(c) \/ RefreshRefused(c) \/ Reauthenticate(c) \/ Answer(c)

AuthNext ==
  \/ \E c \in Calls : Send(c) \/ Answers(c)
  \/ SignedIn \/ SignInRefused
  \/ \E u \in Users : AuthWithPassword(u)
  \/ Clear \/ Expire \/ LoadInitial \/ Persist \/ Reload

AuthSpec == AuthInit /\ [][AuthNext]_authVars

-----------------------------------------------------------------------------
(* The shapes of the store, its queue and the requests. *)
AuthTypeOK ==
  /\ {user, saved, auto} \subseteq Users \cup {NoUser}
  /\ life \in {"fresh", "expiring", "expired"}
  /\ call \in [Calls -> [pc : {"idle", "refreshing", "refused", "signing", "sent"},
                         of : Users \cup {NoUser}]]
  /\ refresh \in [by : Calls, of : Users] \cup {NoRequest}
  /\ signIn \in [by : Calls \cup {App}, of : Users, register : BOOLEAN] \cup {NoRequest}
  /\ queue \in Seq(Users \cup {NoUser, Load})
  /\ kept \in BOOLEAN /\ losses \in Nat

(* A request that goes through the refresh of a user's session is sent with *)
(* a token of that user, and one that is not over, although others sign in  *)
(* and out, and abort its refresh, while it waits.                          *)
SentAsOwner ==
  [][\A c \in Calls :
       call[c].pc # "sent" /\ call'[c].pc = "sent" /\ call'[c].of # NoUser =>
         user' = call'[c].of /\ life' # "expired"]_authVars

(* Once AsyncAuthStore has nothing left to save, the storage holds what the *)
(* store holds, unless the last save failed or the load did and nothing was *)
(* saved since: saves do not overtake one another, nor the load of the      *)
(* initial state, behind which they may be queued.                          *)
PersistsLatest == queue = <<>> /\ kept => saved = user

(* A request ends, however others abort its refresh and its sign-in. *)
CallsEnd == \A c \in Calls : call[c].pc # "idle" ~> call[c].pc = "idle"

(* What CallsEnd rests on: a call that waits, waits for a request that has   *)
(* not been answered or aborted, so no abort and no answer leaves a call     *)
(* behind.                                                                   *)
CallsAwaited ==
  \A c \in Calls :
    /\ call[c].pc = "refreshing" => Awaits(refresh, c)
    /\ call[c].pc = "signing" => Awaits(signIn, c)

(* "This will trigger auto refresh or auto reauthentication" (CHANGELOG.md *)
(* of jssdk): a request fails before it is sent only if the server refuses. *)
NoneAborted ==
  [][\A c \in Calls : call[c].pc = "signing" /\ call'[c].pc = "idle" => losses' # losses]_authVars

(* Who has signed out stays out until the application signs in. *)
SignOutSticks ==
  [][user = NoUser /\ user' # NoUser =>
       \/ signIn # NoRequest /\ signIn.by = App
       \/ queue # <<>> /\ Head(queue) = Load]_authVars
=============================================================================
