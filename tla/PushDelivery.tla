----------------------------- MODULE PushDelivery -----------------------------
(* Subscriptions of devices to push notifications, and what is sent to them. *)
(*                                                                           *)
(* src/api/routers/push.py and src/services/push_notify.py.  A device has an *)
(* endpoint (a Web Push endpoint or an FCM token); the app registers it for  *)
(* the account that is signed in.  Deliveries run in threads of workers:     *)
(* each reads the subscriptions of its user once, sends to the Web Push      *)
(* endpoints, then to the tokens, and last forgets the endpoints that the    *)
(* push service called gone.  The push services and the devices are          *)
(* external.                                                                 *)
EXTENDS Processes

CONSTANTS
  Users,
  Endpoints,
  Native,      \* the endpoints that are FCM tokens
  Deliveries,  \* threads that deliver
  Reuse,       \* ticks for which an FCM access token is used again
  Lifetime     \* ticks for which it is valid

VARIABLES
  subs,      \* table push_subscriptions, by user and endpoint
  signedIn,  \* the account of a device
  gone,      \* endpoints that are revoked for good
  joining,   \* handlers between their two requests
  sends,     \* deliveries under way
  tokenAge,  \* ticks since the FCM access token was fetched, or None
  pushFaults

pushVars == <<subs, signedIn, gone, joining, sends, tokenAge, pushFaults>>

NoSend == [user |-> None, todo |-> {}, stale |-> {}]
Joining == Cardinality({h \in Handlers : joining[h] # None})

PushInit ==
  /\ subs = {}
  /\ signedIn = [e \in Endpoints |-> None]
  /\ gone = {}
  /\ joining = [h \in Handlers |-> None]
  /\ sends = [d \in Deliveries |-> NoSend]
  /\ tokenAge = None
  /\ pushFaults = 0

(* -------------------------------- devices -------------------------------- *)

SignIn(e, u) ==
  /\ e \notin gone /\ signedIn[e] # u
  /\ signedIn' = [signedIn EXCEPT ![e] = u]
  /\ UNCHANGED <<subs, gone, joining, sends, tokenAge, pushFaults>>

\* A browser or an app that is removed never uses its endpoint again.
Revoke(e) ==
  /\ e \notin gone
  /\ gone' = gone \union {e}
  /\ signedIn' = [signedIn EXCEPT ![e] = None]
  /\ UNCHANGED <<subs, joining, sends, tokenAge, pushFaults>>

(* ------------------------------- handlers -------------------------------- *)

\* Mutant of Subscribe: the rows of other users stay.
SubscribeBeside(h, e) ==
  LET u == signedIn[e] IN
  /\ u # None /\ joining[h] = None /\ Joining < Servers
  /\ joining' = [joining EXCEPT ![h] = <<u, e>>]
  /\ UNCHANGED <<subs, signedIn, gone, sends, tokenAge, pushFaults>>

\* The rows other users have for the endpoint are deleted, then the user's own
\* is written.  Nothing but the pair of user and endpoint is unique.
Subscribe(h, e) ==
  LET u == signedIn[e] IN
  /\ u # None /\ joining[h] = None /\ Joining < Servers
  /\ subs' = {s \in subs : s[2] # e \/ s[1] = u}
  /\ joining' = [joining EXCEPT ![h] = <<u, e>>]
  /\ UNCHANGED <<signedIn, gone, sends, tokenAge, pushFaults>>

Upsert(h) ==
  /\ joining[h] # None
  /\ subs' = subs \union {joining[h]}
  /\ joining' = [joining EXCEPT ![h] = None]
  /\ UNCHANGED <<signedIn, gone, sends, tokenAge, pushFaults>>

StopSubscribe(h) ==
  /\ joining[h] # None /\ pushFaults < MaxFaults
  /\ joining' = [joining EXCEPT ![h] = None]
  /\ pushFaults' = pushFaults + 1
  /\ UNCHANGED <<subs, signedIn, gone, sends, tokenAge>>

Unsubscribe(e) ==
  /\ signedIn[e] # None /\ Joining < Servers
  /\ subs' = subs \ {<<signedIn[e], e>>}
  /\ UNCHANGED <<signedIn, gone, joining, sends, tokenAge, pushFaults>>

\* A logout deletes the subscriptions of every device of the user.
DeleteAllSubscriptions(e) ==
  /\ signedIn[e] # None /\ Joining < Servers
  /\ subs' = {s \in subs : s[1] # signedIn[e]}
  /\ signedIn' = [signedIn EXCEPT ![e] = None]
  /\ UNCHANGED <<gone, joining, sends, tokenAge, pushFaults>>

(* ------------------------------- deliveries ------------------------------ *)

LoadPushSubscriptions(d, u) ==
  LET own == {e \in Endpoints : <<u, e>> \in subs} IN
  /\ sends[d] = NoSend /\ own # {}
  /\ sends' = [sends EXCEPT ![d] = [user |-> u, todo |-> own, stale |-> {}]]
  /\ UNCHANGED <<subs, signedIn, gone, joining, tokenAge, pushFaults>>

\* The token the provider gives out: the one it has, while it may be reused.
Got(age) == IF age # None /\ age < Reuse THEN age ELSE 0

\* What is left of a delivery when a send to e is answered.
Answered(send, e) ==
  [send EXCEPT !.todo = @ \ {e}, !.stale = IF e \in gone THEN @ \union {e} ELSE @]

\* Mutant of Attempt: any error of the push service makes an endpoint stale.
AttemptErrorsGone(d, e) ==
  \/ /\ sends' = [sends EXCEPT ![d] = Answered(@, e)]
     /\ UNCHANGED pushFaults
  \/ /\ sends' = [sends EXCEPT ![d].todo = @ \ {e}, ![d].stale = @ \union {e}]
     /\ pushFaults < MaxFaults /\ pushFaults' = pushFaults + 1

\* A push is accepted, or its endpoint is gone, or it fails and is given up.
Attempt(d, e) ==
  \/ /\ sends' = [sends EXCEPT ![d] = Answered(@, e)]
     /\ UNCHANGED pushFaults
  \/ /\ sends' = [sends EXCEPT ![d].todo = @ \ {e}]
     /\ pushFaults < MaxFaults /\ pushFaults' = pushFaults + 1

SendWeb(d, e) ==
  /\ e \in sends[d].todo \ Native
  /\ Attempt(d, e)
  /\ UNCHANGED <<subs, signedIn, gone, joining, tokenAge>>

SendNative(d, e) ==
  /\ e \in Native /\ e \in sends[d].todo /\ sends[d].todo \subseteq Native
  /\ tokenAge' = Got(tokenAge)
  /\ Attempt(d, e)
  /\ UNCHANGED <<subs, signedIn, gone, joining>>

\* Whoever has a stale endpoint loses it; a request that fails is given up.
DeleteStale(d, e) ==
  /\ sends[d].todo = {} /\ e \in sends[d].stale
  /\ sends' = [sends EXCEPT ![d].stale = @ \ {e}]
  /\ \/ /\ subs' = {s \in subs : s[2] # e}
        /\ UNCHANGED pushFaults
     \/ /\ pushFaults < MaxFaults /\ pushFaults' = pushFaults + 1
        /\ UNCHANGED subs
  /\ UNCHANGED <<signedIn, gone, joining, tokenAge>>

Delivered(d) ==
  /\ sends[d] # NoSend /\ sends[d].todo = {} /\ sends[d].stale = {}
  /\ sends' = [sends EXCEPT ![d] = NoSend]
  /\ UNCHANGED <<subs, signedIn, gone, joining, tokenAge, pushFaults>>

Tick ==
  /\ tokenAge # None /\ tokenAge < Lifetime
  /\ tokenAge' = tokenAge + 1
  /\ UNCHANGED <<subs, signedIn, gone, joining, sends, pushFaults>>

PushNext ==
  \/ \E e \in Endpoints, u \in Users : SignIn(e, u)
  \/ \E e \in Endpoints : Revoke(e) \/ Unsubscribe(e) \/ DeleteAllSubscriptions(e)
  \/ \E h \in Handlers, e \in Endpoints : Subscribe(h, e)
  \/ \E h \in Handlers : Upsert(h) \/ StopSubscribe(h)
  \/ \E d \in Deliveries, u \in Users : LoadPushSubscriptions(d, u)
  \/ \E d \in Deliveries, e \in Endpoints : SendWeb(d, e) \/ SendNative(d, e) \/ DeleteStale(d, e)
  \/ \E d \in Deliveries : Delivered(d)
  \/ Tick

PushSpec == PushInit /\ [][PushNext]_pushVars

(* ------------------------------- properties ------------------------------ *)

\* Subscriptions, devices, handlers and deliveries hold what their names say.
PushTypeOK ==
  /\ subs \subseteq Users \X Endpoints
  /\ signedIn \in [Endpoints -> Users \union {None}]
  /\ gone \subseteq Endpoints
  /\ joining \in [Handlers -> (Users \X Endpoints) \union {None}]
  /\ sends \in [Deliveries -> [user : Users \union {None}, todo : SUBSET Endpoints,
                               stale : SUBSET Endpoints]]
  /\ tokenAge \in 0..Lifetime \union {None}
  /\ pushFaults \in 0..MaxFaults

\* An endpoint is subscribed by one user at most: no index says so, it is the
\* one server whose handlers exclude one another (subscribe, subscribe_native).
OneOwner == \A s, t \in subs : s[2] = t[2] => s = t

\* A delivery, however old what it read is, unsubscribes endpoints that are
\* gone and no other (_delete_stale_push_endpoints, _delete_stale_native_tokens).
DeliveriesDropGoneOnly ==
  [][sends' # sends => subs \ subs' \subseteq Users \X gone]_pushVars

\* A native push presents an access token that is still valid
\* (FcmAccessTokenProvider.get).
TokenIsValid ==
  [][\A d \in Deliveries, e \in Native :
       e \in sends[d].todo \ sends'[d].todo => tokenAge' < Lifetime]_pushVars

\* A push reaches a device on which its user is signed in, or nobody
\* (refuted: the subscriptions are read before the device changes hands).
PushesReachTheirUser ==
  [][\A d \in Deliveries, e \in Endpoints :
       e \in sends[d].todo \ sends'[d].todo => signedIn[e] \in {sends[d].user, None}]_pushVars
=============================================================================
