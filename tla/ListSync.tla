------------------------------- MODULE ListSync -------------------------------
(* The stream of events of a shared list.                                   *)
(*                                                                          *)
(* src/services/list_sync.py and stream_list_events of                      *)
(* src/api/routers/lists.py: a handler that changed a list notifies one     *)
(* Postgres channel that all lists share; every open stream has a           *)
(* connection that listens to it, and sends its client the events of its    *)
(* own list.  A notification is on the wire of a connection until the       *)
(* stream polls; poll moves whatever has arrived into the connection's      *)
(* notifies, of which the stream takes one.  It polls only when select says *)
(* that there is something to read on the wire.                             *)
EXTENDS Integers, Sequences, FiniteSets

CONSTANTS
  SharedLists,
  Streams,    \* open connections of clients
  ListOf,     \* the list a stream is about
  MaxChanges, \* bound: changes of lists
  MaxStopped  \* bound: handlers that stop between a change and its publication

VARIABLES
  changes,   \* how many times lists were changed
  owed,      \* changes of a list whose handler has not published them yet
  published, \* the lists of all notifications, in order
  since,     \* how many notifications there were when a stream connected, or Off
  wire,      \* notifications a connection has received and not read
  notifies,  \* notifications read and not taken
  told,      \* how many events of its list a stream has sent
  stopped

syncVars == <<changes, owed, published, since, wire, notifies, told, stopped>>

Off == -1
Listening(c) == since[c] # Off
\* The places of a stream's own list in a sequence of notifications.
Own(c, log) == {i \in 1..Len(log) : log[i] = ListOf[c]}

SyncInit ==
  /\ changes = 0
  /\ owed = [l \in SharedLists |-> 0]
  /\ published = <<>>
  /\ since = [c \in Streams |-> Off]
  /\ wire = [c \in Streams |-> <<>>]
  /\ notifies = [c \in Streams |-> <<>>]
  /\ told = [c \in Streams |-> 0]
  /\ stopped = 0

\* A handler commits a change of a list; it publishes by another statement.
Change(l) ==
  /\ changes < MaxChanges
  /\ changes' = changes + 1
  /\ owed' = [owed EXCEPT ![l] = @ + 1]
  /\ UNCHANGED <<published, since, wire, notifies, told, stopped>>

PublishListSyncEvent(l) ==
  /\ owed[l] > 0
  /\ owed' = [owed EXCEPT ![l] = @ - 1]
  /\ published' = Append(published, l)
  /\ wire' = [c \in Streams |-> IF Listening(c) THEN Append(wire[c], l) ELSE wire[c]]
  /\ UNCHANGED <<changes, since, notifies, told, stopped>>

HandlerStops(l) ==
  /\ owed[l] > 0
  /\ stopped < MaxStopped
  /\ owed' = [owed EXCEPT ![l] = @ - 1]
  /\ stopped' = stopped + 1
  /\ UNCHANGED <<changes, published, since, wire, notifies, told>>

ConnectListener(c) ==
  /\ ~Listening(c)
  /\ since' = [since EXCEPT ![c] = Len(published)]
  /\ told' = [told EXCEPT ![c] = 0]
  /\ UNCHANGED <<changes, owed, published, wire, notifies, stopped>>

Readable(c) == wire[c] # <<>>

\* Mutant of WaitForListSyncEvent: of what has arrived only the first is kept.
WaitForLastEvent(c) ==
  /\ Listening(c)
  /\ Readable(c)
  /\ LET arrived == notifies[c] \o wire[c] IN
       told' = [told EXCEPT ![c] = IF Head(arrived) = ListOf[c] THEN @ + 1 ELSE @]
  /\ notifies' = [notifies EXCEPT ![c] = <<>>]
  /\ wire' = [wire EXCEPT ![c] = <<>>]
  /\ UNCHANGED <<changes, owed, published, since, stopped>>

\* select, poll, and the first notification; an event of another list is
\* dropped and the stream waits again.
WaitForListSyncEvent(c) ==
  /\ Listening(c)
  /\ Readable(c)
  /\ LET arrived == notifies[c] \o wire[c] IN
       /\ notifies' = [notifies EXCEPT ![c] = Tail(arrived)]
       /\ told' = [told EXCEPT ![c] = IF Head(arrived) = ListOf[c] THEN @ + 1 ELSE @]
  /\ wire' = [wire EXCEPT ![c] = <<>>]
  /\ UNCHANGED <<changes, owed, published, since, stopped>>

Disconnect(c) ==
  /\ Listening(c)
  /\ since' = [since EXCEPT ![c] = Off]
  /\ wire' = [wire EXCEPT ![c] = <<>>]
  /\ notifies' = [notifies EXCEPT ![c] = <<>>]
  /\ told' = [told EXCEPT ![c] = 0]
  /\ UNCHANGED <<changes, owed, published, stopped>>

SyncNext ==
  \/ \E l \in SharedLists : Change(l) \/ PublishListSyncEvent(l) \/ HandlerStops(l)
  \/ \E c \in Streams : ConnectListener(c) \/ WaitForListSyncEvent(c) \/ Disconnect(c)

\* Handlers go on to their publication, and streams are read.
SyncFairness ==
  /\ \A l \in SharedLists : WF_syncVars(PublishListSyncEvent(l))
  /\ \A c \in Streams : WF_syncVars(WaitForListSyncEvent(c))

SyncSpec == SyncInit /\ [][SyncNext]_syncVars
SyncFairSpec == SyncSpec /\ SyncFairness
-----------------------------------------------------------------------------
Missed(c) == Own(c, SubSeq(published, since[c] + 1, Len(published)))

SyncTypeOK ==
  /\ changes \in Nat /\ owed \in [SharedLists -> Nat] /\ stopped \in Nat
  /\ published \in Seq(SharedLists)
  /\ since \in [Streams -> Nat \union {Off}]
  /\ wire \in [Streams -> Seq(SharedLists)]
  /\ notifies \in [Streams -> Seq(SharedLists)]
  /\ told \in [Streams -> Nat]

\* However streams are polled, an event of a list that was published while a
\* stream was open was sent by it or is still held by its connection: none is
\* lost, sent twice or sent to the members of another list.
NoEventLost ==
  \A c \in Streams : Listening(c) =>
    told[c] + Cardinality(Own(c, notifies[c] \o wire[c])) = Cardinality(Missed(c))
-----------------------------------------------------------------------------
\* docs/flows.md:108, members "vedono la lista in tempo reale (SSE backend su
\* /lists/{id}/events, alimentato da Postgres NOTIFY)": what is published is sent
\* at last to every stream that stays open.
SeenInRealTime ==
  \A c \in Streams, n \in 1..MaxChanges :
    Listening(c) /\ Cardinality(Missed(c)) >= n ~> ~Listening(c) \/ told[c] >= n
=============================================================================
