----------------------------- MODULE ListMembers -----------------------------
(* Who shares which list: lists and their members, the list every user has  *)
(* selected, invites and the notifications that announce them.              *)
(*                                                                          *)
(* src/api/routers/lists.py over src/services/repositories/                 *)
(* lists_repository.py: a handler checks what it read, then executes one    *)
(* statement after the other, each committed by itself.  No statement is    *)
(* awaited, so the handlers of one server run one at a time; two servers    *)
(* overlap while a deployment replaces one by the other.  A server can stop *)
(* between two statements, and nothing finishes what it left.               *)
EXTENDS Naturals, Sequences, FiniteSets

CONSTANTS
  Users,
  Lists,     \* identifiers of lists
  Invites,   \* identifiers of invites, not yet in use at first
  Fleets,    \* sets of servers that run at once
  None,
  MaxRequests, \* bound: requests that change something
  MaxFaults    \* bound: servers that stop half-way

ASSUME BoundsAssumption == MaxRequests \in Nat /\ MaxFaults \in Nat
ASSUME NoneAssumption ==
  None \notin Users \union Lists \union Invites \union {"owner", "member"}

VARIABLES
  fleet,     \* the servers that run
  owner,     \* shopping_lists.user_id, None for a list that does not exist
  role,      \* list_members.role by list and user, None for no row
  active,    \* user_profiles.active_list_id
  invite,    \* list_invites
  note,      \* the notification of an invite: what it says, whether it is read
  job,       \* what every server executes
  sent, faults

vars == <<fleet, owner, role, active, invite, note, job, sent, faults>>
dataVars == <<owner, role, active, invite, note>>

Servers == UNION Fleets
Statement == {"insertList", "insertOwner", "select", "insertMember", "close",
              "markRead", "insertInvite", "notify", "retitle", "deleteMember",
              "fallBack"}
Closed == {"accepted", "declined", "revoked", "expired"}

\* verify_member, verify_owner and existing_member.
IsMember(l, u) == role[l][u] # None
IsOwner(l, u) == role[l][u] = "owner"

VisibleMemberships(u) == {l \in Lists : IsMember(l, u)}
OwnLists(u) == {l \in Lists : owner[l] = u}

\* resolved_list_id_for_user: the selected list if it is still visible, else
\* the user's own, else one that others share; the order is not modelled.
Resolved(u) ==
  IF active[u] \in VisibleMemberships(u) THEN {active[u]}
  ELSE IF OwnLists(u) # {} THEN OwnLists(u)
  ELSE IF VisibleMemberships(u) # {} THEN VisibleMemberships(u)
  ELSE {None}

\* What list_lists, list_members, list_list_invites and list_received_invites
\* answer, and what of the last list_pending_invites does.
Summaries(u) == VisibleMemberships(u) \union (Resolved(u) \ {None})
MembersOf(l) == {u \in Users : role[l][u] # None}
ListInvites(l) == {k \in Invites : invite[k] # None /\ invite[k].list = l}
ReceivedInvites(u) == {k \in Invites : invite[k] # None /\ invite[k].to = u}
ReceivedPending(u) == {k \in ReceivedInvites(u) : invite[k].status = "pending"}

PendingInvites(l, u) == ListInvites(l) \intersect ReceivedPending(u)

Idle == \A s \in fleet : job[s] = None
-----------------------------------------------------------------------------
\* The trigger of a registration makes a list and its owner's row
\* (handle_new_user); the handlers also expect users without one.
AtMostOne(first) ==
  \A k, l \in Lists : first[k] # None /\ first[k] = first[l] => k = l
Init ==
  /\ fleet \in Fleets
  /\ owner \in [Lists -> Users \union {None}]
  /\ AtMostOne(owner)
  /\ role = [l \in Lists |-> [u \in Users |-> IF u = owner[l] THEN "owner" ELSE None]]
  /\ active = [u \in Users |-> None]
  /\ invite = [k \in Invites |-> None]
  /\ note = [k \in Invites |-> None]
  /\ job = [s \in Servers |-> None]
  /\ sent = 0
  /\ faults = 0

Begin(s, u, l, k, status, todo) ==
  /\ s \in fleet
  /\ job[s] = None
  /\ sent < MaxRequests
  /\ sent' = sent + 1
  /\ job' = [job EXCEPT ![s] = [user |-> u, list |-> l, invite |-> k,
                                status |-> status, todo |-> todo]]
  /\ UNCHANGED <<fleet, dataVars, faults>>

\* list_lists and get_active_list give a user without a list one of their own.
CreateOwnList(s, u, l) ==
  /\ None \in Resolved(u)
  /\ owner[l] = None
  /\ \A t \in Servers : job[t] # None => job[t].list # l
  /\ Begin(s, u, l, None, "pending", <<"insertList", "insertOwner", "select">>)

\* get_active_list corrects a selection that is not what the user is shown.
GetActiveList(s, u) ==
  \E l \in Resolved(u) \ {None, active[u]} :
    Begin(s, u, l, None, "pending", <<"select">>)

SelectActiveList(s, u, l) ==
  /\ IsMember(l, u)
  /\ Begin(s, u, l, None, "pending", <<"select">>)

\* Mutant of Answerable: an invite that is closed is answered again.
AnswerableAgain(k, u) == k \in ReceivedInvites(u)

\* An invite of the user that is still open; a late one is closed as expired.
Answerable(k, u) == k \in ReceivedInvites(u) /\ invite[k].status = "pending"

ExpireInvite(s, u, k) ==
  /\ Answerable(k, u)
  /\ invite[k].late
  /\ Begin(s, u, invite[k].list, k, "expired", <<"close", "markRead">>)

AcceptPendingInvite(s, u, k) ==
  /\ Answerable(k, u)
  /\ ~invite[k].late
  /\ LET l == invite[k].list
     IN  Begin(s, u, l, k, "accepted",
               IF IsMember(l, u) THEN <<"select", "close", "markRead">>
               ELSE <<"insertMember", "select", "close", "markRead">>)

DeclinePendingInvite(s, u, k) ==
  /\ Answerable(k, u)
  /\ ~invite[k].late
  /\ Begin(s, u, invite[k].list, k, "declined", <<"close", "markRead">>)

InviteMemberByEmail(s, l, by, u, k) ==
  /\ IsOwner(l, by)
  /\ u # by
  /\ ~IsMember(l, u)
  /\ PendingInvites(l, u) = {}
  /\ invite[k] = None
  /\ \A t \in Servers : job[t] # None => job[t].invite # k
  /\ Begin(s, u, l, k, "pending", <<"insertInvite", "notify">>)

RevokeInvite(s, by, k) ==
  /\ \E l \in Lists : IsOwner(l, by) /\ k \in ListInvites(l)
  /\ invite[k].status = "pending"
  /\ Begin(s, invite[k].to, invite[k].list, k, "revoked", <<"close", "retitle">>)

\* Mutant of RemoveMember: an owner may leave.
RemoveAnyMember(s, l, by, u) ==
  /\ u \in MembersOf(l)
  /\ u = by \/ IsOwner(l, by)
  /\ Begin(s, u, l, None, "pending", <<"deleteMember", "fallBack">>)

\* Members leave by themselves; the owner removes others and never leaves.
RemoveMember(s, l, by, u) ==
  /\ u \in MembersOf(l)
  /\ IF u = by THEN role[l][by] = "member" ELSE IsOwner(l, by)
  /\ Begin(s, u, l, None, "pending", <<"deleteMember", "fallBack">>)
-----------------------------------------------------------------------------
\* The first statement a server has still to execute is st; then the rest.
Executes(s, st) ==
  /\ job[s] # None
  /\ Head(job[s].todo) = st
  /\ job' = [job EXCEPT ![s] = IF Len(job[s].todo) = 1 THEN None
                               ELSE [job[s] EXCEPT !.todo = Tail(@)]]
  /\ UNCHANGED <<fleet, sent, faults>>

InsertList(s) ==
  /\ Executes(s, "insertList")
  /\ owner' = [owner EXCEPT ![job[s].list] = job[s].user]
  /\ UNCHANGED <<role, active, invite, note>>

WithRole(l, u, r) == [role EXCEPT ![l][u] = IF @ = None THEN r ELSE @]

InsertOwner(s) ==
  /\ Executes(s, "insertOwner")
  /\ role' = WithRole(job[s].list, job[s].user, "owner")
  /\ UNCHANGED <<owner, active, invite, note>>

InsertMember(s) ==
  /\ Executes(s, "insertMember")
  /\ role' = WithRole(job[s].list, job[s].user, "member")
  /\ UNCHANGED <<owner, active, invite, note>>

SetActiveListId(s) ==
  /\ Executes(s, "select")
  /\ active' = [active EXCEPT ![job[s].user] = job[s].list]
  /\ UNCHANGED <<owner, role, invite, note>>

SetInviteStatus(s) ==
  /\ Executes(s, "close")
  /\ invite' = [invite EXCEPT ![job[s].invite].status = job[s].status]
  /\ UNCHANGED <<owner, role, active, note>>

MarkInviteNotificationsRead(s) ==
  /\ Executes(s, "markRead")
  /\ note' = [note EXCEPT ![job[s].invite] = IF @ = None THEN None ELSE [@ EXCEPT !.read = TRUE]]
  /\ UNCHANGED <<owner, role, active, invite>>

\* Two pending invites of one user to one list violate the unique index.
InsertListInvite(s) ==
  LET j == job[s] IN
  \/ /\ j # None
     /\ PendingInvites(j.list, j.user) = {}
     /\ Executes(s, "insertInvite")
     /\ invite' = [invite EXCEPT ![j.invite] =
                     [list |-> j.list, to |-> j.user, status |-> "pending", late |-> FALSE]]
     /\ UNCHANGED <<owner, role, active, note>>
  \/ /\ j # None
     /\ Head(j.todo) = "insertInvite"
     /\ PendingInvites(j.list, j.user) # {}
     /\ job' = [job EXCEPT ![s] = None]
     /\ UNCHANGED <<fleet, dataVars, sent, faults>>

CreateAppNotification(s) ==
  /\ Executes(s, "notify")
  /\ note' = [note EXCEPT ![job[s].invite] = [says |-> "pending", read |-> FALSE]]
  /\ UNCHANGED <<owner, role, active, invite>>

UpdateInviteNotifications(s) ==
  /\ Executes(s, "retitle")
  /\ note' = [note EXCEPT ![job[s].invite] =
                IF @ = None THEN None ELSE [@ EXCEPT !.says = "revoked"]]
  /\ UNCHANGED <<owner, role, active, invite>>

DeleteMember(s) ==
  /\ Executes(s, "deleteMember")
  /\ role' = [role EXCEPT ![job[s].list][job[s].user] = None]
  /\ UNCHANGED <<owner, active, invite, note>>

\* A user whose selected list is gone gets their own one back, or none.
FallBackSelectedList(s) ==
  /\ Executes(s, "fallBack")
  /\ LET u == job[s].user
         own == IF OwnLists(u) = {} THEN {None} ELSE OwnLists(u)
     IN  IF active[u] = job[s].list
         THEN \E l \in own : active' = [active EXCEPT ![u] = l]
         ELSE UNCHANGED active
  /\ UNCHANGED <<owner, role, invite, note>>
-----------------------------------------------------------------------------
\* Seven days pass.
InviteGetsLate(k) ==
  /\ invite[k] # None
  /\ ~invite[k].late
  /\ invite' = [invite EXCEPT ![k].late = TRUE]
  /\ UNCHANGED <<fleet, owner, role, active, note, job, sent, faults>>

\* mark_all_notifications_read and delete_notifications, of one's own inbox.
Addressed(u) == {k \in ReceivedInvites(u) : note[k] # None}
ReadInbox(u) ==
  /\ note' = [k \in Invites |-> IF k \in Addressed(u) THEN [note[k] EXCEPT !.read = TRUE]
                                ELSE note[k]]
  /\ UNCHANGED <<fleet, owner, role, active, invite, job, sent, faults>>
DeleteFromInbox(u) ==
  /\ \E ks \in SUBSET Addressed(u) :
       note' = [k \in Invites |-> IF k \in ks THEN None ELSE note[k]]
  /\ UNCHANGED <<fleet, owner, role, active, invite, job, sent, faults>>

Crash(s) ==
  /\ job[s] # None
  /\ faults < MaxFaults
  /\ faults' = faults + 1
  /\ job' = [job EXCEPT ![s] = None]
  /\ UNCHANGED <<fleet, dataVars, sent>>

Receive(s, u) ==
  \/ GetActiveList(s, u)
  \/ \E l \in Lists :
       \/ CreateOwnList(s, u, l) \/ SelectActiveList(s, u, l)
       \/ \E t \in Users : RemoveMember(s, l, u, t)
                           \/ \E k \in Invites : InviteMemberByEmail(s, l, u, t, k)
  \/ \E k \in Invites : \/ ExpireInvite(s, u, k) \/ AcceptPendingInvite(s, u, k)
                        \/ DeclinePendingInvite(s, u, k) \/ RevokeInvite(s, u, k)

Execute(s) ==
  \/ InsertList(s) \/ InsertOwner(s) \/ SetActiveListId(s) \/ InsertMember(s)
  \/ SetInviteStatus(s) \/ MarkInviteNotificationsRead(s) \/ InsertListInvite(s)
  \/ CreateAppNotification(s) \/ UpdateInviteNotifications(s)
  \/ DeleteMember(s) \/ FallBackSelectedList(s)

Next ==
  \/ \E s \in Servers : Execute(s) \/ Crash(s) \/ \E u \in Users : Receive(s, u)
  \/ \E k \in Invites : InviteGetsLate(k)
  \/ \E u \in Users : ReadInbox(u) \/ DeleteFromInbox(u)

Spec == Init /\ [][Next]_vars
-----------------------------------------------------------------------------
Invite == [list: Lists, to: Users, status: Closed \union {"pending"}, late: BOOLEAN]
Note == [says: {"pending", "revoked"}, read: BOOLEAN]
Job == [user: Users, list: Lists, invite: Invites \union {None},
        status: Closed \union {"pending"}, todo: Seq(Statement)]
ASSUME NoJobAssumption == None \notin Job

TypeOK ==
  /\ fleet \in Fleets
  /\ owner \in [Lists -> Users \union {None}]
  /\ role \in [Lists -> [Users -> {"owner", "member", None}]]
  /\ active \in [Users -> Lists \union {None}]
  /\ invite \in [Invites -> Invite \union {None}]
  /\ note \in [Invites -> Note \union {None}]
  /\ job \in [Servers -> Job \union {None}]
  /\ sent \in Nat
  /\ faults \in Nat

\* A user has at most one open invite to a list, whatever two servers decide
\* from what they read before.
OnePendingInvite ==
  \A l \in Lists, u \in Users : Cardinality(PendingInvites(l, u)) <= 1

\* The list a user is shown is their own or one they are a member of, also
\* when a removal stopped before the selection was corrected, or a selection
\* was written after the removal.
RemovedMemberNotShown ==
  \A u \in Users : \A l \in Summaries(u) : IsMember(l, u) \/ owner[l] = u

\* The owner's row of a list stays: no sequence of removals, invites and
\* answers leaves a list without the one member who can administer it.
OwnerStays ==
  [][\A l \in Lists, u \in Users : role[l][u] = "owner" => role'[l][u] = "owner"]_vars

OneServer == \E s \in fleet : fleet = {s}

\* One server answers an invite once, even when a handler stopped half-way:
\* what was accepted, declined, revoked or expired stays so.
ClosedInviteStays ==
  [][OneServer => \A k \in Invites :
       invite[k] # None /\ invite[k].status # "pending" =>
         invite'[k].status = invite[k].status]_vars

\* One server gives a user at most one list of their own, even when it stopped
\* between the list and its owner's row.
OneOwnList == OneServer => \A u \in Users : Cardinality(OwnLists(u)) <= 1

\* When nothing stopped half-way, no unread notification offers an invite that
\* is closed.
InboxAgrees ==
  OneServer /\ faults = 0 /\ Idle =>
    \A k \in Invites :
      invite[k] # None /\ note[k] # None /\ invite[k].status # "pending" =>
        note[k].read \/ note[k].says = "revoked"
-----------------------------------------------------------------------------
\* get_active_list, src/api/routers/lists.py: "Return the single visible
\* shopping list. Creates owner list if missing."
ActiveListOpens ==
  Idle => \A u \in Users : \A l \in Resolved(u) \ {None} : IsMember(l, u)
=============================================================================
