------------------------------- MODULE ListsProofs -------------------------------
(***************************************************************************)
(* Theorems about shared lists, for any users, lists, invites, streams,    *)
(* purchases and bounds: who owns and is shown a list (ListMembers, for    *)
(* any fleet of servers), the events that a stream sends (ListSync) and    *)
(* the pages of the history of purchases (PurchaseHistory).                *)
(***************************************************************************)
EXTENDS ListMembers, ListSync, PurchaseHistory, FiniteSetTheorems, SequenceTheorems, TLAPS

(* --------------------------------- members -------------------------------- *)

\* What a server may still have to execute.
Todos ==
  {<<"insertList", "insertOwner", "select">>, <<"insertOwner", "select">>, <<"select">>,
   <<"insertMember", "select", "close", "markRead">>, <<"select", "close", "markRead">>,
   <<"close", "markRead">>, <<"markRead">>, <<"insertInvite", "notify">>, <<"notify">>,
   <<"close", "retitle">>, <<"retitle">>, <<"deleteMember", "fallBack">>, <<"fallBack">>}


\* Those that still close an invite.
Closings ==
  {<<"insertMember", "select", "close", "markRead">>, <<"select", "close", "markRead">>,
   <<"close", "markRead">>, <<"close", "retitle">>}

\* A list with an owner among its members.
Governed(l) == \E u \in Users : role[l][u] = "owner"
GovernedNext(l) == \E u \in Users : role'[l][u] = "owner"
Fresh(j) == Head(j.todo) \in {"insertList", "insertOwner"}

\* What holds of a job while it is under way: a list that is being created has
\* no members yet, whoever joins, is invited or leaves does so in a list with
\* an owner, and the owner is not the one who leaves.
JobFits(j) ==
  /\ j.todo \in Todos
  /\ j.todo \in Closings =>
       j.invite \in Invites /\ invite[j.invite] \in Invite /\ Governed(invite[j.invite].list)
  /\ Fresh(j) => ~Governed(j.list)
  /\ Head(j.todo) = "insertOwner" => owner[j.list] = j.user
  /\ Head(j.todo) \in {"insertMember", "insertInvite", "deleteMember"} => Governed(j.list)
  /\ Head(j.todo) = "deleteMember" => role[j.list][j.user] # "owner"

OwnerOwns == \A l \in Lists, u \in Users : role[l][u] = "owner" => owner[l] = u
MembersHaveOwner == \A l \in Lists, u \in Users : role[l][u] # None => Governed(l)
InvitesHaveOwner == \A k \in Invites : invite[k] # None => Governed(invite[k].list)
JobsFit == \A s \in Servers : job[s] # None => JobFits(job[s])
\* No list is created twice.
OneCreates ==
  \A s, t \in Servers :
    job[s] # None /\ job[t] # None /\ job[s].list = job[t].list
    /\ Fresh(job[s]) /\ Fresh(job[t]) => s = t

Inv == TypeOK /\ OwnerOwns /\ MembersHaveOwner /\ InvitesHaveOwner /\ JobsFit /\ OneCreates
-----------------------------------------------------------------------------
\* One statement after the other.
LEMMA TodoSteps ==
  ASSUME NEW todo \in Todos
  PROVE  /\ todo \in Seq(Statement) /\ Head(todo) \in Statement
         /\ Len(todo) = 1 \/ Tail(todo) \in Todos
         /\ Tail(todo) \in Closings => todo \in Closings
         /\ Len(todo) # 1 => Head(Tail(todo)) \notin
              {"insertList", "insertMember", "insertInvite", "deleteMember"}
         /\ Len(todo) # 1 /\ Head(Tail(todo)) = "insertOwner" => Head(todo) = "insertList"
         /\ Head(todo) = "insertList" => todo = <<"insertList", "insertOwner", "select">>
         /\ Head(todo) = "insertOwner" => todo = <<"insertOwner", "select">>
         /\ Head(todo) = "close" => todo \in Closings
<1>1. CASE todo = <<"insertList", "insertOwner", "select">>
  BY <1>1 DEF Todos, Closings, Statement
<1>2. CASE todo = <<"insertOwner", "select">>
  BY <1>2 DEF Todos, Closings, Statement
<1>3. CASE todo = <<"select">>
  BY <1>3 DEF Todos, Closings, Statement
<1>4. CASE todo = <<"insertMember", "select", "close", "markRead">>
  BY <1>4 DEF Todos, Closings, Statement
<1>5. CASE todo = <<"select", "close", "markRead">>
  BY <1>5 DEF Todos, Closings, Statement
<1>6. CASE todo = <<"close", "markRead">>
  BY <1>6 DEF Todos, Closings, Statement
<1>7. CASE todo = <<"markRead">>
  BY <1>7 DEF Todos, Closings, Statement
<1>8. CASE todo = <<"insertInvite", "notify">>
  BY <1>8 DEF Todos, Closings, Statement
<1>9. CASE todo = <<"notify">>
  BY <1>9 DEF Todos, Closings, Statement
<1>10. CASE todo = <<"close", "retitle">>
  BY <1>10 DEF Todos, Closings, Statement
<1>11. CASE todo = <<"retitle">>
  BY <1>11 DEF Todos, Closings, Statement
<1>12. CASE todo = <<"deleteMember", "fallBack">>
  BY <1>12 DEF Todos, Closings, Statement
<1>13. CASE todo = <<"fallBack">>
  BY <1>13 DEF Todos, Closings, Statement
<1> QED BY <1>1, <1>2, <1>3, <1>4, <1>5, <1>6, <1>7, <1>8, <1>9, <1>10, <1>11, <1>12, <1>13 DEF Todos

LEMMA KnownJob ==
  ASSUME Inv, NEW s \in Servers, job[s] # None
  PROVE  /\ job[s] \in Job /\ JobFits(job[s]) /\ job[s].todo \in Todos
         /\ job[s].user \in Users /\ job[s].list \in Lists
         /\ job[s].invite \in Invites \union {None}
BY DEF Inv, TypeOK, JobsFit, JobFits, Job

\* What is left of a job when its first statement was executed.
LEMMA RestOfJob ==
  ASSUME NEW j \in Job, j.todo \in Todos, Len(j.todo) # 1,
         NEW i, i = [j EXCEPT !.todo = Tail(j.todo)]
  PROVE  /\ i \in Job /\ i.todo = Tail(j.todo) /\ i.todo \in Todos
         /\ i.list = j.list /\ i.user = j.user /\ i.invite = j.invite /\ i.status = j.status
<1>1. Tail(j.todo) \in Todos BY TodoSteps
<1>2. Tail(j.todo) \in Seq(Statement) BY <1>1, TodoSteps
<1> QED BY <1>1, <1>2 DEF Job

\* A server goes on with what is left, is done or stops.
Advances(s) ==
  \/ job'[s] = job[s]
  \/ job'[s] = None
  \/ /\ job[s] # None
     /\ Len(job[s].todo) # 1
     /\ job'[s] = [job[s] EXCEPT !.todo = Tail(job[s].todo)]

LEMMA ExecutesAdvances ==
  ASSUME Inv, NEW s \in Servers, NEW st, Executes(s, st)
  PROVE  /\ job[s] # None /\ Head(job[s].todo) = st
         /\ \A t \in Servers : Advances(t) /\ (t # s => job'[t] = job[t])
         /\ fleet' = fleet /\ sent' = sent /\ faults' = faults
         /\ job' \in [Servers -> Job \union {None}]
<1>1. job[s] # None /\ Head(job[s].todo) = st BY DEF Executes
<1>2. job[s] \in Job /\ job[s].todo \in Todos BY <1>1, KnownJob
<1>3. job \in [Servers -> Job \union {None}] BY DEF Inv, TypeOK
<1> DEFINE rest == [job[s] EXCEPT !.todo = Tail(job[s].todo)]
<1>4. Len(job[s].todo) # 1 => rest \in Job BY <1>2, RestOfJob
<1>5. job' = [job EXCEPT ![s] = IF Len(job[s].todo) = 1 THEN None ELSE rest]
  BY DEF Executes
<1> HIDE DEF rest
<1>6. job' \in [Servers -> Job \union {None}] BY <1>3, <1>4, <1>5
<1>7. \A t \in Servers : t # s => job'[t] = job[t] BY <1>3, <1>5
<1>8. Advances(s)
  <2>1. CASE Len(job[s].todo) = 1
    BY <2>1, <1>3, <1>5 DEF Advances
  <2>2. CASE Len(job[s].todo) # 1
    <3>1. job'[s] = rest BY <2>2, <1>3, <1>5
    <3> QED BY <2>2, <3>1, <1>1 DEF Advances, rest
  <2> QED BY <2>1, <2>2
<1>9. \A t \in Servers : Advances(t) BY <1>7, <1>8 DEF Advances
<1> QED BY <1>1, <1>6, <1>7, <1>9 DEF Executes

\* A step that moves no owner and creates no list: members come and go, invites
\* of lists that have an owner are made and closed, and servers go on.
LEMMA StepKeeps ==
  ASSUME Inv, TypeOK', owner' = owner,
         \A s \in Servers : Advances(s)
           /\ (job[s] # None /\ Head(job[s].todo) = "insertList" =>
                 job'[s] = job[s] \/ job'[s] = None),
         \A l \in Lists, u \in Users :
           /\ role'[l][u] = "owner" <=> role[l][u] = "owner"
           /\ role'[l][u] # None => Governed(l),
         \A k \in Invites :
           /\ invite'[k] # None => Governed(invite'[k].list)
           /\ invite[k] \in Invite /\ Governed(invite[k].list) =>
                invite'[k] \in Invite /\ Governed(invite'[k].list)
  PROVE  Inv'
<1>0. TypeOK /\ OwnerOwns /\ JobsFit /\ OneCreates BY DEF Inv
<1>1. \A l \in Lists : Governed(l) <=> GovernedNext(l) BY DEF Governed, GovernedNext
<1>2. OwnerOwns' BY <1>0 DEF OwnerOwns
<1>3. MembersHaveOwner' BY <1>1 DEF MembersHaveOwner, Governed, GovernedNext
<1>4. \A k \in Invites : invite'[k] # None => invite'[k].list \in Lists
  BY DEF TypeOK, Invite
<1>5. InvitesHaveOwner' BY <1>1, <1>4 DEF InvitesHaveOwner, Governed, GovernedNext
<1>6. ASSUME NEW s \in Servers, job'[s] # None, job'[s] # job[s]
      PROVE  /\ job[s] # None /\ job[s] \in Job /\ JobFits(job[s]) /\ job[s].todo \in Todos
             /\ Len(job[s].todo) # 1 /\ Head(job[s].todo) # "insertList"
             /\ job'[s].todo = Tail(job[s].todo) /\ job'[s].todo \in Todos
             /\ job'[s].list = job[s].list /\ job'[s].user = job[s].user
             /\ job'[s].invite = job[s].invite
  <2>1. /\ job[s] # None /\ Len(job[s].todo) # 1
        /\ job'[s] = [job[s] EXCEPT !.todo = Tail(job[s].todo)]
    BY <1>6 DEF Advances
  <2>2. Head(job[s].todo) # "insertList" BY <1>6, <2>1
  <2>3. job[s] \in Job /\ JobFits(job[s]) /\ job[s].todo \in Todos BY <2>1, KnownJob
  <2> QED BY <2>1, <2>2, <2>3, RestOfJob
<1>7. \A l \in Lists, u \in Users : role[l][u] # "owner" => role'[l][u] # "owner"
  OBVIOUS
<1>8. \A k \in Invites : invite[k] \in Invite => invite[k].list \in Lists BY DEF Invite
<1>9. \A k \in Invites : invite'[k] \in Invite => invite'[k].list \in Lists BY DEF Invite
<1>10. JobsFit'
  <2> SUFFICES ASSUME NEW s \in Servers, job'[s] # None PROVE JobFits(job[s])'
    BY DEF JobsFit
  <2>1. CASE job'[s] = job[s]
    <3>1. JobFits(job[s]) /\ job[s].list \in Lists /\ job[s].user \in Users BY <2>1, KnownJob
    <3>2. job[s].todo \in Closings =>
            job[s].invite \in Invites /\ invite'[job[s].invite] \in Invite
            /\ GovernedNext(invite'[job[s].invite].list)
      BY <3>1, <1>1, <1>9 DEF JobFits
    <3>3. Governed(job[s].list) <=> GovernedNext(job[s].list)
      BY <3>1, <1>1
    <3> QED BY <2>1, <3>1, <3>2, <3>3, <1>1, <1>7 DEF JobFits, Fresh, Governed, GovernedNext
  <2>2. CASE job'[s] # job[s]
    <3>1. /\ job[s] # None /\ job[s] \in Job /\ JobFits(job[s]) /\ job[s].todo \in Todos
          /\ Len(job[s].todo) # 1 /\ Head(job[s].todo) # "insertList"
          /\ job'[s].todo = Tail(job[s].todo) /\ job'[s].todo \in Todos
          /\ job'[s].list = job[s].list /\ job'[s].user = job[s].user
          /\ job'[s].invite = job[s].invite
      BY <2>2, <1>6
    <3>2. job'[s].todo \in Closings => job[s].todo \in Closings BY <3>1, TodoSteps
    <3>3. Head(job'[s].todo) \notin
            {"insertList", "insertOwner", "insertMember", "insertInvite", "deleteMember"}
      BY <3>1, TodoSteps
    <3>4. job[s].todo \in Closings =>
            job[s].invite \in Invites /\ invite'[job[s].invite] \in Invite
            /\ GovernedNext(invite'[job[s].invite].list)
      BY <3>1, <1>1, <1>9 DEF JobFits
    <3> QED BY <3>1, <3>2, <3>3, <3>4 DEF JobFits, Fresh, Governed, GovernedNext
  <2> QED BY <2>1, <2>2
<1>11. ASSUME NEW s \in Servers, job'[s] # None, Fresh(job'[s])
       PROVE  job'[s] = job[s]
  <2> SUFFICES ASSUME job'[s] # job[s] PROVE FALSE
    OBVIOUS
  <2>1. /\ job[s].todo \in Todos /\ Len(job[s].todo) # 1 /\ Head(job[s].todo) # "insertList"
        /\ job'[s].todo = Tail(job[s].todo)
    BY <1>6, <1>11
  <2>2. Head(job'[s].todo) \notin {"insertList", "insertOwner"} BY <2>1, TodoSteps
  <2> QED BY <1>11, <2>2 DEF Fresh
<1>12. OneCreates'
  <2> SUFFICES ASSUME NEW s \in Servers, NEW t \in Servers, job'[s] # None, job'[t] # None,
                      job'[s].list = job'[t].list, Fresh(job'[s]), Fresh(job'[t])
               PROVE  s = t
    BY DEF OneCreates, Fresh
  <2>1. job'[s] = job[s] /\ job'[t] = job[t] BY <1>11
  <2> QED BY <2>1, <1>0 DEF OneCreates
<1> QED BY <1>2, <1>3, <1>5, <1>10, <1>12 DEF Inv
-----------------------------------------------------------------------------
(* A request is accepted: what the handler read makes its job fit.          *)
LEMMA BeginKeeps ==
  ASSUME Inv, NEW s \in Servers, NEW u \in Users, NEW l \in Lists,
         NEW k \in Invites \union {None}, NEW status \in Closed \union {"pending"},
         NEW todo \in Todos, Begin(s, u, l, k, status, todo),
         NEW j, j = [user |-> u, list |-> l, invite |-> k, status |-> status, todo |-> todo],
         JobFits(j),
         Fresh(j) => \A t \in Servers : job[t] # None => job[t].list # l
  PROVE  Inv'
<1>0. /\ TypeOK /\ OwnerOwns /\ MembersHaveOwner /\ InvitesHaveOwner /\ JobsFit /\ OneCreates
      /\ job \in [Servers -> Job \union {None}]
  BY DEF Inv, TypeOK
<1>1. /\ job' = [job EXCEPT ![s] = j] /\ sent' = sent + 1 /\ fleet' = fleet /\ faults' = faults
      /\ owner' = owner /\ role' = role /\ active' = active /\ invite' = invite /\ note' = note
  BY DEF Begin, dataVars
<1>2. todo \in Seq(Statement) BY TodoSteps
<1>3. j \in Job /\ j.list = l BY <1>2 DEF Job
<1>4. job' \in [Servers -> Job \union {None}] /\ job'[s] = j
      /\ \A t \in Servers : t # s => job'[t] = job[t]
  BY <1>0, <1>1, <1>3
<1>5. TypeOK' BY <1>0, <1>1, <1>4 DEF TypeOK
<1>6. OwnerOwns' /\ MembersHaveOwner' /\ InvitesHaveOwner'
  BY <1>0, <1>1 DEF OwnerOwns, MembersHaveOwner, InvitesHaveOwner, Governed
<1>7. \A t \in Servers : job'[t] # None => JobFits(job'[t])
  BY <1>0, <1>4 DEF JobsFit
<1>8. JobsFit' BY <1>1, <1>7 DEF JobsFit, JobFits, Governed, Fresh
<1>9. OneCreates'
  <2> SUFFICES ASSUME NEW t \in Servers, NEW q \in Servers, job'[t] # None, job'[q] # None,
                      job'[t].list = job'[q].list, Fresh(job'[t]), Fresh(job'[q]), t # q
               PROVE  FALSE
    BY DEF OneCreates, Fresh
  <2>1. CASE t = s BY <2>1, <1>3, <1>4
  <2>2. CASE q = s BY <2>2, <1>3, <1>4
  <2>3. CASE t # s /\ q # s BY <2>3, <1>0, <1>4 DEF OneCreates
  <2> QED BY <2>1, <2>2, <2>3
<1> QED BY <1>5, <1>6, <1>8, <1>9 DEF Inv

\* An open invite is one of a list with an owner.
LEMMA AnswerableInvite ==
  ASSUME Inv, NEW u \in Users, NEW k \in Invites, k \in ReceivedInvites(u)
  PROVE  /\ invite[k] # None /\ invite[k] \in Invite /\ invite[k].list \in Lists
         /\ invite[k].to \in Users /\ Governed(invite[k].list)
BY DEF ReceivedInvites, Inv, TypeOK, InvitesHaveOwner, Invite

\* A job that creates nothing, moves no member and closes at most an invite.
LEMMA PlainJobFits ==
  ASSUME Inv, NEW j, j.todo \in Todos,
         Head(j.todo) \notin {"insertList", "insertOwner", "insertMember", "insertInvite",
                              "deleteMember"},
         j.todo \in Closings => j.invite \in Invites /\ invite[j.invite] \in Invite
                                /\ Governed(invite[j.invite].list)
  PROVE  JobFits(j) /\ ~Fresh(j)
BY DEF JobFits, Fresh

LEMMA CreateOwnListKeeps ==
  ASSUME Inv, NEW s \in Servers, NEW u \in Users, NEW l \in Lists, CreateOwnList(s, u, l)
  PROVE  Inv'
<1> DEFINE todo == <<"insertList", "insertOwner", "select">>
           j == [user |-> u, list |-> l, invite |-> None, status |-> "pending", todo |-> todo]
<1>1. owner[l] = None /\ Begin(s, u, l, None, "pending", todo)
      /\ \A t \in Servers : job[t] # None => job[t].list # l
  BY DEF CreateOwnList
<1>2. todo \in Todos /\ todo \notin Closings /\ Head(todo) = "insertList"
  BY DEF Todos, Closings
<1>3. ~Governed(l) BY <1>1, NoneAssumption DEF Inv, OwnerOwns, Governed
<1>4. j.todo = todo /\ j.list = l OBVIOUS
<1> HIDE DEF todo
<1>5. JobFits(j) BY <1>2, <1>3, <1>4 DEF JobFits, Fresh
<1> QED BY <1>1, <1>2, <1>5, BeginKeeps

LEMMA SelectKeeps ==
  ASSUME Inv, NEW s \in Servers, NEW u \in Users, NEW l \in Lists,
         Begin(s, u, l, None, "pending", <<"select">>)
  PROVE  Inv'
<1> DEFINE j == [user |-> u, list |-> l, invite |-> None, status |-> "pending",
                 todo |-> <<"select">>]
<1>1. <<"select">> \in Todos /\ <<"select">> \notin Closings /\ Head(<<"select">>) = "select"
  BY DEF Todos, Closings
<1>2. j.todo = <<"select">> OBVIOUS
<1>3. JobFits(j) /\ ~Fresh(j) BY <1>1, <1>2, PlainJobFits
<1> QED BY <1>1, <1>3, BeginKeeps

\* Expiring, declining and revoking close an invite and settle its notification.
LEMMA CloseKeeps ==
  ASSUME Inv, NEW s \in Servers, NEW u \in Users, NEW k \in Invites, k \in ReceivedInvites(u),
         NEW status \in Closed,
         NEW todo \in {<<"close", "markRead">>, <<"close", "retitle">>},
         Begin(s, u, invite[k].list, k, status, todo)
  PROVE  Inv'
<1> DEFINE j == [user |-> u, list |-> invite[k].list, invite |-> k, status |-> status,
                 todo |-> todo]
<1>1. todo \in Todos /\ Head(todo) = "close" BY DEF Todos
<1>2. j.todo = todo /\ j.invite = k OBVIOUS
<1>3. invite[k] \in Invite /\ Governed(invite[k].list) /\ invite[k].list \in Lists
  BY AnswerableInvite
<1>4. JobFits(j) /\ ~Fresh(j) BY <1>1, <1>2, <1>3, PlainJobFits
<1> QED BY <1>1, <1>3, <1>4, BeginKeeps

LEMMA AcceptKeeps ==
  ASSUME Inv, NEW s \in Servers, NEW u \in Users, NEW k \in Invites,
         AcceptPendingInvite(s, u, k)
  PROVE  Inv'
<1> DEFINE l == invite[k].list
<1>1. k \in ReceivedInvites(u) BY DEF AcceptPendingInvite, Answerable
<1>2. invite[k] \in Invite /\ Governed(l) /\ l \in Lists BY <1>1, AnswerableInvite
<1> DEFINE todo == IF IsMember(l, u) THEN <<"select", "close", "markRead">>
                   ELSE <<"insertMember", "select", "close", "markRead">>
           j == [user |-> u, list |-> l, invite |-> k, status |-> "accepted", todo |-> todo]
<1>3. Begin(s, u, l, k, "accepted", todo) BY DEF AcceptPendingInvite
<1>4. todo \in {<<"insertMember", "select", "close", "markRead">>,
                <<"select", "close", "markRead">>}
  OBVIOUS
<1>5. j.todo = todo /\ j.invite = k /\ j.list = l OBVIOUS
<1> HIDE DEF todo
<1>6. todo \in Todos /\ Head(todo) \in {"insertMember", "select"} BY <1>4 DEF Todos
<1>7. JobFits(j) /\ ~Fresh(j) BY <1>2, <1>5, <1>6 DEF JobFits, Fresh
<1> QED BY <1>2, <1>3, <1>6, <1>7, BeginKeeps DEF Closed

LEMMA InviteKeeps ==
  ASSUME Inv, NEW s \in Servers, NEW l \in Lists, NEW by \in Users, NEW u \in Users,
         NEW k \in Invites, InviteMemberByEmail(s, l, by, u, k)
  PROVE  Inv'
<1> DEFINE todo == <<"insertInvite", "notify">>
           j == [user |-> u, list |-> l, invite |-> k, status |-> "pending", todo |-> todo]
<1>1. Begin(s, u, l, k, "pending", todo) BY DEF InviteMemberByEmail
<1>2. Governed(l) BY DEF InviteMemberByEmail, IsOwner, Governed
<1>3. todo \in Todos /\ todo \notin Closings /\ Head(todo) = "insertInvite"
  BY DEF Todos, Closings
<1>4. j.todo = todo /\ j.list = l OBVIOUS
<1> HIDE DEF todo
<1>5. JobFits(j) /\ ~Fresh(j) BY <1>2, <1>3, <1>4 DEF JobFits, Fresh
<1> QED BY <1>1, <1>3, <1>5, BeginKeeps

\* The owner's row is the owner's, so that who removes another is not removed,
\* and who leaves by themselves is no owner.
LEMMA RemoveKeeps ==
  ASSUME Inv, NEW s \in Servers, NEW l \in Lists, NEW by \in Users, NEW u \in Users,
         RemoveMember(s, l, by, u)
  PROVE  Inv'
<1> DEFINE todo == <<"deleteMember", "fallBack">>
           j == [user |-> u, list |-> l, invite |-> None, status |-> "pending", todo |-> todo]
<1>1. Begin(s, u, l, None, "pending", todo) /\ role[l][u] # None BY DEF RemoveMember, MembersOf
<1>2. Governed(l) BY <1>1 DEF Inv, MembersHaveOwner
<1>3. role[l][u] # "owner"
  <2>1. CASE u = by BY <2>1 DEF RemoveMember
  <2>2. CASE u # by
    <3>1. role[l][by] = "owner" BY <2>2 DEF RemoveMember, IsOwner
    <3> QED BY <2>2, <3>1 DEF Inv, OwnerOwns
  <2> QED BY <2>1, <2>2
<1>4. todo \in Todos /\ todo \notin Closings /\ Head(todo) = "deleteMember"
  BY DEF Todos, Closings
<1>5. j.todo = todo /\ j.list = l /\ j.user = u OBVIOUS
<1> HIDE DEF todo
<1>6. JobFits(j) /\ ~Fresh(j) BY <1>2, <1>3, <1>4, <1>5 DEF JobFits, Fresh
<1> QED BY <1>1, <1>4, <1>6, BeginKeeps

LEMMA ReceiveKeeps ==
  ASSUME Inv, NEW s \in Servers, NEW u \in Users, Receive(s, u)
  PROVE  Inv'
<1>1. CASE GetActiveList(s, u)
  <2>1. Resolved(u) \ {None} \subseteq Lists
    BY DEF Resolved, VisibleMemberships, OwnLists
  <2> QED BY <1>1, <2>1, SelectKeeps DEF GetActiveList
<1>2. ASSUME NEW l \in Lists, CreateOwnList(s, u, l) PROVE Inv'
  BY <1>2, CreateOwnListKeeps
<1>3. ASSUME NEW l \in Lists, SelectActiveList(s, u, l) PROVE Inv'
  BY <1>3, SelectKeeps DEF SelectActiveList
<1>4. ASSUME NEW l \in Lists, NEW t \in Users, RemoveMember(s, l, u, t) PROVE Inv'
  BY <1>4, RemoveKeeps
<1>5. ASSUME NEW l \in Lists, NEW t \in Users, NEW k \in Invites,
             InviteMemberByEmail(s, l, u, t, k)
      PROVE  Inv'
  BY <1>5, InviteKeeps
<1>6. ASSUME NEW k \in Invites, ExpireInvite(s, u, k) PROVE Inv'
  <2>1. k \in ReceivedInvites(u) /\ "expired" \in Closed
        /\ Begin(s, u, invite[k].list, k, "expired", <<"close", "markRead">>)
    BY <1>6 DEF ExpireInvite, Answerable, Closed
  <2> QED BY <2>1, CloseKeeps
<1>7. ASSUME NEW k \in Invites, AcceptPendingInvite(s, u, k) PROVE Inv'
  BY <1>7, AcceptKeeps
<1>8. ASSUME NEW k \in Invites, DeclinePendingInvite(s, u, k) PROVE Inv'
  <2>1. k \in ReceivedInvites(u) /\ "declined" \in Closed
        /\ Begin(s, u, invite[k].list, k, "declined", <<"close", "markRead">>)
    BY <1>8 DEF DeclinePendingInvite, Answerable, Closed
  <2> QED BY <2>1, CloseKeeps
<1>9. ASSUME NEW k \in Invites, RevokeInvite(s, u, k) PROVE Inv'
  <2>1. invite[k] # None /\ "revoked" \in Closed
        /\ Begin(s, invite[k].to, invite[k].list, k, "revoked", <<"close", "retitle">>)
    BY <1>9 DEF RevokeInvite, ListInvites, Closed
  <2>2. invite[k].to \in Users BY <2>1 DEF Inv, TypeOK, Invite
  <2>3. k \in ReceivedInvites(invite[k].to) BY <2>1 DEF ReceivedInvites
  <2> QED BY <2>1, <2>2, <2>3, CloseKeeps
<1> QED BY <1>1, <1>2, <1>3, <1>4, <1>5, <1>6, <1>7, <1>8, <1>9 DEF Receive
-----------------------------------------------------------------------------
\* The steps that leave members, owners and invites alone.
LEMMA QuietKeeps ==
  ASSUME Inv, TypeOK', UNCHANGED <<owner, role, invite>>,
         \A s \in Servers : Advances(s)
           /\ (job[s] # None /\ Head(job[s].todo) = "insertList" =>
                 job'[s] = job[s] \/ job'[s] = None)
  PROVE  Inv'
<1>1. /\ \A l \in Lists, u \in Users : role[l][u] # None => Governed(l)
      /\ \A k \in Invites : invite[k] # None => Governed(invite[k].list)
  BY DEF Inv, MembersHaveOwner, InvitesHaveOwner
<1>2. \A l \in Lists, u \in Users :
        /\ role'[l][u] = "owner" <=> role[l][u] = "owner"
        /\ role'[l][u] # None => Governed(l)
  BY <1>1
<1>3. \A k \in Invites :
        /\ invite'[k] # None => Governed(invite'[k].list)
        /\ invite[k] \in Invite /\ Governed(invite[k].list) =>
             invite'[k] \in Invite /\ Governed(invite'[k].list)
  BY <1>1
<1> QED BY <1>2, <1>3, StepKeeps

\* A statement other than the insertion of a list.
LEMMA StatementAdvances ==
  ASSUME Inv, NEW s \in Servers, NEW st, Executes(s, st), st # "insertList"
  PROVE  /\ \A t \in Servers : Advances(t)
              /\ (job[t] # None /\ Head(job[t].todo) = "insertList" =>
                    job'[t] = job[t] \/ job'[t] = None)
         /\ job[s] # None /\ JobFits(job[s]) /\ Head(job[s].todo) = st
         /\ job[s].user \in Users /\ job[s].list \in Lists
         /\ job[s].invite \in Invites \union {None} /\ job[s].status \in Closed \union {"pending"}
         /\ job' \in [Servers -> Job \union {None}]
         /\ fleet' \in Fleets /\ sent' \in Nat /\ faults' \in Nat
<1>1. /\ job[s] # None /\ Head(job[s].todo) = st
      /\ \A t \in Servers : Advances(t) /\ (t # s => job'[t] = job[t])
      /\ fleet' = fleet /\ sent' = sent /\ faults' = faults
      /\ job' \in [Servers -> Job \union {None}]
  BY ExecutesAdvances
<1>2. job[s] \in Job /\ JobFits(job[s]) BY <1>1, KnownJob
<1> QED BY <1>1, <1>2 DEF Job, Inv, TypeOK

LEMMA SelectionKeeps ==
  ASSUME Inv, NEW s \in Servers, SetActiveListId(s) \/ FallBackSelectedList(s)
  PROVE  Inv'
<1> DEFINE st == IF SetActiveListId(s) THEN "select" ELSE "fallBack"
<1>0. TypeOK BY DEF Inv
<1>1. Executes(s, st) /\ st # "insertList" /\ UNCHANGED <<owner, role, invite, note>>
  BY DEF SetActiveListId, FallBackSelectedList
<1>2. /\ \A t \in Servers : Advances(t)
              /\ (job[t] # None /\ Head(job[t].todo) = "insertList" =>
                    job'[t] = job[t] \/ job'[t] = None)
      /\ job[s].user \in Users /\ job[s].list \in Lists
      /\ job' \in [Servers -> Job \union {None}]
      /\ fleet' \in Fleets /\ sent' \in Nat /\ faults' \in Nat
  BY <1>1, StatementAdvances
<1>3. active' \in [Users -> Lists \union {None}]
  <2>1. CASE SetActiveListId(s)
    BY <2>1, <1>0, <1>2 DEF SetActiveListId, TypeOK
  <2>2. CASE FallBackSelectedList(s)
    <3>1. OwnLists(job[s].user) \subseteq Lists BY DEF OwnLists
    <3>2. \/ \E l \in Lists \union {None} : active' = [active EXCEPT ![job[s].user] = l]
          \/ active' = active
      BY <2>2, <3>1 DEF FallBackSelectedList
    <3> QED BY <3>2, <1>0, <1>2 DEF TypeOK
  <2> QED BY <2>1, <2>2
<1>4. TypeOK' BY <1>0, <1>1, <1>2, <1>3 DEF TypeOK
<1> QED BY <1>1, <1>2, <1>4, QuietKeeps

LEMMA NotesKeep ==
  ASSUME Inv, NEW s \in Servers,
         MarkInviteNotificationsRead(s) \/ CreateAppNotification(s) \/ UpdateInviteNotifications(s)
  PROVE  Inv'
<1> DEFINE st == IF MarkInviteNotificationsRead(s) THEN "markRead"
                 ELSE IF CreateAppNotification(s) THEN "notify" ELSE "retitle"
<1>0. TypeOK BY DEF Inv
<1>1. Executes(s, st) /\ st # "insertList" /\ UNCHANGED <<owner, role, active, invite>>
  BY DEF MarkInviteNotificationsRead, CreateAppNotification, UpdateInviteNotifications
<1>2. /\ \A t \in Servers : Advances(t)
              /\ (job[t] # None /\ Head(job[t].todo) = "insertList" =>
                    job'[t] = job[t] \/ job'[t] = None)
      /\ job' \in [Servers -> Job \union {None}]
      /\ fleet' \in Fleets /\ sent' \in Nat /\ faults' \in Nat
  BY <1>1, StatementAdvances
<1>3. note \in [Invites -> Note \union {None}] BY <1>0 DEF TypeOK
<1>4. note' \in [Invites -> Note \union {None}]
  <2>1. CASE MarkInviteNotificationsRead(s)
    BY <2>1, <1>3 DEF MarkInviteNotificationsRead, Note
  <2>2. CASE CreateAppNotification(s)
    BY <2>2, <1>3 DEF CreateAppNotification, Note
  <2>3. CASE UpdateInviteNotifications(s)
    BY <2>3, <1>3 DEF UpdateInviteNotifications, Note
  <2> QED BY <2>1, <2>2, <2>3
<1>5. TypeOK' BY <1>0, <1>1, <1>2, <1>4 DEF TypeOK
<1> QED BY <1>1, <1>2, <1>5, QuietKeeps

\* The status of an invite changes, never its list.
LEMMA SetInviteStatusKeeps ==
  ASSUME Inv, NEW s \in Servers, SetInviteStatus(s)
  PROVE  Inv'
<1> DEFINE i == job[s].invite
<1>0. TypeOK /\ Executes(s, "close") /\ UNCHANGED <<owner, role, active, note>>
  BY DEF Inv, SetInviteStatus
<1>1. /\ \A t \in Servers : Advances(t)
              /\ (job[t] # None /\ Head(job[t].todo) = "insertList" =>
                    job'[t] = job[t] \/ job'[t] = None)
      /\ JobFits(job[s]) /\ Head(job[s].todo) = "close"
      /\ job[s].status \in Closed \union {"pending"}
      /\ job' \in [Servers -> Job \union {None}]
      /\ fleet' \in Fleets /\ sent' \in Nat /\ faults' \in Nat
  BY <1>0, StatementAdvances
<1>2. job[s].todo \in Closings BY <1>1, TodoSteps DEF JobFits
<1>3. i \in Invites /\ invite[i] \in Invite /\ Governed(invite[i].list)
  BY <1>1, <1>2 DEF JobFits
<1> DEFINE v == [invite[i] EXCEPT !.status = job[s].status]
<1>4. v \in Invite /\ v.list = invite[i].list BY <1>1, <1>3 DEF Invite
<1>5. invite' = [invite EXCEPT ![i] = v] BY DEF SetInviteStatus
<1> HIDE DEF v
<1>6. invite \in [Invites -> Invite \union {None}] BY <1>0 DEF TypeOK
<1>7. invite' \in [Invites -> Invite \union {None}] /\ invite'[i] = v
      /\ \A k \in Invites : k # i => invite'[k] = invite[k]
  BY <1>3, <1>4, <1>5, <1>6
<1>8. TypeOK' BY <1>0, <1>1, <1>7 DEF TypeOK
<1>9. \A k \in Invites :
        /\ invite'[k] # None => Governed(invite'[k].list)
        /\ invite[k] \in Invite /\ Governed(invite[k].list) =>
             invite'[k] \in Invite /\ Governed(invite'[k].list)
  BY <1>3, <1>4, <1>7 DEF Inv, InvitesHaveOwner
<1>10. \A l \in Lists, u \in Users :
         /\ role'[l][u] = "owner" <=> role[l][u] = "owner"
         /\ role'[l][u] # None => Governed(l)
  BY <1>0 DEF Inv, MembersHaveOwner
<1> QED BY <1>0, <1>1, <1>8, <1>9, <1>10, StepKeeps

LEMMA InsertListInviteKeeps ==
  ASSUME Inv, NEW s \in Servers, InsertListInvite(s)
  PROVE  Inv'
<1>0. TypeOK BY DEF Inv
<1>1. CASE Executes(s, "insertInvite") /\ UNCHANGED <<owner, role, active, note>>
           /\ invite' = [invite EXCEPT ![job[s].invite] =
                [list |-> job[s].list, to |-> job[s].user, status |-> "pending", late |-> FALSE]]
  <2>1. /\ \A t \in Servers : Advances(t)
                /\ (job[t] # None /\ Head(job[t].todo) = "insertList" =>
                      job'[t] = job[t] \/ job'[t] = None)
        /\ JobFits(job[s]) /\ Head(job[s].todo) = "insertInvite"
        /\ job[s].user \in Users /\ job[s].list \in Lists
        /\ job' \in [Servers -> Job \union {None}]
        /\ fleet' \in Fleets /\ sent' \in Nat /\ faults' \in Nat
    BY <1>1, StatementAdvances
  <2> DEFINE v == [list |-> job[s].list, to |-> job[s].user, status |-> "pending", late |-> FALSE]
  <2>2. v \in Invite /\ v.list = job[s].list BY <2>1 DEF Invite
  <2>3. Governed(job[s].list) BY <2>1 DEF JobFits
  <2>4. invite' = [invite EXCEPT ![job[s].invite] = v] BY <1>1
  <2> HIDE DEF v
  <2>5. invite \in [Invites -> Invite \union {None}] BY <1>0 DEF TypeOK
  <2>6. invite' \in [Invites -> Invite \union {None}]
        /\ \A k \in Invites : invite'[k] = invite[k] \/ invite'[k] = v
    BY <2>2, <2>4, <2>5
  <2>7. TypeOK' BY <1>0, <1>1, <2>1, <2>6 DEF TypeOK
  <2>8. \A k \in Invites :
          /\ invite'[k] # None => Governed(invite'[k].list)
          /\ invite[k] \in Invite /\ Governed(invite[k].list) =>
               invite'[k] \in Invite /\ Governed(invite'[k].list)
    BY <2>2, <2>3, <2>6 DEF Inv, InvitesHaveOwner
  <2>9. \A l \in Lists, u \in Users :
          /\ role'[l][u] = "owner" <=> role[l][u] = "owner"
          /\ role'[l][u] # None => Governed(l)
    BY <1>1 DEF Inv, MembersHaveOwner
  <2> QED BY <1>1, <2>1, <2>7, <2>8, <2>9, StepKeeps
<1>2. CASE job' = [job EXCEPT ![s] = None] /\ UNCHANGED <<fleet, dataVars, sent, faults>>
  <2>1. TypeOK' BY <1>0, <1>2 DEF TypeOK, dataVars
  <2>2. \A t \in Servers : job'[t] = job[t] \/ job'[t] = None BY <1>0, <1>2 DEF TypeOK
  <2> QED BY <1>2, <2>1, <2>2, QuietKeeps DEF Advances, dataVars
<1> QED BY <1>1, <1>2 DEF InsertListInvite

\* A member joins, or one who is not the owner leaves.
LEMMA MemberKeeps ==
  ASSUME Inv, NEW s \in Servers, InsertMember(s) \/ DeleteMember(s)
  PROVE  Inv'
<1> DEFINE st == IF InsertMember(s) THEN "insertMember" ELSE "deleteMember"
           l == job[s].list
           u == job[s].user
<1>0. TypeOK /\ Executes(s, st) /\ st # "insertList" /\ UNCHANGED <<owner, active, invite, note>>
  BY DEF Inv, InsertMember, DeleteMember
<1>1. /\ \A t \in Servers : Advances(t)
              /\ (job[t] # None /\ Head(job[t].todo) = "insertList" =>
                    job'[t] = job[t] \/ job'[t] = None)
      /\ JobFits(job[s]) /\ Head(job[s].todo) = st /\ u \in Users /\ l \in Lists
      /\ job' \in [Servers -> Job \union {None}]
      /\ fleet' \in Fleets /\ sent' \in Nat /\ faults' \in Nat
  BY <1>0, StatementAdvances
<1>2. Governed(l) /\ (st = "deleteMember" => role[l][u] # "owner")
  <2>1. st \in {"insertMember", "deleteMember"} OBVIOUS
  <2> HIDE DEF st, l, u
  <2> QED BY <1>1, <2>1 DEF JobFits, l, u
<1>3. role \in [Lists -> [Users -> {"owner", "member", None}]] BY <1>0 DEF TypeOK
<1>4. PICK r \in {"member", None} :
        \/ role' = [role EXCEPT ![l][u] = r] /\ role[l][u] # "owner"
        \/ role' = role
  <2>1. CASE InsertMember(s)
    <3>1. role' = [role EXCEPT ![l][u] = IF role[l][u] = None THEN "member" ELSE role[l][u]]
      BY <2>1 DEF InsertMember, WithRole
    <3>2. CASE role[l][u] = None BY <3>1, <3>2, NoneAssumption
    <3>3. CASE role[l][u] # None
      <4>1. role' = role BY <3>1, <3>3, <1>3
      <4> QED BY <4>1
    <3> QED BY <3>2, <3>3
  <2>2. CASE ~InsertMember(s)
    <3>1. role' = [role EXCEPT ![l][u] = None] BY <2>2 DEF DeleteMember
    <3> QED BY <2>2, <3>1, <1>2
  <2> QED BY <2>1, <2>2
<1> HIDE DEF l, u, st
<1>5. role' \in [Lists -> [Users -> {"owner", "member", None}]]
      /\ \A m \in Lists, w \in Users :
           \/ role'[m][w] = role[m][w]
           \/ m = l /\ w = u /\ role[m][w] # "owner" /\ role'[m][w] = r
  <2>1. CASE role' = role BY <2>1, <1>3
  <2>2. CASE role' = [role EXCEPT ![l][u] = r] /\ role[l][u] # "owner"
    BY <2>2, <1>1, <1>3
  <2> QED BY <2>1, <2>2, <1>4
<1>6. r # "owner" BY <1>4, NoneAssumption
<1>7. TypeOK' BY <1>0, <1>1, <1>5 DEF TypeOK
<1>8. \A m \in Lists, w \in Users : role[m][w] # None => Governed(m)
  BY DEF Inv, MembersHaveOwner
<1>9. \A m \in Lists, w \in Users :
        /\ role'[m][w] = "owner" <=> role[m][w] = "owner"
        /\ role'[m][w] # None => Governed(m)
  BY <1>2, <1>5, <1>6, <1>8
<1>10. \A k \in Invites :
         /\ invite'[k] # None => Governed(invite'[k].list)
         /\ invite[k] \in Invite /\ Governed(invite[k].list) =>
              invite'[k] \in Invite /\ Governed(invite'[k].list)
  BY <1>0 DEF Inv, InvitesHaveOwner
<1> QED BY <1>0, <1>1, <1>7, <1>9, <1>10, StepKeeps

\* The list that is created had no owner among its members, so that no row
\* speaks of another one, and nobody else creates it.
LEMMA InsertListKeeps ==
  ASSUME Inv, NEW s \in Servers, InsertList(s)
  PROVE  Inv'
<1> DEFINE l == job[s].list
           u == job[s].user
<1>0. TypeOK /\ OwnerOwns /\ MembersHaveOwner /\ InvitesHaveOwner /\ JobsFit /\ OneCreates
  BY DEF Inv
<1>1. Executes(s, "insertList") /\ UNCHANGED <<role, active, invite, note>>
      /\ owner' = [owner EXCEPT ![l] = u]
  BY DEF InsertList
<1>2. /\ job[s] # None /\ Head(job[s].todo) = "insertList"
      /\ \A t \in Servers : Advances(t) /\ (t # s => job'[t] = job[t])
      /\ fleet' = fleet /\ sent' = sent /\ faults' = faults
      /\ job' \in [Servers -> Job \union {None}]
  BY <1>1, ExecutesAdvances
<1>3. /\ job[s] \in Job /\ JobFits(job[s]) /\ job[s].todo \in Todos /\ u \in Users /\ l \in Lists
  BY <1>2, KnownJob
<1>4. Fresh(job[s]) /\ ~Governed(l) BY <1>2, <1>3 DEF JobFits, Fresh
<1>5. owner \in [Lists -> Users \union {None}] BY <1>0 DEF TypeOK
<1>6. owner' \in [Lists -> Users \union {None}] /\ owner'[l] = u
      /\ \A m \in Lists : m # l => owner'[m] = owner[m]
  BY <1>1, <1>3, <1>5
<1> HIDE DEF l, u
<1>7. TypeOK' BY <1>0, <1>1, <1>2, <1>6 DEF TypeOK
<1>8. OwnerOwns' BY <1>0, <1>1, <1>4, <1>6 DEF OwnerOwns, Governed
<1>9. MembersHaveOwner' /\ InvitesHaveOwner'
  BY <1>0, <1>1 DEF MembersHaveOwner, InvitesHaveOwner, Governed
<1>10. job[s].todo = <<"insertList", "insertOwner", "select">> BY <1>2, <1>3, TodoSteps
<1>11. Len(job[s].todo) = 3 /\ Tail(job[s].todo) = <<"insertOwner", "select">> BY <1>10
<1>12. /\ job'[s] \in Job /\ job'[s].list = l /\ job'[s].user = u
       /\ job'[s].todo = <<"insertOwner", "select">>
  <2>1. job \in [Servers -> Job \union {None}] BY <1>0 DEF TypeOK
  <2> DEFINE rest == [job[s] EXCEPT !.todo = Tail(job[s].todo)]
  <2>2. job'[s] = rest BY <1>1, <1>11, <2>1 DEF Executes
  <2>3. Len(job[s].todo) # 1 BY <1>11
  <2>4. rest \in Job /\ rest.todo = Tail(job[s].todo) /\ rest.list = job[s].list
        /\ rest.user = job[s].user
    BY <1>3, <2>3, RestOfJob
  <2> QED BY <1>11, <2>2, <2>4 DEF l, u
<1>13. Head(<<"insertOwner", "select">>) = "insertOwner" /\ <<"insertOwner", "select">> \in Todos
       /\ <<"insertOwner", "select">> \notin Closings
  BY DEF Todos, Closings
<1>14. JobsFit'
  <2> SUFFICES ASSUME NEW t \in Servers, job'[t] # None PROVE JobFits(job[t])'
    BY DEF JobsFit
  <2>1. CASE t = s
    <3>1. ~GovernedNext(l) BY <1>1, <1>4 DEF Governed, GovernedNext
    <3>2. owner'[job'[s].list] = job'[s].user BY <1>6, <1>12
    <3> QED BY <2>1, <3>1, <3>2, <1>12, <1>13 DEF JobFits, Fresh, Governed, GovernedNext
  <2>2. CASE t # s
    <3>1. job'[t] = job[t] BY <2>2, <1>2
    <3>2. JobFits(job[t]) /\ job[t].list \in Lists BY <2>2, <3>1, KnownJob
    <3>3. Head(job[t].todo) = "insertOwner" => job[t].list # l
      BY <2>2, <3>1, <1>0, <1>2, <1>4 DEF OneCreates, Fresh, l
    <3>4. Head(job[t].todo) = "insertOwner" => owner'[job[t].list] = job[t].user
      BY <3>2, <3>3, <1>6 DEF JobFits
    <3> QED BY <3>1, <3>2, <3>4, <1>1 DEF JobFits, Fresh, Governed
  <2> QED BY <2>1, <2>2
<1>15. \A t \in Servers : job'[t] # None /\ Fresh(job'[t]) =>
         job[t] # None /\ Fresh(job[t]) /\ job'[t].list = job[t].list
  BY <1>2, <1>4, <1>12 DEF l
<1>16. OneCreates'
  <2> SUFFICES ASSUME NEW t \in Servers, NEW q \in Servers, job'[t] # None, job'[q] # None,
                      job'[t].list = job'[q].list, Fresh(job'[t]), Fresh(job'[q])
               PROVE  t = q
    BY DEF OneCreates, Fresh
  <2> QED BY <1>0, <1>15 DEF OneCreates
<1> QED BY <1>7, <1>8, <1>9, <1>14, <1>16 DEF Inv

\* The row of the owner makes the list one that others may join.
LEMMA InsertOwnerKeeps ==
  ASSUME Inv, NEW s \in Servers, InsertOwner(s)
  PROVE  Inv'
<1> DEFINE l == job[s].list
           u == job[s].user
<1>0. TypeOK /\ OwnerOwns /\ MembersHaveOwner /\ InvitesHaveOwner /\ JobsFit /\ OneCreates
  BY DEF Inv
<1>1. Executes(s, "insertOwner") /\ UNCHANGED <<owner, active, invite, note>>
      /\ role' = [role EXCEPT ![l][u] = IF role[l][u] = None THEN "owner" ELSE role[l][u]]
  BY DEF InsertOwner, WithRole
<1>2. /\ job[s] # None /\ Head(job[s].todo) = "insertOwner"
      /\ \A t \in Servers : Advances(t) /\ (t # s => job'[t] = job[t])
      /\ fleet' = fleet /\ sent' = sent /\ faults' = faults
      /\ job' \in [Servers -> Job \union {None}]
  BY <1>1, ExecutesAdvances
<1>3. /\ job[s] \in Job /\ JobFits(job[s]) /\ job[s].todo \in Todos /\ u \in Users /\ l \in Lists
  BY <1>2, KnownJob
<1>4. Fresh(job[s]) /\ ~Governed(l) /\ owner[l] = u BY <1>2, <1>3 DEF JobFits, Fresh
<1>5. role \in [Lists -> [Users -> {"owner", "member", None}]] BY <1>0 DEF TypeOK
<1>6. \A w \in Users : role[l][w] = None BY <1>3, <1>4, <1>0 DEF MembersHaveOwner
<1>7. role' = [role EXCEPT ![l][u] = "owner"] BY <1>1, <1>3, <1>6
<1> HIDE DEF l, u
<1>8. /\ role' \in [Lists -> [Users -> {"owner", "member", None}]]
      /\ role'[l][u] = "owner"
      /\ \A m \in Lists, w \in Users : m # l \/ w # u => role'[m][w] = role[m][w]
  BY <1>3, <1>5, <1>7
<1>9. \A m \in Lists : Governed(m) => GovernedNext(m)
  <2> SUFFICES ASSUME NEW m \in Lists, NEW w \in Users, role[m][w] = "owner"
               PROVE  role'[m][w] = "owner"
    BY DEF Governed, GovernedNext
  <2> QED BY <1>8
<1>10. GovernedNext(l) BY <1>3, <1>8 DEF GovernedNext
<1>11. \A m \in Lists : m # l => (GovernedNext(m) => Governed(m))
  BY <1>8 DEF Governed, GovernedNext
<1>12. TypeOK' BY <1>0, <1>1, <1>2, <1>8 DEF TypeOK
<1>13. OwnerOwns' BY <1>0, <1>1, <1>4, <1>8 DEF OwnerOwns
<1>14. MembersHaveOwner'
  <2> SUFFICES ASSUME NEW m \in Lists, NEW w \in Users, role'[m][w] # None
               PROVE  GovernedNext(m)
    BY DEF MembersHaveOwner, Governed, GovernedNext
  <2>1. CASE m = l BY <2>1, <1>10
  <2>2. CASE m # l BY <2>2, <1>0, <1>8, <1>9 DEF MembersHaveOwner
  <2> QED BY <2>1, <2>2
<1>15. \A k \in Invites : invite[k] \in Invite => invite[k].list \in Lists BY DEF Invite
<1>16. InvitesHaveOwner'
  <2> SUFFICES ASSUME NEW k \in Invites, invite[k] # None PROVE GovernedNext(invite[k].list)
    BY <1>1 DEF InvitesHaveOwner, Governed, GovernedNext
  <2>1. invite[k] \in Invite /\ Governed(invite[k].list)
    BY <1>0 DEF TypeOK, InvitesHaveOwner
  <2> QED BY <2>1, <1>9, <1>15
<1>17. ASSUME job'[s] # None PROVE ~Fresh(job'[s]) /\ JobFits(job[s])'
  <2>1. job[s].todo = <<"insertOwner", "select">> BY <1>2, <1>3, TodoSteps
  <2>2. Len(job[s].todo) = 2 /\ Tail(job[s].todo) = <<"select">> BY <2>1
  <2>3. job \in [Servers -> Job \union {None}] BY <1>0 DEF TypeOK
  <2>4. job'[s] = [job[s] EXCEPT !.todo = Tail(job[s].todo)]
    BY <1>1, <1>17, <2>2, <2>3 DEF Executes
  <2>5. Len(job[s].todo) # 1 BY <2>2
  <2>6. job'[s].todo = <<"select">> BY <1>3, <2>2, <2>4, <2>5, RestOfJob
  <2>7. <<"select">> \in Todos /\ <<"select">> \notin Closings /\ Head(<<"select">>) = "select"
    BY DEF Todos, Closings
  <2> QED BY <2>6, <2>7 DEF JobFits, Fresh
<1>18. JobsFit'
  <2> SUFFICES ASSUME NEW t \in Servers, t # s, job'[t] # None PROVE JobFits(job[t])'
    BY <1>17 DEF JobsFit
  <2>1. job'[t] = job[t] BY <1>2
  <2>2. JobFits(job[t]) /\ job[t].list \in Lists /\ job[t].user \in Users BY <2>1, KnownJob
  <2>3. Fresh(job[t]) => job[t].list # l BY <2>1, <1>0, <1>2, <1>4 DEF OneCreates, l
  <2>4. Head(job[t].todo) = "deleteMember" => job[t].list # l
    BY <2>2, <1>4 DEF JobFits
  <2>5. Head(job[t].todo) = "deleteMember" => role'[job[t].list][job[t].user] # "owner"
    BY <2>2, <2>4, <1>8 DEF JobFits
  <2>6. job[t].todo \in Closings =>
          job[t].invite \in Invites /\ invite[job[t].invite] \in Invite
          /\ GovernedNext(invite[job[t].invite].list)
    BY <2>2, <1>9, <1>15 DEF JobFits
  <2>7. Fresh(job[t]) => ~GovernedNext(job[t].list) BY <2>2, <2>3, <1>11 DEF JobFits
  <2>8. Governed(job[t].list) => GovernedNext(job[t].list) BY <2>2, <1>9
  <2> QED BY <2>1, <2>2, <2>5, <2>6, <2>7, <2>8, <1>1 DEF JobFits, Fresh, Governed, GovernedNext
<1>19. OneCreates'
  <2> SUFFICES ASSUME NEW t \in Servers, NEW q \in Servers, job'[t] # None, job'[q] # None,
                      job'[t].list = job'[q].list, Fresh(job'[t]), Fresh(job'[q])
               PROVE  t = q
    BY DEF OneCreates, Fresh
  <2>1. t # s /\ q # s BY <1>17
  <2>2. job'[t] = job[t] /\ job'[q] = job[q] BY <2>1, <1>2
  <2> QED BY <2>2, <1>0 DEF OneCreates
<1> QED BY <1>12, <1>13, <1>14, <1>16, <1>18, <1>19 DEF Inv

LEMMA ExecuteKeeps ==
  ASSUME Inv, NEW s \in Servers, Execute(s)
  PROVE  Inv'
BY InsertListKeeps, InsertOwnerKeeps, SelectionKeeps, MemberKeeps, SetInviteStatusKeeps,
   NotesKeep, InsertListInviteKeeps DEF Execute

LEMMA CrashKeeps ==
  ASSUME Inv, NEW s \in Servers, Crash(s)
  PROVE  Inv'
<1>1. TypeOK BY DEF Inv
<1>2. TypeOK' BY <1>1 DEF Crash, TypeOK, dataVars
<1>3. \A t \in Servers : job'[t] = job[t] \/ job'[t] = None BY <1>1 DEF Crash, TypeOK
<1> QED BY <1>2, <1>3, QuietKeeps DEF Crash, Advances, dataVars

LEMMA InviteGetsLateKeeps ==
  ASSUME Inv, NEW k \in Invites, InviteGetsLate(k)
  PROVE  Inv'
<1>0. TypeOK /\ invite[k] # None /\ UNCHANGED <<fleet, owner, role, active, note, job, sent, faults>>
  BY DEF Inv, InviteGetsLate
<1>1. invite \in [Invites -> Invite \union {None}] BY <1>0 DEF TypeOK
<1>2. invite[k] \in Invite /\ Governed(invite[k].list)
  BY <1>0, <1>1 DEF Inv, InvitesHaveOwner
<1> DEFINE v == [invite[k] EXCEPT !.late = TRUE]
<1>3. v \in Invite /\ v.list = invite[k].list BY <1>2 DEF Invite
<1>4. invite' = [invite EXCEPT ![k] = v] BY DEF InviteGetsLate
<1> HIDE DEF v
<1>5. invite' \in [Invites -> Invite \union {None}] /\ invite'[k] = v
      /\ \A i \in Invites : i # k => invite'[i] = invite[i]
  BY <1>1, <1>3, <1>4
<1>6. TypeOK' BY <1>0, <1>5 DEF TypeOK
<1>7. \A i \in Invites :
        /\ invite'[i] # None => Governed(invite'[i].list)
        /\ invite[i] \in Invite /\ Governed(invite[i].list) =>
             invite'[i] \in Invite /\ Governed(invite'[i].list)
  BY <1>2, <1>3, <1>5 DEF Inv, InvitesHaveOwner
<1>8. \A l \in Lists, u \in Users :
        /\ role'[l][u] = "owner" <=> role[l][u] = "owner"
        /\ role'[l][u] # None => Governed(l)
  BY <1>0 DEF Inv, MembersHaveOwner
<1> QED BY <1>0, <1>6, <1>7, <1>8, StepKeeps DEF Advances

LEMMA InboxKeeps ==
  ASSUME Inv, NEW u \in Users, ReadInbox(u) \/ DeleteFromInbox(u)
  PROVE  Inv'
<1>0. TypeOK /\ UNCHANGED <<fleet, owner, role, active, invite, job, sent, faults>>
  BY DEF Inv, ReadInbox, DeleteFromInbox
<1>1. note \in [Invites -> Note \union {None}] BY <1>0 DEF TypeOK
<1>2. note' \in [Invites -> Note \union {None}]
  <2>1. CASE ReadInbox(u)
    <3>1. \A k \in Addressed(u) : [note[k] EXCEPT !.read = TRUE] \in Note
      BY <1>1 DEF Addressed, ReceivedInvites, Note
    <3> QED BY <2>1, <3>1, <1>1 DEF ReadInbox
  <2>2. CASE DeleteFromInbox(u) BY <2>2, <1>1 DEF DeleteFromInbox
  <2> QED BY <2>1, <2>2
<1>3. TypeOK' BY <1>0, <1>2 DEF TypeOK
<1> QED BY <1>0, <1>3, QuietKeeps DEF Advances

LEMMA InvInit == Init => Inv
<1> SUFFICES ASSUME Init PROVE Inv
  OBVIOUS
<1>1. \A l \in Lists : role[l] = [u \in Users |-> IF u = owner[l] THEN "owner" ELSE None]
  BY DEF Init
<1>2. role \in [Lists -> [Users -> {"owner", "member", None}]] BY DEF Init
<1>3. TypeOK BY <1>2 DEF Init, TypeOK
<1>4. \A l \in Lists, u \in Users :
        (role[l][u] = "owner" <=> u = owner[l]) /\ (role[l][u] # None => u = owner[l])
  <2> SUFFICES ASSUME NEW l \in Lists, NEW u \in Users
               PROVE  /\ role[l][u] = "owner" <=> u = owner[l]
                      /\ role[l][u] # None => u = owner[l]
    OBVIOUS
  <2>1. role[l][u] = IF u = owner[l] THEN "owner" ELSE None BY <1>1
  <2> QED BY <2>1, NoneAssumption
<1>5. OwnerOwns /\ MembersHaveOwner BY <1>4 DEF OwnerOwns, MembersHaveOwner, Governed
<1>6. InvitesHaveOwner /\ JobsFit /\ OneCreates
  BY DEF Init, InvitesHaveOwner, JobsFit, OneCreates
<1> QED BY <1>3, <1>5, <1>6 DEF Inv

LEMMA InvNext == Inv /\ [Next]_vars => Inv'
<1> SUFFICES ASSUME Inv, [Next]_vars PROVE Inv'
  OBVIOUS
<1>1. ASSUME NEW s \in Servers, Execute(s) PROVE Inv' BY <1>1, ExecuteKeeps
<1>2. ASSUME NEW s \in Servers, Crash(s) PROVE Inv' BY <1>2, CrashKeeps
<1>3. ASSUME NEW s \in Servers, NEW u \in Users, Receive(s, u) PROVE Inv'
  BY <1>3, ReceiveKeeps
<1>4. ASSUME NEW k \in Invites, InviteGetsLate(k) PROVE Inv' BY <1>4, InviteGetsLateKeeps
<1>5. ASSUME NEW u \in Users, ReadInbox(u) \/ DeleteFromInbox(u) PROVE Inv'
  BY <1>5, InboxKeeps
<1>6. CASE UNCHANGED vars
  <2>1. TypeOK' BY <1>6 DEF Inv, TypeOK, vars
  <2> QED BY <1>6, <2>1, QuietKeeps DEF vars, Advances
<1> QED BY <1>1, <1>2, <1>3, <1>4, <1>5, <1>6 DEF Next

\* Every reachable state has the types the module states.
THEOREM TypeCorrect == Spec => []TypeOK
<1>1. Inv => TypeOK BY DEF Inv
<1> QED BY <1>1, InvInit, InvNext, PTL DEF Spec

\* Nothing takes the owner's row of a list away: handlers of different servers
\* that decided on what they read before, and servers that stopped half-way,
\* included.  What is about to be deleted is no owner's row, and stays so until
\* it is deleted, since nobody creates the list a second time.
LEMMA StepKeepsOwner ==
  Inv /\ [Next]_vars => (\A l \in Lists, u \in Users : role[l][u] = "owner" => role'[l][u] = "owner")
<1> SUFFICES ASSUME Inv, [Next]_vars, NEW l \in Lists, NEW u \in Users, role[l][u] = "owner"
             PROVE  role'[l][u] = "owner"
  OBVIOUS
<1>0. role \in [Lists -> [Users -> {"owner", "member", None}]] BY DEF Inv, TypeOK
<1>1. ASSUME NEW s \in Servers, InsertOwner(s) \/ InsertMember(s) PROVE role'[l][u] = "owner"
  <2>1. \E r : role' = WithRole(job[s].list, job[s].user, r)
    BY <1>1 DEF InsertOwner, InsertMember
  <2> QED BY <2>1, <1>0, NoneAssumption DEF WithRole
<1>2. ASSUME NEW s \in Servers, DeleteMember(s) PROVE role'[l][u] = "owner"
  <2>1. job[s] # None /\ Head(job[s].todo) = "deleteMember"
        /\ role' = [role EXCEPT ![job[s].list][job[s].user] = None]
    BY <1>2 DEF DeleteMember, Executes
  <2>2. JobFits(job[s]) BY <2>1, KnownJob
  <2>3. role[job[s].list][job[s].user] # "owner" BY <2>1, <2>2 DEF JobFits
  <2>4. l # job[s].list \/ u # job[s].user BY <2>3
  <2> QED BY <2>1, <2>4, <1>0
<1>3. CASE role' = role BY <1>3
<1>4. ASSUME NEW s \in Servers, Execute(s) PROVE role'[l][u] = "owner"
  BY <1>1, <1>2, <1>4
     DEF Execute, InsertList, SetActiveListId, SetInviteStatus, MarkInviteNotificationsRead,
         InsertListInvite, CreateAppNotification, UpdateInviteNotifications,
         FallBackSelectedList, dataVars
<1>5. ASSUME NEW s \in Servers, NEW w \in Users, Receive(s, w) PROVE role'[l][u] = "owner"
  BY <1>5 DEF Receive, GetActiveList, CreateOwnList, SelectActiveList, RemoveMember,
       InviteMemberByEmail, ExpireInvite, AcceptPendingInvite, DeclinePendingInvite,
       RevokeInvite, Begin, dataVars
<1>6. CASE (\E s \in Servers : Crash(s)) \/ (\E k \in Invites : InviteGetsLate(k))
           \/ (\E w \in Users : ReadInbox(w) \/ DeleteFromInbox(w)) \/ UNCHANGED vars
  BY <1>6 DEF Crash, InviteGetsLate, ReadInbox, DeleteFromInbox, vars, dataVars
<1> QED BY <1>4, <1>5, <1>6 DEF Next

THEOREM OwnersStay == Spec => OwnerStays
<1>1. Inv /\ [Next]_vars =>
        [\A l \in Lists, u \in Users : role[l][u] = "owner" => role'[l][u] = "owner"]_vars
  BY StepKeepsOwner
<1>2. Spec => []Inv BY InvInit, InvNext, PTL DEF Spec
<1> QED BY <1>1, <1>2, PTL DEF Spec, OwnerStays

\* A user is shown lists of their own and lists they are a member of, whatever
\* is selected (resolved_list_id_for_user, list_lists).
THEOREM RemovedMembersNotShown == Spec => []RemovedMemberNotShown
<1>1. TypeOK => RemovedMemberNotShown
  <2> SUFFICES ASSUME TypeOK, NEW u \in Users, NEW l \in Summaries(u)
               PROVE  IsMember(l, u) \/ owner[l] = u
    BY DEF RemovedMemberNotShown
  <2>1. CASE l \in VisibleMemberships(u) BY <2>1 DEF VisibleMemberships
  <2>2. CASE l \in Resolved(u) /\ l # None
    BY <2>2 DEF Resolved, VisibleMemberships, OwnLists
  <2> QED BY <2>1, <2>2 DEF Summaries
<1> QED BY <1>1, TypeCorrect, PTL
-----------------------------------------------------------------------------
(* One server at a time: what its handler read still holds when it writes.  *)

\* Two open invites are of two users or to two lists, and who closes an invite
\* does not open it again.
OpenOnce ==
  \A i, k \in Invites :
    /\ invite[i] # None /\ invite[i].status = "pending"
    /\ invite[k] # None /\ invite[k].status = "pending"
    /\ invite[i].list = invite[k].list /\ invite[i].to = invite[k].to
    => i = k
JobsClose ==
  \A s \in Servers : job[s] # None /\ job[s].todo \in Closings => job[s].status \in Closed

\* The user has no list yet, the invite is not there yet, or it is still open.
StillHolds(j) ==
  /\ Head(j.todo) = "insertList" => OwnLists(j.user) = {}
  /\ Head(j.todo) = "insertInvite" => j.invite \in Invites /\ invite[j.invite] = None
  /\ Head(j.todo) = "notify" => j.invite \in Invites /\ invite[j.invite].status = "pending"
  /\ j.todo \in Closings => invite[j.invite].status = "pending"

Settles(j, k) == j.invite = k /\ Head(j.todo) \in {"markRead", "retitle"}
ClosedNoted(k) == invite[k] # None /\ note[k] # None /\ invite[k].status # "pending"
InboxSettles ==
  \A k \in Invites : ClosedNoted(k) =>
    \/ note[k].read \/ note[k].says = "revoked"
    \/ \E s \in Servers : job[s] # None /\ Settles(job[s], k)

JobsRun == \A s \in Servers : job[s] # None => s \in fleet
JobsHold == \A s \in Servers : job[s] # None => StillHolds(job[s])
SerialInv ==
  /\ OpenOnce /\ JobsClose /\ JobsRun
  /\ OneServer => JobsHold /\ AtMostOne(owner) /\ (faults = 0 => InboxSettles)

\* What is left when a statement was executed.
LEMMA TodoRest ==
  ASSUME NEW todo \in Todos
  PROVE  /\ Head(todo) = "close" => Len(todo) # 1
         /\ Head(todo) \in {"insertInvite", "close"} => Tail(todo) \notin Closings
         /\ Len(todo) # 1 /\ Head(Tail(todo)) = "notify" => Head(todo) = "insertInvite"
         /\ Len(todo) # 1 => ( Head(Tail(todo)) \in {"markRead", "retitle"}
                               <=> Head(todo) = "close" )
<1>1. CASE todo = <<"insertList", "insertOwner", "select">> BY <1>1 DEF Closings
<1>2. CASE todo = <<"insertOwner", "select">> BY <1>2 DEF Closings
<1>3. CASE todo = <<"select">> BY <1>3 DEF Closings
<1>4. CASE todo = <<"insertMember", "select", "close", "markRead">> BY <1>4 DEF Closings
<1>5. CASE todo = <<"select", "close", "markRead">> BY <1>5 DEF Closings
<1>6. CASE todo = <<"close", "markRead">> BY <1>6 DEF Closings
<1>7. CASE todo = <<"markRead">> BY <1>7 DEF Closings
<1>8. CASE todo = <<"insertInvite", "notify">> BY <1>8 DEF Closings
<1>9. CASE todo = <<"notify">> BY <1>9 DEF Closings
<1>10. CASE todo = <<"close", "retitle">> BY <1>10 DEF Closings
<1>11. CASE todo = <<"retitle">> BY <1>11 DEF Closings
<1>12. CASE todo = <<"deleteMember", "fallBack">> BY <1>12 DEF Closings
<1>13. CASE todo = <<"fallBack">> BY <1>13 DEF Closings
<1> QED BY <1>1, <1>2, <1>3, <1>4, <1>5, <1>6, <1>7, <1>8, <1>9, <1>10, <1>11, <1>12, <1>13 DEF Todos

LEMMA ClosingsStart ==
  ASSUME NEW todo \in Closings
  PROVE  Head(todo) \in {"insertMember", "select", "close"}
BY DEF Closings

\* A user without a list to show owns none.
LEMMA NoneShown ==
  ASSUME TypeOK, NEW u \in Users, None \in Resolved(u)
  PROVE  OwnLists(u) = {}
BY NoneAssumption DEF Resolved, VisibleMemberships, OwnLists, TypeOK

\* What a request has read when its job begins.
Reads(s) ==
  \E u \in Users, l \in Lists, k \in Invites \union {None}, status \in Closed \union {"pending"},
     todo \in Todos :
    /\ Begin(s, u, l, k, status, todo)
    /\ todo \in Closings => k \in Invites /\ invite[k].status = "pending" /\ status \in Closed
    /\ Head(todo) = "insertList" => OwnLists(u) = {}
    /\ Head(todo) = "insertInvite" => k \in Invites /\ invite[k] = None
    /\ Head(todo) \notin {"notify", "markRead", "retitle"}

LEMMA PlainReads ==
  ASSUME NEW s \in Servers, NEW u \in Users, NEW l \in Lists,
         NEW todo \in {<<"select">>, <<"deleteMember", "fallBack">>},
         Begin(s, u, l, None, "pending", todo)
  PROVE  Reads(s)
<1>1. todo \in Todos /\ Head(todo) \in {"select", "deleteMember"} BY DEF Todos
<1>2. todo \notin Closings BY DEF Closings
<1> QED BY <1>1, <1>2 DEF Reads

LEMMA AnswerReads ==
  ASSUME Inv, NEW s \in Servers, NEW u \in Users, NEW k \in Invites, k \in ReceivedInvites(u),
         invite[k].status = "pending", NEW status \in Closed,
         NEW todo \in Closings, Begin(s, u, invite[k].list, k, status, todo)
  PROVE  Reads(s)
<1>1. invite[k].list \in Lists BY AnswerableInvite
<1>2. todo \in Todos BY DEF Todos, Closings
<1>3. Head(todo) \in {"insertMember", "select", "close"} BY ClosingsStart
<1> QED BY <1>1, <1>2, <1>3 DEF Reads

LEMMA RequestReads ==
  ASSUME Inv, NEW s \in Servers, NEW u \in Users, Receive(s, u)
  PROVE  Reads(s)
<1>0. TypeOK BY DEF Inv
<1>1. CASE GetActiveList(s, u)
  <2>1. Resolved(u) \ {None} \subseteq Lists
    BY DEF Resolved, VisibleMemberships, OwnLists
  <2> QED BY <1>1, <2>1, PlainReads DEF GetActiveList
<1>2. ASSUME NEW l \in Lists, CreateOwnList(s, u, l) PROVE Reads(s)
  <2> DEFINE todo == <<"insertList", "insertOwner", "select">>
  <2>1. Begin(s, u, l, None, "pending", todo) /\ OwnLists(u) = {}
    BY <1>0, <1>2, NoneShown DEF CreateOwnList
  <2>2. todo \in Todos /\ todo \notin Closings /\ Head(todo) = "insertList"
    BY DEF Todos, Closings
  <2> HIDE DEF todo
  <2> QED BY <2>1, <2>2 DEF Reads
<1>3. ASSUME NEW l \in Lists, SelectActiveList(s, u, l) PROVE Reads(s)
  BY <1>3, PlainReads DEF SelectActiveList
<1>4. ASSUME NEW l \in Lists, NEW t \in Users, RemoveMember(s, l, u, t) PROVE Reads(s)
  BY <1>4, PlainReads DEF RemoveMember
<1>5. ASSUME NEW l \in Lists, NEW t \in Users, NEW k \in Invites,
             InviteMemberByEmail(s, l, u, t, k)
      PROVE  Reads(s)
  <2> DEFINE todo == <<"insertInvite", "notify">>
  <2>1. Begin(s, t, l, k, "pending", todo) /\ invite[k] = None
    BY <1>5 DEF InviteMemberByEmail
  <2>2. todo \in Todos /\ todo \notin Closings /\ Head(todo) = "insertInvite"
    BY DEF Todos, Closings
  <2> HIDE DEF todo
  <2> QED BY <2>1, <2>2 DEF Reads
<1>6. ASSUME NEW k \in Invites,
             ExpireInvite(s, u, k) \/ AcceptPendingInvite(s, u, k) \/ DeclinePendingInvite(s, u, k)
      PROVE  Reads(s)
  <2>1. k \in ReceivedInvites(u) /\ invite[k].status = "pending"
    BY <1>6 DEF ExpireInvite, AcceptPendingInvite, DeclinePendingInvite, Answerable
  <2>2. \E status \in Closed, todo \in Closings : Begin(s, u, invite[k].list, k, status, todo)
    BY <1>6 DEF ExpireInvite, AcceptPendingInvite, DeclinePendingInvite, Closed, Closings
  <2> QED BY <2>1, <2>2, AnswerReads
<1>7. ASSUME NEW k \in Invites, RevokeInvite(s, u, k) PROVE Reads(s)
  <2>1. invite[k] # None /\ invite[k].status = "pending"
        /\ Begin(s, invite[k].to, invite[k].list, k, "revoked", <<"close", "retitle">>)
    BY <1>7 DEF RevokeInvite, ListInvites
  <2>2. invite[k].to \in Users BY <2>1, <1>0 DEF TypeOK, Invite
  <2>3. k \in ReceivedInvites(invite[k].to) BY <2>1 DEF ReceivedInvites
  <2>4. "revoked" \in Closed /\ <<"close", "retitle">> \in Closings BY DEF Closed, Closings
  <2> QED BY <2>1, <2>2, <2>3, <2>4, AnswerReads
<1> QED BY <1>1, <1>2, <1>3, <1>4, <1>5, <1>6, <1>7 DEF Receive

LEMMA ExecuteLeaves ==
  ASSUME Inv, NEW s \in Servers, Execute(s)
  PROVE  /\ job[s] # None /\ job[s].todo \in Todos
         /\ \A t \in Servers : t # s => job'[t] = job[t]
         /\ job'[s] # None =>
              /\ Len(job[s].todo) # 1
              /\ job'[s].todo = Tail(job[s].todo) /\ job'[s].todo \in Todos
              /\ job'[s].user = job[s].user /\ job'[s].list = job[s].list
              /\ job'[s].invite = job[s].invite /\ job'[s].status = job[s].status
         /\ fleet' = fleet /\ faults' = faults
<1>1. \/ \E st : Executes(s, st)
      \/ job[s] # None /\ job' = [job EXCEPT ![s] = None] /\ UNCHANGED <<fleet, faults>>
  BY DEF Execute, InsertList, InsertOwner, SetActiveListId, InsertMember, SetInviteStatus,
         MarkInviteNotificationsRead, InsertListInvite, CreateAppNotification,
         UpdateInviteNotifications, DeleteMember, FallBackSelectedList
<1>2. job[s] # None BY <1>1 DEF Executes
<1>3. job[s] \in Job /\ job[s].todo \in Todos BY <1>2, KnownJob
<1>4. job \in [Servers -> Job \union {None}] BY DEF Inv, TypeOK
<1>5. CASE job' = [job EXCEPT ![s] = None] /\ UNCHANGED <<fleet, faults>>
  BY <1>2, <1>3, <1>4, <1>5
<1>6. CASE \E st : Executes(s, st)
  <2> DEFINE rest == [job[s] EXCEPT !.todo = Tail(job[s].todo)]
  <2>1. /\ job' = [job EXCEPT ![s] = IF Len(job[s].todo) = 1 THEN None ELSE rest]
        /\ fleet' = fleet /\ faults' = faults
    BY <1>6 DEF Executes
  <2>2. Len(job[s].todo) # 1 =>
          /\ rest.todo = Tail(job[s].todo) /\ rest.todo \in Todos
          /\ rest.user = job[s].user /\ rest.list = job[s].list
          /\ rest.invite = job[s].invite /\ rest.status = job[s].status
    BY <1>3, RestOfJob
  <2> HIDE DEF rest
  <2>3. /\ job'[s] = IF Len(job[s].todo) = 1 THEN None ELSE rest
        /\ \A t \in Servers : t # s => job'[t] = job[t]
    BY <1>4, <2>1
  <2>4. job'[s] # None => Len(job[s].todo) # 1 /\ job'[s] = rest BY <2>3
  <2> QED BY <1>2, <1>3, <2>1, <2>2, <2>3, <2>4
<1> QED BY <1>1, <1>2, <1>5, <1>6

\* An invite is closed or inserted, or none changes.
InviteCloses(s) ==
  LET i == job[s].invite IN
  /\ Head(job[s].todo) = "close"
  /\ i \in Invites /\ invite[i] \in Invite /\ invite'[i] \in Invite
  /\ invite'[i].status = job[s].status
  /\ invite'[i].list = invite[i].list /\ invite'[i].to = invite[i].to
  /\ \A k \in Invites : k # i => invite'[k] = invite[k]
InviteOpens(s) ==
  LET i == job[s].invite IN
  /\ Head(job[s].todo) = "insertInvite"
  /\ PendingInvites(job[s].list, job[s].user) = {}
  /\ i \in Invites => /\ invite'[i] \in Invite /\ invite'[i].status = "pending"
                      /\ invite'[i].list = job[s].list /\ invite'[i].to = job[s].user
  /\ \A k \in Invites : k # i => invite'[k] = invite[k]
InvitesStay(s) ==
  /\ invite' = invite
  /\ Head(job[s].todo) # "close"
  /\ Head(job[s].todo) = "insertInvite" => job'[s] = None

LEMMA InviteSteps ==
  ASSUME Inv, NEW s \in Servers, Execute(s)
  PROVE  InviteCloses(s) \/ InviteOpens(s) \/ InvitesStay(s)
<1>0. /\ job[s] # None /\ job[s] \in Job /\ job[s].todo \in Todos /\ JobFits(job[s])
      /\ invite \in [Invites -> Invite \union {None}] /\ job \in [Servers -> Job \union {None}]
  BY ExecuteLeaves, KnownJob DEF Inv, TypeOK
<1>1. CASE SetInviteStatus(s)
  <2> DEFINE i == job[s].invite
             v == [invite[i] EXCEPT !.status = job[s].status]
  <2>1. Head(job[s].todo) = "close" /\ invite' = [invite EXCEPT ![i] = v]
    BY <1>1 DEF SetInviteStatus, Executes
  <2>2. job[s].todo \in Closings BY <1>0, <2>1, TodoSteps
  <2>3. i \in Invites /\ invite[i] \in Invite BY <1>0, <2>2 DEF JobFits
  <2>4. /\ v \in Invite /\ v.status = job[s].status /\ v.list = invite[i].list
        /\ v.to = invite[i].to
    BY <1>0, <2>3 DEF Invite, Job
  <2> HIDE DEF v
  <2>5. invite'[i] = v /\ \A k \in Invites : k # i => invite'[k] = invite[k]
    BY <1>0, <2>1, <2>3
  <2> QED BY <2>1, <2>3, <2>4, <2>5 DEF InviteCloses
<1>2. CASE InsertListInvite(s)
  <2>1. CASE job' = [job EXCEPT ![s] = None] /\ Head(job[s].todo) = "insertInvite"
             /\ UNCHANGED <<fleet, dataVars, sent, faults>>
    BY <1>0, <2>1 DEF InvitesStay, dataVars
  <2> DEFINE i == job[s].invite
             v == [list |-> job[s].list, to |-> job[s].user, status |-> "pending", late |-> FALSE]
  <2>2. CASE Executes(s, "insertInvite") /\ PendingInvites(job[s].list, job[s].user) = {}
             /\ invite' = [invite EXCEPT ![i] = v]
    <3>1. /\ v \in Invite /\ v.status = "pending" /\ v.list = job[s].list
          /\ v.to = job[s].user
      BY <1>0 DEF Invite, Job
    <3> HIDE DEF v
    <3>2. /\ i \in Invites => invite'[i] = v
          /\ \A k \in Invites : k # i => invite'[k] = invite[k]
      BY <1>0, <2>2
    <3>3. Head(job[s].todo) = "insertInvite" BY <2>2 DEF Executes
    <3> QED BY <2>2, <3>1, <3>2, <3>3 DEF InviteOpens
  <2> QED BY <1>2, <2>1, <2>2 DEF InsertListInvite
<1>3. CASE ~SetInviteStatus(s) /\ ~InsertListInvite(s)
  BY <1>3 DEF Execute, InvitesStay, Executes, InsertList, InsertOwner, SetActiveListId,
       InsertMember, MarkInviteNotificationsRead, CreateAppNotification,
       UpdateInviteNotifications, DeleteMember, FallBackSelectedList
<1> QED BY <1>1, <1>2, <1>3

\* A notification is settled or made, or none changes.
NoteSettles(s) ==
  /\ Head(job[s].todo) \in {"markRead", "retitle"}
  /\ \A k \in Invites :
       IF k = job[s].invite
       THEN note'[k] = None \/ note'[k].read = TRUE \/ note'[k].says = "revoked"
       ELSE note'[k] = note[k]
NoteAppears(s) ==
  /\ Head(job[s].todo) = "notify"
  /\ \A k \in Invites : k # job[s].invite => note'[k] = note[k]
NotesStay(s) == note' = note /\ Head(job[s].todo) \notin {"markRead", "retitle"}

LEMMA NoteSteps ==
  ASSUME Inv, NEW s \in Servers, Execute(s)
  PROVE  NoteSettles(s) \/ NoteAppears(s) \/ NotesStay(s)
<1>0. note \in [Invites -> Note \union {None}] BY DEF Inv, TypeOK
<1>1. CASE MarkInviteNotificationsRead(s)
  BY <1>0, <1>1 DEF MarkInviteNotificationsRead, Executes, NoteSettles, Note
<1>2. CASE UpdateInviteNotifications(s)
  BY <1>0, <1>2 DEF UpdateInviteNotifications, Executes, NoteSettles, Note
<1>3. CASE CreateAppNotification(s)
  BY <1>0, <1>3 DEF CreateAppNotification, Executes, NoteAppears
<1>4. CASE ~MarkInviteNotificationsRead(s) /\ ~UpdateInviteNotifications(s)
           /\ ~CreateAppNotification(s)
  BY <1>4 DEF Execute, NotesStay, Executes, InsertList, InsertOwner, SetActiveListId,
       InsertMember, SetInviteStatus, InsertListInvite, DeleteMember, FallBackSelectedList,
       dataVars
<1> QED BY <1>1, <1>2, <1>3, <1>4

\* A list is created, or none gets another owner.
LEMMA OwnerSteps ==
  ASSUME Inv, NEW s \in Servers, Execute(s)
  PROVE  \/ owner' = owner
         \/ /\ Head(job[s].todo) = "insertList" /\ job[s].list \in Lists
            /\ owner' = [owner EXCEPT ![job[s].list] = job[s].user]
<1>1. job[s].list \in Lists BY ExecuteLeaves, KnownJob
<1> QED BY <1>1 DEF Execute, Executes, InsertList, InsertOwner, SetActiveListId,
       InsertMember, SetInviteStatus, MarkInviteNotificationsRead, InsertListInvite,
       CreateAppNotification, UpdateInviteNotifications, DeleteMember, FallBackSelectedList,
       dataVars

\* What closes an invite closes it, and an invite opens when none is open.
LEMMA OpenOnceStep ==
  ASSUME Inv, OpenOnce, JobsClose, NEW s \in Servers, Execute(s)
  PROVE  OpenOnce'
<1>1. job[s] # None /\ job[s].todo \in Todos BY ExecuteLeaves
<1>2. CASE InvitesStay(s) BY <1>2 DEF InvitesStay, OpenOnce
<1> DEFINE i == job[s].invite
<1>3. CASE InviteCloses(s)
  <2>1. job[s].todo \in Closings BY <1>1, <1>3, TodoSteps DEF InviteCloses
  <2>2. invite'[i].status # "pending" BY <1>1, <1>3, <2>1 DEF JobsClose, Closed, InviteCloses
  <2>3. \A k \in Invites : k # i => invite'[k] = invite[k] BY <1>3 DEF InviteCloses
  <2> HIDE DEF i
  <2> QED BY <2>2, <2>3 DEF OpenOnce
<1>4. CASE InviteOpens(s)
  <2>1. \A k \in Invites : k # i => invite'[k] = invite[k] BY <1>4 DEF InviteOpens
  <2>2. i \in Invites =>
          /\ invite'[i].status = "pending"
          /\ invite'[i].list = job[s].list /\ invite'[i].to = job[s].user
    BY <1>4 DEF InviteOpens
  <2>3. \A k \in Invites :
          invite[k] # None /\ invite[k].list = job[s].list /\ invite[k].to = job[s].user
            => invite[k].status # "pending"
    BY <1>4 DEF InviteOpens, PendingInvites, ListInvites, ReceivedPending, ReceivedInvites
  <2> HIDE DEF i
  <2> QED BY <2>1, <2>2, <2>3 DEF OpenOnce
<1> QED BY <1>2, <1>3, <1>4, InviteSteps

LEMMA JobsStep ==
  ASSUME Inv, JobsClose, JobsRun, NEW s \in Servers, Execute(s)
  PROVE  JobsClose' /\ JobsRun'
<1>1. /\ job[s] # None /\ job[s].todo \in Todos
      /\ \A t \in Servers : t # s => job'[t] = job[t]
      /\ job'[s] # None =>
           job'[s].todo = Tail(job[s].todo) /\ job'[s].status = job[s].status
      /\ fleet' = fleet
  BY ExecuteLeaves
<1>2. Tail(job[s].todo) \in Closings => job[s].todo \in Closings BY <1>1, TodoSteps
<1> QED BY <1>1, <1>2 DEF JobsClose, JobsRun

LEMMA OneRuns ==
  ASSUME OneServer, JobsRun, NEW s \in Servers, job[s] # None
  PROVE  \A t \in Servers : t # s => job[t] = None
BY DEF OneServer, JobsRun

\* The one handler at work keeps what it has read.
LEMMA HoldsStep ==
  ASSUME Inv, OneServer, JobsRun, JobsHold, AtMostOne(owner), NEW s \in Servers, Execute(s)
  PROVE  JobsHold' /\ AtMostOne(owner)'
<1> DEFINE todo == job[s].todo
           i == job[s].invite
<1>1. /\ job[s] # None /\ todo \in Todos
      /\ \A t \in Servers : t # s => job'[t] = job[t]
      /\ job'[s] # None =>
           /\ Len(todo) # 1 /\ job'[s].todo = Tail(todo) /\ job'[s].invite = i
  BY ExecuteLeaves
<1>2. \A t \in Servers : t # s => job'[t] = None BY <1>1, OneRuns
<1>3. StillHolds(job[s]) BY <1>1 DEF JobsHold
<1>4. AtMostOne(owner)'
  <2>1. CASE owner' = owner BY <2>1 DEF AtMostOne
  <2>2. CASE /\ Head(todo) = "insertList" /\ job[s].list \in Lists
             /\ owner' = [owner EXCEPT ![job[s].list] = job[s].user]
    <3>1. \A l \in Lists : owner[l] # job[s].user BY <1>3, <2>2 DEF StillHolds, OwnLists
    <3>2. owner \in [Lists -> Users \union {None}] BY DEF Inv, TypeOK
    <3> HIDE DEF todo
    <3> QED BY <2>2, <3>1, <3>2 DEF AtMostOne
  <2> QED BY <2>1, <2>2, OwnerSteps
<1>5. ASSUME job'[s] # None PROVE StillHolds(job[s])'
  <2>1. /\ Head(Tail(todo)) \notin {"insertList", "insertInvite"}
        /\ Tail(todo) \in Closings => todo \in Closings
    BY <1>1, <1>5, TodoSteps
  <2>2. /\ Head(todo) \in {"insertInvite", "close"} => Tail(todo) \notin Closings
        /\ Head(Tail(todo)) = "notify" => Head(todo) = "insertInvite"
    BY <1>1, <1>5, TodoRest
  <2>3. ASSUME Head(Tail(todo)) = "notify"
        PROVE  i \in Invites /\ invite'[i].status = "pending"
    <3>1. Head(todo) = "insertInvite" BY <2>2, <2>3
    <3>2. i \in Invites BY <1>3, <3>1 DEF StillHolds
    <3>3. InviteOpens(s) BY <1>5, <3>1, InviteSteps DEF InviteCloses, InvitesStay
    <3> QED BY <3>2, <3>3 DEF InviteOpens
  <2>4. ASSUME Tail(todo) \in Closings PROVE invite'[i].status = "pending"
    <3>1. todo \in Closings /\ Head(todo) \notin {"insertInvite", "close"} BY <2>1, <2>2, <2>4
    <3>2. InvitesStay(s) BY <3>1, InviteSteps DEF InviteCloses, InviteOpens
    <3> QED BY <1>3, <3>1, <3>2 DEF StillHolds, InvitesStay
  <2> HIDE DEF todo, i
  <2> QED BY <1>1, <1>5, <2>1, <2>3, <2>4 DEF StillHolds
<1> QED BY <1>2, <1>4, <1>5 DEF JobsHold

LEMMA CloseNotesNext ==
  ASSUME Inv, NEW s \in Servers, Execute(s), Head(job[s].todo) = "close"
  PROVE  job'[s] # None
<1>1. job[s] # None BY ExecuteLeaves
<1>2. job[s] \in Job /\ job[s].todo \in Todos BY <1>1, KnownJob
<1>3. Len(job[s].todo) # 1 BY <1>2, TodoRest
<1> DEFINE rest == [job[s] EXCEPT !.todo = Tail(job[s].todo)]
<1>4. rest \in Job BY <1>2, <1>3, RestOfJob
<1>5. job' = [job EXCEPT ![s] = IF Len(job[s].todo) = 1 THEN None ELSE rest]
  BY DEF Execute, Executes, InsertList, InsertOwner, SetActiveListId, InsertMember,
         SetInviteStatus, MarkInviteNotificationsRead, InsertListInvite,
         CreateAppNotification, UpdateInviteNotifications, DeleteMember, FallBackSelectedList
<1> HIDE DEF rest
<1>6. job'[s] = rest BY <1>3, <1>5 DEF Inv, TypeOK
<1> QED BY <1>4, <1>6, NoJobAssumption

\* Whoever closed an invite goes on to its notification.
LEMMA InboxStep ==
  ASSUME Inv, OneServer, JobsRun, JobsHold, InboxSettles, NEW s \in Servers, Execute(s)
  PROVE  InboxSettles'
<1> DEFINE todo == job[s].todo
           i == job[s].invite
<1>1. /\ job[s] # None /\ todo \in Todos
      /\ job'[s] # None =>
           /\ Len(todo) # 1 /\ job'[s].todo = Tail(todo) /\ job'[s].invite = i
  BY ExecuteLeaves
<1>2. \A t \in Servers : t # s => job[t] = None BY <1>1, OneRuns
<1>3. StillHolds(job[s]) BY <1>1 DEF JobsHold
<1>4. Head(todo) = "close" => job'[s] # None /\ Head(Tail(todo)) \in {"markRead", "retitle"}
  <2>1. ASSUME Head(todo) = "close" PROVE Len(todo) # 1 BY <1>1, <2>1, TodoRest
  <2>2. ASSUME Head(todo) = "close" PROVE job'[s] # None
    BY <2>1, <2>2, CloseNotesNext
  <2> QED BY <1>1, <2>1, <2>2, TodoRest
<1> SUFFICES ASSUME NEW k \in Invites, ClosedNoted(k)'
             PROVE  \/ note'[k].read \/ note'[k].says = "revoked"
                    \/ \E t \in Servers : job'[t] # None /\ Settles(job[t], k)'
  BY DEF InboxSettles
<1>5. invite'[k] # None /\ note'[k] # None /\ invite'[k].status # "pending" BY DEF ClosedNoted
<1>6. CASE k = i /\ Head(todo) = "close"
  BY <1>1, <1>4, <1>6 DEF Settles
<1>7. CASE k = i /\ Head(todo) \in {"markRead", "retitle"}
  BY <1>5, <1>7, NoteSteps DEF NoteSettles, NoteAppears, NotesStay
<1>8. CASE k # i \/ Head(todo) \notin {"close", "markRead", "retitle"}
  <2>1. invite'[k] = invite[k]
    <3>1. CASE InviteOpens(s) BY <1>5, <1>8, <3>1 DEF InviteOpens
    <3>2. CASE InviteCloses(s) BY <1>8, <3>2 DEF InviteCloses
    <3>3. CASE InvitesStay(s) BY <3>3 DEF InvitesStay
    <3> QED BY <3>1, <3>2, <3>3, InviteSteps
  <2>2. note'[k] = note[k]
    <3>1. Head(todo) = "notify" /\ k = i => invite[k].status = "pending"
      BY <1>3 DEF StillHolds
    <3>2. ~(Head(todo) = "notify" /\ k = i) BY <1>5, <2>1, <3>1
    <3> QED BY <1>8, <3>2, NoteSteps DEF NoteSettles, NoteAppears, NotesStay
  <2>3. \A t \in Servers : job[t] # None => ~Settles(job[t], k)
    BY <1>2, <1>8 DEF Settles
  <2>4. note[k].read \/ note[k].says = "revoked"
    BY <1>5, <2>1, <2>2, <2>3 DEF InboxSettles, ClosedNoted
  <2> QED BY <2>2, <2>4
<1> QED BY <1>6, <1>7, <1>8

\* With one server a request comes when nothing is under way.
LEMMA SerialReceive ==
  ASSUME Inv, SerialInv, NEW s \in Servers, NEW w \in Users, Receive(s, w)
  PROVE  SerialInv'
<1>1. PICK u \in Users, l \in Lists, k \in Invites \union {None},
           status \in Closed \union {"pending"}, todo \in Todos :
        /\ Begin(s, u, l, k, status, todo)
        /\ todo \in Closings => k \in Invites /\ invite[k].status = "pending" /\ status \in Closed
        /\ Head(todo) = "insertList" => OwnLists(u) = {}
        /\ Head(todo) = "insertInvite" => k \in Invites /\ invite[k] = None
        /\ Head(todo) \notin {"notify", "markRead", "retitle"}
  BY RequestReads DEF Reads
<1> DEFINE j == [user |-> u, list |-> l, invite |-> k, status |-> status, todo |-> todo]
<1>2. /\ s \in fleet /\ job[s] = None /\ job' = [job EXCEPT ![s] = j]
      /\ UNCHANGED <<fleet, owner, role, active, invite, note, faults>>
  BY <1>1 DEF Begin, dataVars
<1>3. j.user = u /\ j.invite = k /\ j.status = status /\ j.todo = todo OBVIOUS
<1>4. job \in [Servers -> Job \union {None}] BY DEF Inv, TypeOK
<1> HIDE DEF j
<1>5. job'[s] = j /\ \A t \in Servers : t # s => job'[t] = job[t] BY <1>2, <1>4
<1>6. OpenOnce' BY <1>2 DEF SerialInv, OpenOnce
<1>7. JobsClose' /\ JobsRun'
  BY <1>1, <1>2, <1>3, <1>5 DEF SerialInv, JobsClose, JobsRun
<1>8. StillHolds(j)' BY <1>1, <1>2, <1>3 DEF StillHolds, OwnLists
<1>9. ASSUME OneServer' PROVE JobsHold' /\ AtMostOne(owner)' /\ (faults' = 0 => InboxSettles')
  <2>1. OneServer /\ JobsRun BY <1>2, <1>9 DEF OneServer, SerialInv
  <2>2. \A t \in Servers : job[t] = None BY <1>2, <2>1 DEF OneServer, JobsRun
  <2>3. JobsHold' BY <1>5, <1>8, <2>2 DEF JobsHold, StillHolds
  <2>4. AtMostOne(owner)' BY <1>2, <2>1 DEF SerialInv, AtMostOne
  <2>5. faults' = 0 => InboxSettles'
    BY <1>2, <2>1, <2>2 DEF SerialInv, InboxSettles, ClosedNoted
  <2> QED BY <2>3, <2>4, <2>5
<1> QED BY <1>6, <1>7, <1>9 DEF SerialInv

LEMMA SerialExecute ==
  ASSUME Inv, SerialInv, NEW s \in Servers, Execute(s)
  PROVE  SerialInv'
<1>1. fleet' = fleet /\ faults' = faults BY ExecuteLeaves
<1>2. OpenOnce' /\ JobsClose' /\ JobsRun' BY OpenOnceStep, JobsStep DEF SerialInv
<1>3. ASSUME OneServer' PROVE JobsHold' /\ AtMostOne(owner)' /\ (faults' = 0 => InboxSettles')
  <2>1. OneServer BY <1>1, <1>3 DEF OneServer
  <2> QED BY <1>1, <2>1, HoldsStep, InboxStep DEF SerialInv
<1> QED BY <1>2, <1>3 DEF SerialInv

LEMMA SerialCrash ==
  ASSUME Inv, SerialInv, NEW s \in Servers, Crash(s)
  PROVE  SerialInv'
<1>1. /\ job' = [job EXCEPT ![s] = None] /\ faults' = faults + 1
      /\ UNCHANGED <<fleet, owner, role, active, invite, note>>
  BY DEF Crash, dataVars
<1>2. faults \in Nat /\ job \in [Servers -> Job \union {None}] BY DEF Inv, TypeOK
<1>3. faults' # 0 BY <1>1, <1>2
<1>4. \A t \in Servers : job'[t] = job[t] \/ job'[t] = None BY <1>1, <1>2
<1>5. OpenOnce' /\ JobsClose' /\ JobsRun'
  BY <1>1, <1>4 DEF SerialInv, OpenOnce, JobsClose, JobsRun
<1>6. ASSUME OneServer' PROVE JobsHold' /\ AtMostOne(owner)'
  BY <1>1, <1>4, <1>6 DEF SerialInv, OneServer, JobsHold, StillHolds, OwnLists, AtMostOne
<1> QED BY <1>3, <1>5, <1>6 DEF SerialInv

\* What is late, read or deleted changes no status.
LEMMA SerialQuiet ==
  ASSUME Inv, SerialInv, UNCHANGED <<fleet, owner, job, faults>>,
         \A k \in Invites :
           \/ invite'[k] = invite[k]
           \/ /\ invite[k] # None
              /\ invite'[k].status = invite[k].status /\ invite'[k].list = invite[k].list
              /\ invite'[k].to = invite[k].to,
         \A k \in Invites : note'[k] = note[k] \/ note'[k] = None \/ note'[k].read = TRUE
  PROVE  SerialInv'
<1>1. OpenOnce' BY DEF SerialInv, OpenOnce
<1>2. JobsClose' /\ JobsRun' BY DEF SerialInv, JobsClose, JobsRun
<1>3. \A s \in Servers : job[s] # None /\ job[s].todo \in Closings => job[s].invite \in Invites
  BY KnownJob DEF JobFits
<1>4. ASSUME OneServer' PROVE JobsHold' /\ AtMostOne(owner)' /\ (faults' = 0 => InboxSettles')
  <2>1. OneServer BY <1>4 DEF OneServer
  <2>2. AtMostOne(owner)' BY <2>1 DEF SerialInv, AtMostOne
  <2>3. JobsHold' BY <1>3, <2>1 DEF SerialInv, JobsHold, StillHolds, OwnLists
  <2>4. faults' = 0 => InboxSettles'
    BY <2>1 DEF SerialInv, InboxSettles, ClosedNoted, Settles
  <2> QED BY <2>2, <2>3, <2>4
<1> QED BY <1>1, <1>2, <1>4 DEF SerialInv

LEMMA SerialInvInit == Init => SerialInv
<1> SUFFICES ASSUME Init PROVE SerialInv OBVIOUS
<1>1. /\ \A s \in Servers : job[s] = None
      /\ \A k \in Invites : invite[k] = None
      /\ AtMostOne(owner)
  BY DEF Init
<1> QED BY <1>1 DEF SerialInv, OpenOnce, JobsClose, JobsRun, JobsHold, InboxSettles, ClosedNoted

LEMMA SerialInvNext == Inv /\ SerialInv /\ [Next]_vars => SerialInv'
<1> SUFFICES ASSUME Inv, SerialInv, [Next]_vars PROVE SerialInv'
  OBVIOUS
<1>1. ASSUME NEW s \in Servers, Execute(s) PROVE SerialInv' BY <1>1, SerialExecute
<1>2. ASSUME NEW s \in Servers, Crash(s) PROVE SerialInv' BY <1>2, SerialCrash
<1>3. ASSUME NEW s \in Servers, NEW u \in Users, Receive(s, u) PROVE SerialInv'
  BY <1>3, SerialReceive
<1>4. ASSUME NEW k \in Invites, InviteGetsLate(k) PROVE SerialInv'
  <2>1. /\ invite[k] # None /\ invite \in [Invites -> Invite \union {None}]
        /\ invite' = [invite EXCEPT ![k].late = TRUE]
        /\ UNCHANGED <<fleet, owner, note, job, faults>>
    BY <1>4 DEF InviteGetsLate, Inv, TypeOK
  <2>2. /\ invite'[k].status = invite[k].status /\ invite'[k].list = invite[k].list
        /\ invite'[k].to = invite[k].to
        /\ \A i \in Invites : i # k => invite'[i] = invite[i]
    BY <2>1 DEF Invite
  <2> QED BY <2>1, <2>2, SerialQuiet
<1>5. ASSUME NEW u \in Users, ReadInbox(u) \/ DeleteFromInbox(u) PROVE SerialInv'
  <2>1. UNCHANGED <<fleet, owner, invite, job, faults>> BY <1>5 DEF ReadInbox, DeleteFromInbox
  <2>2. note \in [Invites -> Note \union {None}] BY DEF Inv, TypeOK
  <2>3. \A k \in Invites : note'[k] = note[k] \/ note'[k] = None \/ note'[k].read = TRUE
    <3>1. CASE ReadInbox(u) BY <2>2, <3>1 DEF ReadInbox, Addressed, Note
    <3>2. CASE DeleteFromInbox(u) BY <3>2 DEF DeleteFromInbox
    <3> QED BY <1>5, <3>1, <3>2
  <2> QED BY <2>1, <2>3, SerialQuiet
<1>6. CASE UNCHANGED vars BY <1>6, SerialQuiet DEF vars
<1> QED BY <1>1, <1>2, <1>3, <1>4, <1>5, <1>6 DEF Next

LEMMA AtMostOneElement ==
  ASSUME NEW S, \A a, b \in S : a = b
  PROVE  Cardinality(S) <= 1
<1>1. CASE S = {} BY <1>1, FS_EmptySet
<1>2. CASE S # {}
  <2>1. PICK a : a \in S BY <1>2
  <2>2. S = {a} BY <2>1
  <2>3. Cardinality({a}) = 1 BY FS_Singleton
  <2> QED BY <2>2, <2>3
<1> QED BY <1>1, <1>2

LEMMA SerialInvariant == Spec => [](Inv /\ SerialInv)
BY InvInit, InvNext, SerialInvInit, SerialInvNext, PTL DEF Spec

\* Two servers may both find no open invite of a user to a list, and the index
\* lets one insert it (invite_member_by_email, insert_list_invite).
THEOREM OneOpenInvite == Spec => []OnePendingInvite
<1>1. SerialInv => OnePendingInvite
  <2> SUFFICES ASSUME SerialInv, NEW l \in Lists, NEW u \in Users
               PROVE  Cardinality(PendingInvites(l, u)) <= 1
    BY DEF OnePendingInvite
  <2>1. \A i, k \in PendingInvites(l, u) : i = k
    BY DEF SerialInv, OpenOnce, PendingInvites, ListInvites, ReceivedPending, ReceivedInvites
  <2> QED BY <2>1, AtMostOneElement
<1> QED BY <1>1, SerialInvariant, PTL

\* With one server no user is given two lists, also by a handler that stopped
\* between the list and its owner's row (list_lists, get_active_list).
THEOREM OneListOfTheirOwn == Spec => []OneOwnList
<1>1. Inv /\ SerialInv => OneOwnList
  <2> SUFFICES ASSUME Inv, SerialInv, OneServer, NEW u \in Users
               PROVE  Cardinality(OwnLists(u)) <= 1
    BY DEF OneOwnList
  <2>1. \A k, l \in OwnLists(u) : k = l
    BY NoneAssumption DEF SerialInv, AtMostOne, OwnLists
  <2> QED BY <2>1, AtMostOneElement
<1> QED BY <1>1, SerialInvariant, PTL

\* With one server and no fault no unread notification offers an invite that is
\* closed (mark_invite_notifications_read, revoke_list_invite).
THEOREM InboxTellsTruth == Spec => []InboxAgrees
<1>1. Inv /\ SerialInv => InboxAgrees
  <2> SUFFICES ASSUME Inv, SerialInv, OneServer, faults = 0, Idle, NEW k \in Invites, ClosedNoted(k)
               PROVE  note[k].read \/ note[k].says = "revoked"
    BY DEF InboxAgrees, ClosedNoted
  <2>1. \A s \in Servers : job[s] = None BY DEF Idle, SerialInv, JobsRun
  <2> QED BY <2>1 DEF SerialInv, InboxSettles
<1> QED BY <1>1, SerialInvariant, PTL

\* With one server an answer to an invite stays: nothing accepts what was
\* revoked, or revokes what was accepted (respond_to_invite, revoke_list_invite).
THEOREM ClosedInvitesStay == Spec => ClosedInviteStays
<1> DEFINE Stays == \A k \in Invites : invite[k] # None /\ invite[k].status # "pending" =>
                      invite'[k].status = invite[k].status
<1>1. Inv /\ SerialInv /\ [Next]_vars => [OneServer => Stays]_vars
  <2> SUFFICES ASSUME Inv, SerialInv, Next, OneServer, NEW k \in Invites,
                      invite[k] # None, invite[k].status # "pending"
               PROVE  invite'[k].status = invite[k].status
    OBVIOUS
  <2>1. ASSUME NEW s \in Servers, Execute(s) PROVE invite'[k].status = invite[k].status
    <3>1. job[s] # None /\ job[s].todo \in Todos BY <2>1, ExecuteLeaves
    <3>2. StillHolds(job[s]) BY <3>1 DEF SerialInv, JobsHold
    <3>3. CASE InviteCloses(s)
      <4>1. job[s].todo \in Closings BY <3>1, <3>3, TodoSteps DEF InviteCloses
      <4> QED BY <3>2, <3>3, <4>1 DEF StillHolds, InviteCloses
    <3>4. CASE InviteOpens(s) BY <3>2, <3>4 DEF StillHolds, InviteOpens
    <3>5. CASE InvitesStay(s) BY <3>5 DEF InvitesStay
    <3> QED BY <2>1, <3>3, <3>4, <3>5, InviteSteps
  <2>2. ASSUME NEW i \in Invites, InviteGetsLate(i) PROVE invite'[k].status = invite[k].status
    BY <2>2 DEF InviteGetsLate, Inv, TypeOK, Invite
  <2>3. CASE invite' = invite BY <2>3
  <2>4. ASSUME NEW s \in Servers, Crash(s) \/ \E u \in Users : Receive(s, u)
        PROVE  invite' = invite
    <3>1. CASE Crash(s) BY <3>1 DEF Crash, dataVars
    <3>2. ASSUME NEW u \in Users, Receive(s, u) PROVE invite' = invite
      BY <3>2, RequestReads DEF Reads, Begin, dataVars
    <3> QED BY <2>4, <3>1, <3>2
  <2>5. ASSUME NEW u \in Users, ReadInbox(u) \/ DeleteFromInbox(u) PROVE invite' = invite
    BY <2>5 DEF ReadInbox, DeleteFromInbox
  <2> QED BY <2>1, <2>2, <2>3, <2>4, <2>5 DEF Next
<1> QED BY <1>1, SerialInvariant, PTL DEF Spec, ClosedInviteStays

(* ---------------------------------- streams --------------------------------- *)
(* The stream of events: what a connection holds is the end of what was     *)
(* published.                                                               *)

Held(c) == notifies[c] \o wire[c]
\* How many notifications there were when the stream had taken its last one.
Taken(c) == Len(published) - Len(Held(c))
\* The notifications of a stream's own list, from one number of them to another.
Between(c, a, b) == {i \in (a + 1)..b : published[i] = ListOf[c]}

SyncTypes ==
  /\ published \in Seq(SharedLists)
  /\ since \in [Streams -> Nat \union {Off}]
  /\ wire \in [Streams -> Seq(SharedLists)]
  /\ notifies \in [Streams -> Seq(SharedLists)]
  /\ told \in [Streams -> Nat]

HoldsTheRest(c) ==
  /\ since[c] <= Taken(c)
  /\ \A i \in 1..Len(Held(c)) : Held(c)[i] = published[Taken(c) + i]
  /\ told[c] = Cardinality(Between(c, since[c], Taken(c)))

SyncInv ==
  /\ SyncTypes
  /\ \A c \in Streams : IF Listening(c) THEN HoldsTheRest(c)
                        ELSE wire[c] = <<>> /\ notifies[c] = <<>>

LEMMA HeldSeq ==
  ASSUME SyncTypes, NEW c \in Streams
  PROVE  /\ Held(c) \in Seq(SharedLists) /\ Len(Held(c)) = Len(notifies[c]) + Len(wire[c])
         /\ Len(Held(c)) \in Nat /\ Taken(c) \in Int /\ Taken(c) <= Len(published)
         /\ Taken(c) + Len(Held(c)) = Len(published)
         /\ Listening(c) => since[c] \in Nat
<1>1. /\ notifies[c] \in Seq(SharedLists) /\ wire[c] \in Seq(SharedLists)
      /\ published \in Seq(SharedLists)
  BY DEF SyncTypes
<1>0. Len(notifies[c]) \in Nat /\ Len(wire[c]) \in Nat /\ Len(published) \in Nat
  BY <1>1, LenProperties
<1>2. Held(c) \in Seq(SharedLists) /\ Len(Held(c)) = Len(notifies[c]) + Len(wire[c])
  BY <1>1 DEF Held
<1>3. Len(Held(c)) \in Nat
  <2>1. Held(c) \in Seq(SharedLists) BY <1>2
  <2> QED BY <2>1, LenProperties
<1>4. Listening(c) => since[c] \in Nat BY DEF Listening, SyncTypes
<1>5. Taken(c) = Len(published) - Len(Held(c)) BY DEF Taken
<1>6. Taken(c) \in Int /\ Taken(c) <= Len(published) /\ Taken(c) + Len(Held(c)) = Len(published)
  BY <1>0, <1>3, <1>5
<1> QED BY <1>2, <1>3, <1>4, <1>6

LEMMA BetweenFinite ==
  ASSUME NEW c, NEW a \in Int, NEW b \in Int
  PROVE  IsFiniteSet(Between(c, a, b)) /\ Cardinality(Between(c, a, b)) \in Nat
<1>1. IsFiniteSet((a + 1)..b) BY FS_Interval
<1>2. Between(c, a, b) \in SUBSET ((a + 1)..b) BY DEF Between
<1>3. IsFiniteSet(Between(c, a, b)) BY <1>1, <1>2, FS_Subset
<1> QED BY <1>3, FS_CardinalityType

\* A sequence that ends as published does has as many of a stream's own.
LEMMA OwnOfTheEnd ==
  ASSUME NEW c, NEW a \in Nat, NEW log \in Seq(SharedLists), NEW n \in Nat,
         a + Len(log) = n, \A i \in 1..Len(log) : log[i] = published[a + i]
  PROVE  Cardinality(Own(c, log)) = Cardinality(Between(c, a, n))
<1> DEFINE f == [i \in Own(c, log) |-> a + i]
<1>1. Len(log) \in Nat OBVIOUS
<1>2. \A i \in Own(c, log) : i \in 1..Len(log) /\ a + i \in Between(c, a, n)
  BY <1>1 DEF Own, Between
<1>3. \A i, j \in Own(c, log) : a + i = a + j => i = j BY <1>1, <1>2
<1>4. ASSUME NEW m \in Between(c, a, n) PROVE \E i \in Own(c, log) : a + i = m
  <2>1. m \in (a + 1)..n /\ published[m] = ListOf[c] BY DEF Between
  <2>2. m - a \in 1..Len(log) /\ a + (m - a) = m BY <2>1, <1>1
  <2>3. log[m - a] = published[m] BY <2>2
  <2>4. m - a \in Own(c, log) BY <2>1, <2>2, <2>3 DEF Own
  <2> QED BY <2>2, <2>4
<1>5. f \in Bijection(Own(c, log), Between(c, a, n))
  <2>1. f \in [Own(c, log) -> Between(c, a, n)] BY <1>2
  <2>2. \A i, j \in Own(c, log) : f[i] = f[j] => i = j BY <1>3
  <2>3. \A m \in Between(c, a, n) : \E i \in Own(c, log) : f[i] = m BY <1>4
  <2> HIDE DEF f
  <2> QED BY <2>1, <2>2, <2>3 DEF Bijection, Injection, Surjection, IsInjective
<1>6. ExistsBijection(Own(c, log), Between(c, a, n)) BY <1>5 DEF ExistsBijection
<1>7. 1 \in Int /\ Len(log) \in Int BY <1>1
<1>10. IsFiniteSet(1..Len(log)) BY <1>7, FS_Interval
<1>8. Own(c, log) \in SUBSET (1..Len(log)) BY DEF Own
<1>9. IsFiniteSet(Own(c, log)) BY <1>8, <1>10, FS_Subset
<1> QED BY <1>6, <1>9, FS_Bijection

\* What was published since a stream connected is what it told and what it holds.
LEMMA BetweenSplits ==
  ASSUME NEW c, NEW a \in Int, NEW b \in Int, NEW n \in Int, a <= b, b <= n
  PROVE  Cardinality(Between(c, a, n)) =
           Cardinality(Between(c, a, b)) + Cardinality(Between(c, b, n))
<1>1. Between(c, a, n) = Between(c, a, b) \union Between(c, b, n) BY DEF Between
<1>2. Between(c, a, b) \cap Between(c, b, n) = {} BY DEF Between
<1>3. Cardinality(Between(c, a, b) \cap Between(c, b, n)) = 0 BY <1>2, FS_EmptySet
<1>4. /\ IsFiniteSet(Between(c, a, b)) /\ Cardinality(Between(c, a, b)) \in Nat
      /\ IsFiniteSet(Between(c, b, n)) /\ Cardinality(Between(c, b, n)) \in Nat
  BY BetweenFinite
<1>5. Cardinality(Between(c, a, b) \union Between(c, b, n)) =
        Cardinality(Between(c, a, b)) + Cardinality(Between(c, b, n))
          - Cardinality(Between(c, a, b) \cap Between(c, b, n))
  BY <1>4, FS_Union
<1> QED BY <1>1, <1>3, <1>4, <1>5

LEMMA NothingLost == SyncInv => NoEventLost
<1> SUFFICES ASSUME SyncInv, NEW c \in Streams, Listening(c)
             PROVE  told[c] + Cardinality(Own(c, Held(c))) = Cardinality(Missed(c))
  BY DEF NoEventLost, Held
<1>1. SyncTypes /\ HoldsTheRest(c) BY DEF SyncInv
<1>2. /\ Held(c) \in Seq(SharedLists) /\ Taken(c) \in Int /\ Taken(c) <= Len(published)
      /\ Taken(c) + Len(Held(c)) = Len(published) /\ since[c] \in Nat
      /\ Len(published) \in Nat
  BY <1>1, HeldSeq DEF SyncTypes
<1>3. Taken(c) \in Nat /\ since[c] <= Taken(c) BY <1>1, <1>2 DEF HoldsTheRest
<1>4. Cardinality(Own(c, Held(c))) = Cardinality(Between(c, Taken(c), Len(published)))
  BY <1>1, <1>2, <1>3, OwnOfTheEnd DEF HoldsTheRest
<1> DEFINE tail == SubSeq(published, since[c] + 1, Len(published))
<1>5. /\ tail \in Seq(SharedLists) /\ Len(tail) = Len(published) - since[c]
      /\ \A i \in 1..Len(tail) : tail[i] = published[since[c] + i]
  BY <1>1, <1>2, <1>3 DEF SyncTypes
<1> HIDE DEF tail
<1>6. since[c] + Len(tail) = Len(published) BY <1>2, <1>5
<1>7. Cardinality(Own(c, tail)) = Cardinality(Between(c, since[c], Len(published)))
  BY <1>2, <1>5, <1>6, OwnOfTheEnd
<1>8. Cardinality(Between(c, since[c], Len(published))) =
        Cardinality(Between(c, since[c], Taken(c)))
          + Cardinality(Between(c, Taken(c), Len(published)))
  BY <1>2, <1>3, BetweenSplits
<1> QED BY <1>1, <1>4, <1>7, <1>8 DEF HoldsTheRest, Missed, tail


LEMMA AppendToEnd ==
  ASSUME NEW T, NEW x \in T, NEW s \in Seq(T), NEW t \in Seq(T)
  PROVE  s \o Append(t, x) = Append(s \o t, x)
<1>1. <<x>> \in Seq(T) /\ s \o t \in Seq(T) BY ConcatProperties
<1>2. Append(t, x) = t \o <<x>> BY AppendIsConcat
<1>3. Append(s \o t, x) = (s \o t) \o <<x>> BY <1>1, AppendIsConcat
<1> QED BY <1>1, <1>2, <1>3, ConcatAssociative

\* A stream whose notifications are what they were, whatever else is published.
LEMMA SameStream ==
  ASSUME SyncInv, SyncTypes', NEW c \in Streams,
         since'[c] = since[c], told'[c] = told[c],
         notifies'[c] = notifies[c], wire'[c] = wire[c], published' = published
  PROVE  IF Listening(c)' THEN HoldsTheRest(c)' ELSE wire'[c] = <<>> /\ notifies'[c] = <<>>
<1>1. Held(c)' = Held(c) BY DEF Held
<1>2. Taken(c)' = Taken(c) BY <1>1 DEF Taken
<1>3. Listening(c)' <=> Listening(c) BY DEF Listening
<1>4. Between(c, since[c], Taken(c))' = Between(c, since[c], Taken(c))
  BY <1>2 DEF Between
<1>5. Listening(c) => HoldsTheRest(c)' BY <1>1, <1>2, <1>4 DEF SyncInv, HoldsTheRest
<1> QED BY <1>3, <1>5 DEF SyncInv

LEMMA SyncInvInit == SyncInit => SyncInv
<1> SUFFICES ASSUME SyncInit PROVE SyncInv OBVIOUS
<1>1. SyncTypes BY DEF SyncInit, SyncTypes, Off
<1>2. \A c \in Streams : ~Listening(c) BY DEF SyncInit, Listening
<1> QED BY <1>1, <1>2 DEF SyncInv, SyncInit

\* A notification is appended to what every open connection holds.
LEMMA PublishKeeps ==
  ASSUME SyncInv, NEW l \in SharedLists, PublishListSyncEvent(l)
  PROVE  SyncInv'
<1>0. SyncTypes BY DEF SyncInv
<1>1. /\ published' = Append(published, l)
      /\ \A c \in Streams : wire'[c] = IF Listening(c) THEN Append(wire[c], l) ELSE wire[c]
      /\ wire' = [c \in Streams |-> IF Listening(c) THEN Append(wire[c], l) ELSE wire[c]]
      /\ since' = since /\ notifies' = notifies /\ told' = told
  BY DEF PublishListSyncEvent
<1>2. SyncTypes'
  <2>1. published' \in Seq(SharedLists) BY <1>0, <1>1 DEF SyncTypes
  <2>2. \A c \in Streams : Append(wire[c], l) \in Seq(SharedLists) BY <1>0 DEF SyncTypes
  <2>3. wire' \in [Streams -> Seq(SharedLists)] BY <1>0, <1>1, <2>2 DEF SyncTypes
  <2> QED BY <1>0, <1>1, <2>1, <2>3 DEF SyncTypes
<1>3. \A c \in Streams : Listening(c)' <=> Listening(c) BY <1>1 DEF Listening
<1>4. published \in Seq(SharedLists) /\ Len(published) \in Nat BY <1>0, LenProperties DEF SyncTypes
<1>5. Len(published') = Len(published) + 1 /\ published'[Len(published) + 1] = l
      /\ \A i \in 1..Len(published) : published'[i] = published[i]
  BY <1>1, <1>4
<1>6. ASSUME NEW c \in Streams, Listening(c) PROVE HoldsTheRest(c)'
  <2>1. HoldsTheRest(c) BY <1>6 DEF SyncInv
  <2>2. /\ Held(c) \in Seq(SharedLists) /\ Len(Held(c)) \in Nat /\ Taken(c) \in Int
        /\ Taken(c) + Len(Held(c)) = Len(published) /\ since[c] \in Nat
    BY <1>0, <1>6, HeldSeq
  <2>3. notifies[c] \in Seq(SharedLists) /\ wire[c] \in Seq(SharedLists)
    BY <1>0 DEF SyncTypes
  <2>4. notifies[c] \o Append(wire[c], l) = Append(notifies[c] \o wire[c], l)
    <3> DEFINE n == notifies[c]
               w == wire[c]
    <3>1. n \in Seq(SharedLists) /\ w \in Seq(SharedLists) BY <2>3
    <3> HIDE DEF n, w
    <3>2. n \o Append(w, l) = Append(n \o w, l) BY <3>1, AppendToEnd
    <3> QED BY <3>2 DEF n, w
  <2>5. Held(c)' = Append(Held(c), l)
    BY <1>1, <1>6, <2>4 DEF Held
  <2> DEFINE h == Held(c)
             k == Append(h, l)
  <2>6. /\ Len(k) = Len(h) + 1 /\ k[Len(h) + 1] = l
        /\ \A i \in 1..Len(h) : k[i] = h[i]
    BY <2>2
  <2>7. Held(c)' = k BY <2>5
  <2> HIDE DEF h, k
  <2>8. Taken(c)' = Len(published') - Len(k) BY <2>7 DEF Taken
  <2>9. Taken(c)' = Taken(c) BY <1>5, <2>2, <2>6, <2>8 DEF h
  <2>10. Taken(c) \in Nat /\ since[c] <= Taken(c) BY <2>1, <2>2 DEF HoldsTheRest
  <2>11. ASSUME NEW i \in 1..Len(k) PROVE k[i] = published'[Taken(c) + i]
    <3>1. CASE i \in 1..Len(h)
      <4>1. k[i] = published[Taken(c) + i] BY <2>1, <2>6, <3>1 DEF HoldsTheRest, h
      <4>2. Taken(c) + i \in 1..Len(published) BY <2>2, <2>10, <3>1 DEF h
      <4> QED BY <1>5, <4>1, <4>2
    <3>2. CASE i = Len(h) + 1
      <4>1. Taken(c) + i = Len(published) + 1 BY <2>2, <2>10, <3>2 DEF h
      <4> QED BY <1>5, <2>6, <3>2, <4>1
    <3>3. i \in 1..Len(h) \/ i = Len(h) + 1 BY <2>2, <2>6 DEF h
    <3> QED BY <3>1, <3>2, <3>3
  <2>12. {i \in (since[c] + 1)..Taken(c) : published'[i] = ListOf[c]} =
           {i \in (since[c] + 1)..Taken(c) : published[i] = ListOf[c]}
    <3>1. \A i \in (since[c] + 1)..Taken(c) : i \in 1..Len(published)
      BY <1>4, <2>2, <2>10
    <3> QED BY <1>5, <3>1
  <2>13. Between(c, since[c], Taken(c))' = Between(c, since[c], Taken(c))
    BY <1>1, <2>9, <2>12 DEF Between
  <2> QED BY <1>1, <2>1, <2>7, <2>9, <2>10, <2>11, <2>13 DEF HoldsTheRest
<1>7. ASSUME NEW c \in Streams, ~Listening(c) PROVE wire'[c] = <<>> /\ notifies'[c] = <<>>
  BY <1>1, <1>7 DEF SyncInv
<1> QED BY <1>2, <1>3, <1>6, <1>7 DEF SyncInv

\* A stream that connects begins with what is published from then on.
LEMMA ConnectKeeps ==
  ASSUME SyncInv, NEW d \in Streams, ConnectListener(d)
  PROVE  SyncInv'
<1>0. SyncTypes BY DEF SyncInv
<1>1. /\ ~Listening(d) /\ since' = [since EXCEPT ![d] = Len(published)]
      /\ told' = [told EXCEPT ![d] = 0]
      /\ published' = published /\ wire' = wire /\ notifies' = notifies
  BY DEF ConnectListener
<1>2. published \in Seq(SharedLists) /\ Len(published) \in Nat BY <1>0, LenProperties DEF SyncTypes
<1>3. /\ since' \in [Streams -> Nat \union {Off}] /\ told' \in [Streams -> Nat]
      /\ since'[d] = Len(published) /\ told'[d] = 0
      /\ \A c \in Streams : c # d => since'[c] = since[c] /\ told'[c] = told[c]
  BY <1>0, <1>1, <1>2 DEF SyncTypes
<1>4. SyncTypes' BY <1>0, <1>1, <1>3 DEF SyncTypes
<1>5. HoldsTheRest(d)'
  <2>1. wire[d] = <<>> /\ notifies[d] = <<>> BY <1>1 DEF SyncInv
  <2>2. Held(d)' = <<>> BY <1>1, <2>1 DEF Held
  <2>3. Taken(d)' = Len(published) BY <1>1, <1>2, <2>2 DEF Taken
  <2>4. {i \in (Len(published) + 1)..Len(published) : published[i] = ListOf[d]} = {}
    BY <1>2
  <2>5. Between(d, since[d], Taken(d))' = {} BY <1>1, <1>3, <2>3, <2>4 DEF Between
  <2> QED BY <1>2, <1>3, <2>2, <2>3, <2>5, FS_EmptySet DEF HoldsTheRest
<1>6. Listening(d)' BY <1>2, <1>3 DEF Listening, Off
<1>7. ASSUME NEW c \in Streams, c # d
      PROVE  IF Listening(c)' THEN HoldsTheRest(c)' ELSE wire'[c] = <<>> /\ notifies'[c] = <<>>
  BY <1>1, <1>3, <1>4, <1>7, SameStream
<1> QED BY <1>4, <1>5, <1>6, <1>7 DEF SyncInv

LEMMA DisconnectKeeps ==
  ASSUME SyncInv, NEW d \in Streams, Disconnect(d)
  PROVE  SyncInv'
<1>0. SyncTypes BY DEF SyncInv
<1>1. /\ since' = [since EXCEPT ![d] = Off] /\ told' = [told EXCEPT ![d] = 0]
      /\ wire' = [wire EXCEPT ![d] = <<>>] /\ notifies' = [notifies EXCEPT ![d] = <<>>]
      /\ published' = published
  BY DEF Disconnect
<1>2. /\ since'[d] = Off /\ wire'[d] = <<>> /\ notifies'[d] = <<>>
      /\ \A c \in Streams : c # d => since'[c] = since[c] /\ told'[c] = told[c]
                                     /\ wire'[c] = wire[c] /\ notifies'[c] = notifies[c]
  BY <1>0, <1>1 DEF SyncTypes
<1>3. SyncTypes' BY <1>0, <1>1 DEF SyncTypes
<1>4. ~Listening(d)' BY <1>2 DEF Listening, Off
<1>5. ASSUME NEW c \in Streams, c # d
      PROVE  IF Listening(c)' THEN HoldsTheRest(c)' ELSE wire'[c] = <<>> /\ notifies'[c] = <<>>
  BY <1>1, <1>2, <1>3, <1>5, SameStream
<1> QED BY <1>2, <1>3, <1>4, <1>5 DEF SyncInv

\* The first of what has arrived is taken, and counted if it is the stream's own.
LEMMA WaitKeeps ==
  ASSUME SyncInv, NEW d \in Streams, WaitForListSyncEvent(d)
  PROVE  SyncInv'
<1>0. SyncTypes BY DEF SyncInv
<1> DEFINE h == Held(d)
<1>1. /\ Listening(d) /\ wire[d] # <<>>
      /\ notifies' = [notifies EXCEPT ![d] = Tail(h)] /\ wire' = [wire EXCEPT ![d] = <<>>]
      /\ told' = [told EXCEPT ![d] = IF Head(h) = ListOf[d] THEN told[d] + 1 ELSE told[d]]
      /\ since' = since /\ published' = published
  BY DEF WaitForListSyncEvent, Readable, Held
<1>2. /\ h \in Seq(SharedLists) /\ Len(h) \in Nat /\ Taken(d) \in Int
      /\ Taken(d) + Len(h) = Len(published) /\ since[d] \in Nat
  BY <1>0, <1>1, HeldSeq
<1>3. Len(h) >= 1
  <2>1. notifies[d] \in Seq(SharedLists) /\ wire[d] \in Seq(SharedLists) BY <1>0 DEF SyncTypes
  <2>2. Held(d) # <<>> BY <1>1, <2>1, ConcatEqualIffEmpty DEF Held
  <2>3. Held(d) \in Seq(SharedLists) BY <1>0, HeldSeq
  <2> QED BY <1>2, <2>2, <2>3, EmptySeq
<1>4. HoldsTheRest(d) /\ published \in Seq(SharedLists) /\ Len(published) \in Nat
  BY <1>0, <1>1, LenProperties DEF SyncInv, SyncTypes
<1>5. Taken(d) \in Nat /\ since[d] <= Taken(d) BY <1>2, <1>4 DEF HoldsTheRest
<1>6. \A i \in 1..Len(h) : h[i] = published[Taken(d) + i] BY <1>4 DEF HoldsTheRest
<1>7. told[d] = Cardinality(Between(d, since[d], Taken(d))) BY <1>4 DEF HoldsTheRest
<1> HIDE DEF h
<1> DEFINE t == Tail(h)
<1>8. /\ Head(h) = h[1] /\ t \in Seq(SharedLists) /\ Len(t) = Len(h) - 1
      /\ \A i \in 1..Len(h) - 1 : t[i] = h[i + 1]
  BY <1>2, <1>3
<1>9. t \o <<>> = t BY <1>8
<1> HIDE DEF t
<1>10. /\ notifies'[d] = t /\ wire'[d] = <<>>
       /\ told'[d] = IF Head(h) = ListOf[d] THEN told[d] + 1 ELSE told[d]
       /\ told' \in [Streams -> Nat] /\ notifies' \in [Streams -> Seq(SharedLists)]
       /\ wire' \in [Streams -> Seq(SharedLists)]
       /\ \A c \in Streams : c # d => told'[c] = told[c] /\ wire'[c] = wire[c]
                                      /\ notifies'[c] = notifies[c]
  BY <1>0, <1>1, <1>8 DEF SyncTypes, t
<1>11. SyncTypes' BY <1>0, <1>1, <1>10 DEF SyncTypes
<1>12. Held(d)' = t BY <1>9, <1>10 DEF Held
<1>13. Taken(d)' = Taken(d) + 1
  <2>1. Taken(d)' = Len(published) - Len(t) BY <1>1, <1>12 DEF Taken
  <2> QED BY <1>2, <1>4, <1>8, <2>1
<1>14. ASSUME NEW i \in 1..Len(t) PROVE t[i] = published[Taken(d) + 1 + i]
  <2>1. i \in 1..Len(h) - 1 /\ i + 1 \in 1..Len(h) BY <1>2, <1>8
  <2>2. t[i] = h[i + 1] /\ h[i + 1] = published[Taken(d) + (i + 1)] BY <1>6, <1>8, <2>1
  <2>3. Taken(d) + (i + 1) = Taken(d) + 1 + i BY <1>2, <2>1
  <2> QED BY <2>2, <2>3
<1>15. Head(h) = published[Taken(d) + 1]
  <2>1. 1 \in 1..Len(h) BY <1>2, <1>3
  <2> QED BY <1>6, <1>8, <2>1
<1> DEFINE old == Between(d, since[d], Taken(d))
           now == Between(d, since[d], Taken(d) + 1)
<1>16. IsFiniteSet(old) /\ Cardinality(old) \in Nat BY <1>2, BetweenFinite
<1>17. now = IF Head(h) = ListOf[d] THEN old \union {Taken(d) + 1} ELSE old
  BY <1>2, <1>5, <1>15 DEF Between
<1>18. Taken(d) + 1 \notin old BY <1>2, <1>5 DEF Between
<1>19. Between(d, since[d], Taken(d))' = now BY <1>1, <1>13 DEF Between
<1> HIDE DEF old, now
<1>20. Cardinality(old \union {Taken(d) + 1}) = Cardinality(old) + 1
  BY <1>16, <1>18, FS_AddElement
<1>21. told'[d] = Cardinality(now) BY <1>7, <1>10, <1>17, <1>20 DEF old
<1>22. HoldsTheRest(d)'
  <2>1. since'[d] <= Taken(d)' BY <1>1, <1>2, <1>5, <1>13
  <2>2. \A i \in 1..Len(Held(d)') : Held(d)'[i] = published'[Taken(d)' + i]
    BY <1>1, <1>12, <1>13, <1>14
  <2>3. told'[d] = Cardinality(Between(d, since[d], Taken(d))') BY <1>19, <1>21
  <2> QED BY <2>1, <2>2, <2>3 DEF HoldsTheRest
<1>23. Listening(d)' BY <1>1 DEF Listening
<1>24. ASSUME NEW c \in Streams, c # d
       PROVE  IF Listening(c)' THEN HoldsTheRest(c)' ELSE wire'[c] = <<>> /\ notifies'[c] = <<>>
  BY <1>1, <1>10, <1>11, <1>24, SameStream
<1> QED BY <1>11, <1>22, <1>23, <1>24 DEF SyncInv

\* SyncInv is an invariant.
LEMMA SyncInvariant == SyncSpec => []SyncInv
<1>1. ASSUME SyncInv, [SyncNext]_syncVars PROVE SyncInv'
  <2>1. ASSUME NEW l \in SharedLists, PublishListSyncEvent(l) PROVE SyncInv'
    BY <1>1, <2>1, PublishKeeps
  <2>2. ASSUME NEW c \in Streams, ConnectListener(c) \/ WaitForListSyncEvent(c) \/ Disconnect(c)
        PROVE  SyncInv'
    BY <1>1, <2>2, ConnectKeeps, WaitKeeps, DisconnectKeeps
  <2>3. ASSUME \/ \E l \in SharedLists : Change(l) \/ HandlerStops(l)
               \/ UNCHANGED syncVars
        PROVE  SyncInv'
    <3>1. UNCHANGED <<published, since, wire, notifies, told>>
      BY <2>3 DEF Change, HandlerStops, syncVars
    <3>2. SyncTypes' BY <1>1, <3>1 DEF SyncInv, SyncTypes
    <3> QED BY <1>1, <3>1, <3>2, SameStream DEF SyncInv
  <2> QED BY <1>1, <2>1, <2>2, <2>3 DEF SyncNext
<1> QED BY SyncInvInit, <1>1, PTL DEF SyncSpec

\* However streams are polled, none of the events of their list is lost, sent
\* twice or sent to another list's members, as long as they stay connected.
THEOREM StreamsLoseNothing == SyncSpec => []NoEventLost
BY SyncInvariant, NothingLost, PTL

(* ------------------------------ history of purchases ------------------------ *)
-----------------------------------------------------------------------------
(* The history: purchases are ordered by their time and, at one time, by    *)
(* their id.                                                                *)

LEMMA NewerOrders ==
  ASSUME NEW p \in Purchases, NEW q \in Purchases
  PROVE  /\ ~Newer(p, p)
         /\ p # q => Newer(p, q) \/ Newer(q, p)
         /\ ~(Newer(p, q) /\ Newer(q, p))
         /\ \A r \in Purchases : Newer(p, q) /\ Newer(q, r) => Newer(p, r)
<1>1. ASSUME NEW r \in Purchases PROVE r[1] \in Int /\ r[2] \in Int /\ r = <<r[1], r[2]>>
  <2>1. PICK t \in Times, i \in Ids : r = <<t, i>> BY DEF Purchases
  <2>2. r[1] = t /\ r[2] = i BY <2>1
  <2> QED BY <2>1, <2>2, HistoryAssumption
<1>2. /\ p[1] \in Int /\ p[2] \in Int /\ p = <<p[1], p[2]>>
      /\ q[1] \in Int /\ q[2] \in Int /\ q = <<q[1], q[2]>>
  BY <1>1
<1>3. p # q => p[1] # q[1] \/ p[2] # q[2] BY <1>2
<1>4. p # q => Newer(p, q) \/ Newer(q, p) BY <1>2, <1>3 DEF Newer
<1>5. ~Newer(p, p) /\ ~(Newer(p, q) /\ Newer(q, p)) BY <1>2 DEF Newer
<1>6. ASSUME NEW r \in Purchases, Newer(p, q), Newer(q, r) PROVE Newer(p, r)
  <2>1. r[1] \in Int /\ r[2] \in Int BY <1>1
  <2> QED BY <1>2, <1>6, <2>1 DEF Newer
<1> QED BY <1>4, <1>5, <1>6

LEMMA LeastNumber ==
  ASSUME NEW F, F \subseteq Nat, F # {}
  PROVE  \E m \in F : \A n \in F : m <= n
<1> DEFINE R == OpToRel(<, Nat)
<1>1. IsWellFoundedOn(R, Nat) BY NatLessThanWellFounded
<1>2. \A m, n \in Nat : m < n => <<m, n>> \in R BY DEF OpToRel
<1> HIDE DEF R
<1>3. PICK m \in F : \A n \in F : ~(<<n, m>> \in R) BY <1>1, WFMin
<1>4. ASSUME NEW n \in F PROVE m <= n
  <2>1. m \in Nat /\ n \in Nat OBVIOUS
  <2>2. ~(n < m) BY <1>2, <1>3, <2>1
  <2> QED BY <2>1, <2>2
<1> QED BY <1>4

\* How many purchases of a set are newer than p.
Rank(set, p) == Cardinality({q \in set : Newer(q, p)})

LEMMA RankOrders ==
  ASSUME NEW set, IsFiniteSet(set), set \subseteq Purchases,
         NEW p \in Purchases, NEW r \in set
  PROVE  /\ Rank(set, p) \in Nat
         /\ Newer(r, p) => Rank(set, r) < Rank(set, p)
<1> DEFINE N(x) == {q \in set : Newer(q, x)}
<1>1. ASSUME NEW x PROVE IsFiniteSet(N(x)) /\ Cardinality(N(x)) \in Nat
  <2>1. N(x) \in SUBSET set OBVIOUS
  <2> QED BY <2>1, FS_Subset, FS_CardinalityType
<1>2. ASSUME Newer(r, p) PROVE Cardinality(N(r)) < Cardinality(N(p))
  <2>1. N(r) \in SUBSET N(p)
    <3> SUFFICES ASSUME NEW q \in set, Newer(q, r) PROVE Newer(q, p)
      OBVIOUS
    <3> QED BY <1>2, NewerOrders
  <2>2. r \in N(p) /\ r \notin N(r) BY <1>2, NewerOrders
  <2>3. N(r) # N(p) BY <2>2
  <2>4. IsFiniteSet(N(p)) /\ Cardinality(N(r)) \in Nat /\ Cardinality(N(p)) \in Nat BY <1>1
  <2> HIDE DEF N
  <2>5. Cardinality(N(r)) <= Cardinality(N(p)) /\ Cardinality(N(r)) # Cardinality(N(p))
    BY <2>1, <2>3, <2>4, FS_Subset
  <2> QED BY <2>4, <2>5
<1> QED BY <1>1, <1>2 DEF Rank

\* There is a newest purchase, and an oldest one.
LEMMA NewestExists ==
  ASSUME NEW set, IsFiniteSet(set), set \subseteq Purchases, set # {}
  PROVE  \E p \in set : \A q \in set : ~Newer(q, p)
<1> DEFINE F == {Rank(set, p) : p \in set}
<1>1. F \subseteq Nat /\ F # {} BY RankOrders
<1>2. PICK m \in F : \A n \in F : m <= n BY <1>1, LeastNumber
<1>3. PICK p \in set : m = Rank(set, p) OBVIOUS
<1>4. ASSUME NEW q \in set, Newer(q, p) PROVE FALSE
  <2>1. Rank(set, q) < Rank(set, p) BY <1>4, RankOrders
  <2>2. Rank(set, p) <= Rank(set, q) BY <1>2, <1>3
  <2>3. Rank(set, p) \in Nat /\ Rank(set, q) \in Nat BY RankOrders
  <2> QED BY <2>1, <2>2, <2>3
<1> QED BY <1>4

LEMMA OldestIsOldest ==
  ASSUME NEW set, IsFiniteSet(set), set \subseteq Purchases, set # {}
  PROVE  Oldest(set) \in set /\ \A q \in set : q # Oldest(set) => Newer(q, Oldest(set))
<1> DEFINE Older(p) == {q \in set : Newer(p, q)}
           F == {Cardinality(Older(p)) : p \in set}
<1>1. ASSUME NEW p \in set PROVE IsFiniteSet(Older(p)) /\ Cardinality(Older(p)) \in Nat
  <2>1. Older(p) \in SUBSET set OBVIOUS
  <2> QED BY <2>1, FS_Subset, FS_CardinalityType
<1>2. F \subseteq Nat /\ F # {} BY <1>1
<1>3. PICK m \in F : \A n \in F : m <= n BY <1>2, LeastNumber
<1>4. PICK p \in set : m = Cardinality(Older(p)) OBVIOUS
<1>5. ASSUME NEW q \in set, q # p PROVE Newer(q, p)
  <2> SUFFICES ASSUME Newer(p, q) PROVE FALSE
    BY <1>5, NewerOrders
  <2>1. Older(q) \in SUBSET Older(p) BY NewerOrders
  <2>2. q \in Older(p) /\ q \notin Older(q) BY NewerOrders
  <2>3. Older(q) # Older(p) BY <2>2
  <2>4. Cardinality(Older(p)) <= Cardinality(Older(q)) BY <1>3, <1>4
  <2>5. IsFiniteSet(Older(p)) /\ Cardinality(Older(p)) \in Nat /\ Cardinality(Older(q)) \in Nat
    BY <1>1
  <2> HIDE DEF Older
  <2>6. Cardinality(Older(q)) <= Cardinality(Older(p))
        /\ Cardinality(Older(q)) # Cardinality(Older(p))
    BY <2>1, <2>3, <2>5, FS_Subset
  <2> QED BY <2>4, <2>5, <2>6
<1>6. \E o \in set : \A q \in set : q # o => Newer(q, o) BY <1>5
<1> QED BY <1>6 DEF Oldest

\* What a page takes of a set is newer than what it leaves.
LEMMA NewestFirst ==
  ASSUME NEW set, IsFiniteSet(set), set \subseteq Purchases, NEW n \in Nat,
         NEW q \in Newest(set, n), NEW p \in set, p \notin Newest(set, n)
  PROVE  Newer(q, p)
<1>1. q \in set /\ Rank(set, q) < n /\ ~(Rank(set, p) < n) BY DEF Newest, Rank
<1>2. Rank(set, q) \in Nat /\ Rank(set, p) \in Nat BY <1>1, RankOrders
<1>3. ~(Rank(set, p) < Rank(set, q)) BY <1>1, <1>2
<1>4. ~Newer(p, q) BY <1>1, <1>3, RankOrders
<1>5. p # q OBVIOUS
<1> QED BY <1>1, <1>4, <1>5, NewerOrders

\* It leaves something only when it is full.
LEMMA NewestFills ==
  ASSUME NEW set, IsFiniteSet(set), set \subseteq Purchases, NEW n \in Nat,
         set # Newest(set, n)
  PROVE  Cardinality(Newest(set, n)) >= n
<1> DEFINE taken == Newest(set, n)
<1>1. taken \in SUBSET set BY DEF Newest
<1>2. IsFiniteSet(taken) /\ Cardinality(taken) \in Nat BY <1>1, FS_Subset, FS_CardinalityType
<1>3. IsFiniteSet(set \ taken) /\ set \ taken # {} BY <1>1, FS_Difference
<1>4. PICK p \in set \ taken : \A q \in set \ taken : ~Newer(q, p)
  BY <1>3, NewestExists
<1>5. ~(Rank(set, p) < n) /\ Rank(set, p) \in Nat
  <2>1. ~(Rank(set, p) < n) BY <1>4 DEF Newest, Rank
  <2> QED BY <2>1, <1>4, RankOrders
<1>6. {q \in set : Newer(q, p)} \in SUBSET taken BY <1>4
<1>7. Rank(set, p) <= Cardinality(taken) BY <1>2, <1>6, FS_Subset DEF Rank
<1> QED BY <1>2, <1>5, <1>7

\* A page is the beginning of what there is, its last purchase is the cursor of
\* the next one, and when there is no next one it is all there is.
LEMMA PageOf ==
  ASSUME NEW set, IsFiniteSet(set), set \subseteq Purchases,
         NEW rows, rows = Newest(set, Limit + 1), NEW pg, pg = Newest(rows, Limit)
  PROVE  /\ pg \subseteq set /\ Cardinality(rows) \in Nat
         /\ Cardinality(rows) > Limit =>
              /\ Oldest(pg) \in pg
              /\ \A p \in pg : p = Oldest(pg) \/ Newer(p, Oldest(pg))
              /\ \A p \in set : p \notin pg => Newer(Oldest(pg), p)
         /\ ~(Cardinality(rows) > Limit) => pg = set
<1>1. Limit \in Nat /\ Limit > 0 /\ Limit + 1 \in Nat BY HistoryAssumption
<1>2. rows \in SUBSET set /\ pg \in SUBSET rows BY DEF Newest
<1>3. /\ IsFiniteSet(rows) /\ Cardinality(rows) \in Nat
      /\ IsFiniteSet(pg) /\ Cardinality(pg) \in Nat
  BY <1>2, FS_Subset, FS_CardinalityType
<1>4. ASSUME Cardinality(rows) > Limit
      PROVE  /\ Oldest(pg) \in pg
             /\ \A p \in pg : p = Oldest(pg) \/ Newer(p, Oldest(pg))
             /\ \A p \in set : p \notin pg => Newer(Oldest(pg), p)
  <2>1. rows # {}
    <3>1. Cardinality(rows) # 0 BY <1>1, <1>3, <1>4
    <3> QED BY <3>1, FS_EmptySet
  <2>2. PICK p \in rows : \A q \in rows : ~Newer(q, p) BY <1>2, <1>3, <2>1, NewestExists
  <2>3. {q \in rows : Newer(q, p)} = {} BY <2>2
  <2>4. Cardinality({q \in rows : Newer(q, p)}) = 0 BY <2>3, FS_EmptySet
  <2>5. p \in pg BY <1>1, <2>2, <2>4 DEF Newest
  <2>6. Oldest(pg) \in pg /\ \A q \in pg : q # Oldest(pg) => Newer(q, Oldest(pg))
    BY <1>2, <1>3, <2>5, OldestIsOldest
  <2>7. ASSUME NEW q \in set, q \notin pg PROVE Newer(Oldest(pg), q)
    <3>1. CASE q \in rows BY <1>1, <1>2, <1>3, <2>6, <2>7, <3>1, NewestFirst
    <3>2. CASE q \notin rows
      <4>1. Oldest(pg) \in Newest(set, Limit + 1) /\ q \notin Newest(set, Limit + 1)
        BY <1>2, <2>6, <3>2
      <4> QED BY <1>1, <4>1, <2>7, NewestFirst
    <3> QED BY <3>1, <3>2
  <2> QED BY <2>6, <2>7
<1>5. ASSUME ~(Cardinality(rows) > Limit) PROVE pg = set
  <2>1. ASSUME rows # set PROVE FALSE
    <3>1. Cardinality(rows) >= Limit + 1 BY <1>1, <2>1, NewestFills
    <3> QED BY <1>1, <1>3, <1>5, <3>1
  <2>2. ASSUME pg # rows PROVE FALSE
    <3>1. Cardinality(pg) >= Limit BY <1>1, <1>2, <1>3, <2>2, NewestFills
    <3>2. Cardinality(pg) <= Cardinality(rows) /\ Cardinality(pg) # Cardinality(rows)
      BY <1>2, <1>3, <2>2, FS_Subset
    <3> QED BY <1>1, <1>3, <1>5, <3>1, <3>2
  <2> QED BY <2>1, <2>2
<1> QED BY <1>2, <1>3, <1>4, <1>5


\* What the reader has got goes down to the cursor, and nothing that lasts was
\* passed over; without a cursor everything that lasts was there.
ReadToCursor ==
  /\ cursor \in Purchases
  /\ \A p \in page \union seen : p = cursor \/ Newer(p, cursor)
  /\ \A p \in lasting : p \notin page \union seen => Newer(cursor, p)

HistoryInv ==
  /\ purchases \subseteq Purchases /\ IsFiniteSet(purchases) /\ cutoff \in Nat
  /\ page \subseteq Purchases /\ seen \subseteq Purchases
  /\ lasting \subseteq Current
  /\ page \cap seen = {}
  /\ more = TRUE => ReadToCursor
  /\ more = FALSE => lasting \subseteq page \union seen

LEMMA HistoryInvInit == HistoryInit => HistoryInv
<1> SUFFICES ASSUME HistoryInit PROVE HistoryInv OBVIOUS
<1>1. /\ purchases = {} /\ cutoff = 1 /\ page = {} /\ seen = {} /\ lasting = {} /\ more = Nil
  BY DEF HistoryInit
<1>2. more # TRUE /\ more # FALSE BY <1>1, HistoryAssumption
<1> QED BY <1>1, <1>2, FS_EmptySet DEF HistoryInv

\* Purchases that come, go or leave the period disturb no reader: fewer last.
LEMMA ChangesKeep ==
  ASSUME HistoryInv, purchases' \subseteq Purchases, IsFiniteSet(purchases'), cutoff' \in Nat,
         lasting' \subseteq Current', lasting' \subseteq lasting,
         UNCHANGED <<cursor, page, seen, more>>
  PROVE  HistoryInv'
<1>1. ReadToCursor => ReadToCursor' BY DEF ReadToCursor
<1> QED BY <1>1 DEF HistoryInv

LEMMA PurchaseItemKeeps ==
  ASSUME HistoryInv, NEW p \in Purchases, PurchaseItem(p)
  PROVE  HistoryInv'
<1>1. /\ purchases' = purchases \union {p}
      /\ UNCHANGED <<cutoff, cursor, page, seen, lasting, more>>
  BY DEF PurchaseItem
<1>2. IsFiniteSet(purchases') BY <1>1, FS_AddElement DEF HistoryInv
<1>3. lasting' \subseteq Current' BY <1>1 DEF HistoryInv, Current
<1> QED BY <1>1, <1>2, <1>3, ChangesKeep DEF HistoryInv

LEMMA UndoPurchaseKeeps ==
  ASSUME HistoryInv, NEW p \in Purchases, UndoPurchase(p)
  PROVE  HistoryInv'
<1>1. /\ purchases' = purchases \ {p} /\ lasting' = lasting \ {p}
      /\ UNCHANGED <<cutoff, cursor, page, seen, more>>
  BY DEF UndoPurchase
<1>2. IsFiniteSet(purchases') BY <1>1, FS_RemoveElement DEF HistoryInv
<1>3. lasting' \subseteq Current' BY <1>1 DEF HistoryInv, Current
<1> QED BY <1>1, <1>2, <1>3, ChangesKeep DEF HistoryInv

LEMMA TimePassesKeeps ==
  ASSUME HistoryInv, TimePasses
  PROVE  HistoryInv'
<1>1. /\ cutoff' = cutoff + 1 /\ lasting' = {p \in lasting : p[1] >= cutoff + 1}
      /\ UNCHANGED <<purchases, cursor, page, seen, more>>
  BY DEF TimePasses
<1>2. cutoff' \in Nat BY <1>1 DEF HistoryInv
<1>3. lasting' \subseteq Current' BY <1>1 DEF HistoryInv, Current
<1> QED BY <1>1, <1>2, <1>3, ChangesKeep DEF HistoryInv

\* The first page, or one that begins below the cursor.
LEMMA FirstPageKeeps ==
  ASSUME HistoryInv, FirstPage
  PROVE  HistoryInv'
<1> DEFINE rows == Newest(Current, Limit + 1)
<1>1. /\ page' = Newest(rows, Limit) /\ more' = (Cardinality(rows) > Limit)
      /\ cursor' = IF Cardinality(rows) > Limit THEN Oldest(Newest(rows, Limit)) ELSE Nil
      /\ seen' = {} /\ lasting' = Current /\ UNCHANGED <<purchases, erased, cutoff>>
  BY DEF FirstPage, GetHistory, ApplyHistoryCursor, Below
<1>2. Current \in SUBSET purchases /\ IsFiniteSet(purchases) /\ purchases \subseteq Purchases
  BY DEF Current, HistoryInv
<1>3. IsFiniteSet(Current) /\ Current \subseteq Purchases BY <1>2, FS_Subset
<1> HIDE DEF rows
<1>4. /\ page' \subseteq Current
      /\ Cardinality(rows) > Limit =>
           /\ Oldest(page') \in page'
           /\ \A p \in page' : p = Oldest(page') \/ Newer(p, Oldest(page'))
           /\ \A p \in Current : p \notin page' => Newer(Oldest(page'), p)
      /\ ~(Cardinality(rows) > Limit) => page' = Current
  BY <1>1, <1>3, PageOf DEF rows
<1>5. Current' = Current BY <1>1 DEF Current
<1>6. CASE Cardinality(rows) > Limit
  <2>1. more' = TRUE /\ cursor' = Oldest(page') BY <1>1, <1>6
  <2>2. ReadToCursor' BY <1>1, <1>3, <1>4, <1>6, <2>1 DEF ReadToCursor
  <2> QED BY <1>1, <1>2, <1>3, <1>4, <1>5, <2>1, <2>2 DEF HistoryInv
<1>7. CASE ~(Cardinality(rows) > Limit)
  <2>1. more' # TRUE
    <3>1. more' = (Cardinality(rows) > Limit) BY <1>1
    <3> QED BY <1>7, <3>1
  <2>2. page' = Current BY <1>4, <1>7
  <2> QED BY <1>1, <1>2, <1>3, <1>5, <2>1, <2>2 DEF HistoryInv
<1> QED BY <1>6, <1>7

LEMMA NextPageKeeps ==
  ASSUME HistoryInv, NextPage
  PROVE  HistoryInv'
<1>1. more = TRUE /\ ReadToCursor BY DEF NextPage, HistoryInv
<1> DEFINE below == {p \in Current : Newer(cursor, p)}
           rows == Newest(below, Limit + 1)
<1>2. ApplyHistoryCursor(cursor) = below
  BY <1>1, HistoryAssumption DEF ApplyHistoryCursor, Below, ReadToCursor, Purchases
<1>3. /\ page' = Newest(rows, Limit) /\ more' = (Cardinality(rows) > Limit)
      /\ cursor' = IF Cardinality(rows) > Limit THEN Oldest(Newest(rows, Limit)) ELSE Nil
      /\ seen' = seen \union page /\ UNCHANGED <<purchases, erased, cutoff, lasting>>
  BY <1>2 DEF NextPage, GetHistory
<1>4. below \in SUBSET purchases /\ IsFiniteSet(purchases) /\ purchases \subseteq Purchases
  BY DEF Current, HistoryInv
<1>5. IsFiniteSet(below) /\ below \subseteq Purchases BY <1>4, FS_Subset
<1>6. Current' = Current BY <1>3 DEF Current
<1>7. \A p \in below : p \in Current /\ Newer(cursor, p) OBVIOUS
<1>8. \A p \in Current : Newer(cursor, p) => p \in below OBVIOUS
<1> HIDE DEF below, rows
<1>9. /\ page' \subseteq below
      /\ Cardinality(rows) > Limit =>
           /\ Oldest(page') \in page'
           /\ \A p \in page' : p = Oldest(page') \/ Newer(p, Oldest(page'))
           /\ \A p \in below : p \notin page' => Newer(Oldest(page'), p)
      /\ ~(Cardinality(rows) > Limit) => page' = below
  BY <1>3, <1>5, PageOf DEF rows
\* Whatever was read before is no older than the cursor, hence not read again.
<1>10. ASSUME NEW p \in page', p \in seen' PROVE FALSE
  <2>1. Newer(cursor, p) /\ p \in Purchases BY <1>5, <1>7, <1>9
  <2>2. p = cursor \/ Newer(p, cursor) BY <1>1, <1>3, <1>10 DEF ReadToCursor
  <2> QED BY <1>1, <2>1, <2>2, NewerOrders DEF ReadToCursor
<1>11. ASSUME NEW p \in lasting, p \notin seen' PROVE p \in below
  <2>1. Newer(cursor, p) BY <1>1, <1>3, <1>11 DEF ReadToCursor
  <2> QED BY <1>8, <2>1 DEF HistoryInv
<1>12. page' \subseteq Purchases /\ seen' \subseteq Purchases /\ lasting' \subseteq Current'
  BY <1>3, <1>5, <1>6, <1>9 DEF HistoryInv
<1>13. CASE Cardinality(rows) > Limit
  <2>1. more' = TRUE /\ cursor' = Oldest(page') BY <1>3, <1>13
  <2>2. cursor' \in page' /\ cursor' \in below /\ cursor' \in Purchases
    BY <1>9, <1>12, <1>13, <2>1
  <2>3. ASSUME NEW p \in page' \union seen' PROVE p = cursor' \/ Newer(p, cursor')
    <3>1. CASE p \in page' BY <1>9, <1>13, <2>1, <3>1
    <3>2. CASE p \in seen'
      <4>1. Newer(cursor, cursor') BY <1>7, <2>2
      <4>2. p = cursor \/ Newer(p, cursor) BY <1>1, <1>3, <3>2 DEF ReadToCursor
      <4>3. p \in Purchases /\ cursor \in Purchases BY <1>1, <1>12, <3>2 DEF ReadToCursor
      <4> QED BY <2>2, <4>1, <4>2, <4>3, NewerOrders
    <3> QED BY <3>1, <3>2
  <2>4. ASSUME NEW p \in lasting', p \notin page' \union seen' PROVE Newer(cursor', p)
    <3>1. p \in below BY <1>3, <1>11, <2>4
    <3> QED BY <1>9, <1>13, <2>1, <2>4, <3>1
  <2>5. ReadToCursor' BY <2>2, <2>3, <2>4 DEF ReadToCursor
  <2> QED BY <1>3, <1>4, <1>10, <1>12, <2>1, <2>5 DEF HistoryInv
<1>14. CASE ~(Cardinality(rows) > Limit)
  <2>1. more' # TRUE
    <3>1. more' = (Cardinality(rows) > Limit) BY <1>3
    <3> QED BY <1>14, <3>1
  <2>2. page' = below BY <1>9, <1>14
  <2>3. lasting' \subseteq page' \union seen' BY <1>3, <1>11, <2>2
  <2> QED BY <1>3, <1>4, <1>10, <1>12, <2>1, <2>2, <2>3 DEF HistoryInv
<1> QED BY <1>13, <1>14

\* HistoryInv is an invariant.
LEMMA HistoryInvariant == HistorySpec => []HistoryInv
<1>1. ASSUME HistoryInv, UNCHANGED historyVars PROVE HistoryInv'
  <2>1. UNCHANGED <<purchases, erased, cutoff, cursor, page, seen, lasting, more>>
    BY <1>1 DEF historyVars
  <2>2. Current' = Current BY <2>1 DEF Current
  <2> QED BY <1>1, <2>1, <2>2, ChangesKeep DEF HistoryInv
<1>2. ASSUME HistoryInv, HistoryNext PROVE HistoryInv'
  BY <1>2, PurchaseItemKeeps, UndoPurchaseKeeps, TimePassesKeeps, FirstPageKeeps, NextPageKeeps
     DEF HistoryNext
<1> QED BY HistoryInvInit, <1>1, <1>2, PTL DEF HistorySpec

\* Whatever comes and goes while a reader turns the pages, none repeats a
\* purchase and the last one completes those that were there all along.
THEOREM PagesComplete == HistorySpec => []PagesCoverHistory
<1>1. HistoryInv => PagesCoverHistory BY DEF HistoryInv, PagesCoverHistory
<1> QED BY <1>1, HistoryInvariant, PTL
================================================================================
