----------------------------- MODULE FlyerDigest -----------------------------
(***************************************************************************)
(* Daily flyer notifications: services/notification_jobs.py together with  *)
(* services/repositories/flyer_digest_repository.py and its SQL.           *)
(*                                                                         *)
(* A publication queues one parent job per flyer.  A worker cycle, run     *)
(* under a Postgres advisory lock, requeues jobs whose worker lock expired,*)
(* turns parents into one event per recipient, collects a user's events    *)
(* into the digest of the Rome day, claims digests and reserves their      *)
(* delivery.  The pushes are sent after the lock is released.              *)
(*                                                                         *)
(* Time is counted in half days: tick 2*d is day d before 10:00 in Rome,   *)
(* tick 2*d + 1 is day d from 10:00 on.                                    *)
(***************************************************************************)
EXTENDS Integers, FiniteSets

CONSTANTS
  Users,        \* recipients of every flyer
  Muted,        \* users with notifications_enabled = false
  Flyers,       \* published target flyers
  Workers,      \* concurrent runners of run_pending (scheduler, ops endpoint)
  None,         \* no flyer, no lock holder
  LastDay,      \* bound: the last modelled Rome day
  BatchSize,    \* notification_delivery_batch_size
  MaxAttempts,  \* notification_jobs.max_attempts
  MaxFaults,    \* bound: crashes, aborted cycles and failed steps
  MaxEdits      \* bound: edits of a flyer's validity

ASSUME UsersAssumption == IsFiniteSet(Users) /\ Muted \subseteq Users
ASSUME FlyersAssumption == IsFiniteSet(Flyers)
ASSUME NoneAssumption == None \notin Flyers /\ None \notin Workers
ASSUME BoundsAssumption ==
  /\ LastDay \in Nat
  /\ BatchSize \in Nat \ {0}
  /\ MaxAttempts \in Nat \ {0}
  /\ MaxFaults \in Nat
  /\ MaxEdits \in Nat

VARIABLES
  clock,    \* the current tick
  flyer,    \* flyers rows: visibility and valid_from
  resched,  \* flyers whose new valid_from is stored but not yet rescheduled
  parent,   \* flyer_published jobs
  event,    \* flyer_published_recipient jobs that carry one flyer
  digest,   \* flyer_published_recipient jobs that carry a day's flyers
  inbox,    \* app_notifications rows, by aggregation key
  pushes,   \* calls of _send_push_to_user made for a digest
  holder,   \* worker that holds the advisory lock
  pc,       \* program counter of each worker
  todo,     \* parents a worker claimed and has not dispatched
  fanout,   \* parent whose recipients a worker is enqueuing
  now,      \* the clock value a cycle read before prepare
  batch,    \* digests a worker claimed and has not tried to reserve
  out,      \* digests a worker will deliver, with the attempts it read
  faults,   \* number of faults so far
  edits     \* number of validity edits so far

envVars == <<clock, flyer, resched, faults, edits>>
jobVars == <<parent, event, digest>>
outsideVars == <<inbox, pushes>>
workerVars == <<holder, pc, todo, fanout, now, batch, out>>
vars == <<envVars, jobVars, outsideVars, workerVars>>

-----------------------------------------------------------------------------
Days == 0..LastDay
LastTick == 2 * LastDay + 1
Ticks == 0..LastTick
Day(t) == t \div 2
IsOpen(t) == t % 2 = 1
OpensOn(d) == 2 * d + 1
Later(a, b) == IF a < b THEN b ELSE a

Never == -1
Digests == Users \X Days
Events == Users \X Flyers
Claimable == {"pending", "failed"}
Statuses == {"none", "pending", "processing", "failed", "done", "dead"}
Steps == {"idle", "skip", "push", "sent", "raised"}

\* No row with this idempotency key.
NoJob == [status |-> "none", attempts |-> 0, avail |-> 0, expired |-> FALSE]
NoDigest == [status |-> "none", attempts |-> 0, avail |-> 0, expired |-> FALSE,
             flyers |-> {}, events |-> {}, started |-> Never, items |-> {}]
Idle == [step |-> "idle", att |-> 0]

\* A job's status after its last attempt, or before it.
AfterFailure(attempts, retry) == IF attempts >= MaxAttempts THEN "dead" ELSE retry

\* A publication is announced not before 10:00 of its first day, nor of today.
NotificationAvailableAt(from) ==
  Later(clock, OpensOn(Later(from, Day(clock))))

\* ELIGIBLE and _flyer_is_notification_eligible, for the Rome day of tick t.
Eligible(f, t) == flyer[f].public /\ flyer[f].from <= Day(t)

\* Mutant of Due: the attempts < max_attempts filter is lost.
DueForever(job) == job.status \in Claimable /\ job.avail <= clock

\* _CLAIM_SQL: pending or failed, due, with attempts left.
Due(job) ==
  /\ job.status \in Claimable
  /\ job.avail <= clock
  /\ job.attempts < MaxAttempts

Claimed(job) ==
  [job EXCEPT !.status = "processing", !.attempts = @ + 1, !.expired = FALSE]

\* LIMIT: a claim takes the whole set, or a full batch of it.
Batches(S) ==
  {B \in SUBSET S : \/ Cardinality(B) = BatchSize
                    \/ B = S /\ Cardinality(S) < BatchSize}

\* Mutant of Released: expired jobs are never requeued.
NeverReleased(job) == job

\* _RELEASE_STALE_SQL on one row.
Released(job) ==
  IF job.status = "processing" /\ job.expired
  THEN [job EXCEPT !.status = AfterFailure(job.attempts, "pending"),
                   !.avail = clock, !.expired = FALSE]
  ELSE job

-----------------------------------------------------------------------------
Init ==
  /\ clock = 0
  /\ flyer = [f \in Flyers |-> [public |-> FALSE, from |-> 0]]
  /\ resched = {}
  /\ parent = [f \in Flyers |-> NoJob]
  /\ event = [e \in Events |-> [status |-> "none", avail |-> 0, by |-> Never]]
  /\ digest = [k \in Digests |-> NoDigest]
  /\ inbox = [k \in Digests |-> "absent"]
  /\ pushes = [k \in Digests |-> 0]
  /\ holder = None
  /\ pc = [w \in Workers |-> "idle"]
  /\ todo = [w \in Workers |-> {}]
  /\ fanout = [w \in Workers |-> None]
  /\ now = [w \in Workers |-> 0]
  /\ batch = [w \in Workers |-> {}]
  /\ out = [w \in Workers |-> [k \in Digests |-> Idle]]
  /\ faults = 0
  /\ edits = 0

-----------------------------------------------------------------------------
(* The surroundings: time, publications, edits of a flyer, users.          *)

Tick ==
  /\ clock < LastTick
  /\ clock' = clock + 1
  /\ UNCHANGED <<flyer, resched, faults, edits, jobVars, outsideVars, workerVars>>

\* A confirmed flyer becomes public and its parent job is queued.
Publish(f, from) ==
  /\ parent[f].status = "none"
  /\ flyer' = [flyer EXCEPT ![f] = [public |-> TRUE, from |-> from]]
  /\ parent' = [parent EXCEPT
       ![f] = [NoJob EXCEPT !.status = "pending",
                            !.avail = NotificationAvailableAt(from)]]
  /\ UNCHANGED <<clock, resched, faults, edits, event, digest, outsideVars, workerVars>>

\* The flyer expires, is deleted, or loses its confirmed offers.
Withdraw(f) ==
  /\ flyer[f].public
  /\ flyer' = [flyer EXCEPT ![f].public = FALSE]
  /\ UNCHANGED <<clock, resched, faults, edits, jobVars, outsideVars, workerVars>>

\* _sync_flyer_validity stores the new dates on the flyer first ...
EditValidity(f, from) ==
  /\ edits < MaxEdits
  /\ flyer[f].public
  /\ from # flyer[f].from
  /\ f \notin resched
  /\ flyer' = [flyer EXCEPT ![f].from = from]
  /\ resched' = resched \union {f}
  /\ edits' = edits + 1
  /\ UNCHANGED <<clock, faults, jobVars, outsideVars, workerVars>>

\* ... and then, in a second request, moves the parent job if it is waiting.
Reschedule(f) ==
  /\ f \in resched
  /\ resched' = resched \ {f}
  /\ parent' = IF parent[f].status \in Claimable
               THEN [parent EXCEPT
                       ![f].avail = NotificationAvailableAt(flyer[f].from)]
               ELSE parent
  /\ UNCHANGED <<clock, flyer, faults, edits, event, digest, outsideVars, workerVars>>

\* A user deletes the summary from the inbox.
DeleteInbox(k) ==
  /\ inbox[k] = "present"
  /\ inbox' = [inbox EXCEPT ![k] = "deleted"]
  /\ UNCHANGED <<envVars, jobVars, pushes, workerVars>>

\* locked_at gets older than notification_job_lock_timeout_seconds.
ParentLockExpires(f) ==
  /\ parent[f].status = "processing"
  /\ ~parent[f].expired
  /\ parent' = [parent EXCEPT ![f].expired = TRUE]
  /\ UNCHANGED <<envVars, event, digest, outsideVars, workerVars>>

DigestLockExpires(k) ==
  /\ digest[k].status = "processing"
  /\ ~digest[k].expired
  /\ digest' = [digest EXCEPT ![k].expired = TRUE]
  /\ UNCHANGED <<envVars, parent, event, outsideVars, workerVars>>

-----------------------------------------------------------------------------
(* run_pending under the advisory lock.                                    *)

\* Mutant of LockFree: a cycle that starts whether or not it got the lock.
LockIgnored == TRUE

\* pg_try_advisory_lock succeeds.
LockFree == holder = None

\* cycle() takes the lock and _release_stale_jobs requeues expired jobs.
\* A worker that finds the lock taken returns without touching anything.
StartCycle(w) ==
  /\ pc[w] = "idle"
  /\ LockFree
  /\ holder' = w
  /\ pc' = [pc EXCEPT ![w] = "drain"]
  /\ parent' = [f \in Flyers |-> Released(parent[f])]
  /\ digest' = [k \in Digests |-> Released(digest[k])]
  /\ UNCHANGED <<envVars, event, outsideVars, todo, fanout, now, batch, out>>

\* _drain_parents claims batches until one is not full.
ClaimParents(w) ==
  /\ pc[w] = "drain"
  /\ todo[w] = {}
  /\ fanout[w] = None
  /\ \E B \in Batches({f \in Flyers : Due(parent[f])}) :
       /\ todo' = [todo EXCEPT ![w] = B]
       /\ parent' = [f \in Flyers |->
                       IF f \in B THEN Claimed(parent[f]) ELSE parent[f]]
       /\ pc' = [pc EXCEPT ![w] = IF Cardinality(B) < BatchSize THEN "last" ELSE "drain"]
  /\ UNCHANGED <<envVars, event, digest, outsideVars, holder, fanout, now, batch, out>>

\* _dispatch of a parent: an ineligible flyer ends the job, without events.
CheckParent(w, f) ==
  /\ pc[w] \in {"drain", "last"}
  /\ fanout[w] = None
  /\ f \in todo[w]
  /\ todo' = [todo EXCEPT ![w] = @ \ {f}]
  /\ IF Eligible(f, clock)
     THEN /\ fanout' = [fanout EXCEPT ![w] = f]
          /\ UNCHANGED parent
     ELSE /\ parent' = [parent EXCEPT ![f].status = "done"]
          /\ UNCHANGED fanout
  /\ UNCHANGED <<envVars, event, digest, outsideVars, holder, pc, now, batch, out>>

\* _enqueue_recipient: an upsert that ignores an event already there.
EnqueueRecipient(w, u) ==
  /\ fanout[w] # None
  /\ event[<<u, fanout[w]>>].status = "none"
  /\ event' = [event EXCEPT
       ![<<u, fanout[w]>>] = [status |-> "pending", avail |-> clock, by |-> Never]]
  /\ UNCHANGED <<envVars, parent, digest, outsideVars, workerVars>>

FinishParent(w) ==
  /\ fanout[w] # None
  /\ \A u \in Users : event[<<u, fanout[w]>>].status # "none"
  /\ parent' = [parent EXCEPT ![fanout[w]].status = "done"]
  /\ fanout' = [fanout EXCEPT ![w] = None]
  /\ UNCHANGED <<envVars, event, digest, outsideVars, holder, pc, todo, now, batch, out>>

\* _mark_failed: the dispatch raised, part of the recipients may be queued.
FailParent(w) ==
  /\ faults < MaxFaults
  /\ faults' = faults + 1
  /\ fanout[w] # None
  /\ parent' = [parent EXCEPT
       ![fanout[w]].status = AfterFailure(parent[fanout[w]].attempts, "failed"),
       ![fanout[w]].avail = clock]
  /\ fanout' = [fanout EXCEPT ![w] = None]
  /\ UNCHANGED <<clock, flyer, resched, edits, event, digest, outsideVars,
                 holder, pc, todo, now, batch, out>>

\* Mutant of RolledOver: also the digests whose delivery was attempted.
RolledOverAttempted ==
  {k \in Digests : digest[k].status \in Claimable /\ k[2] < Day(clock)}

\* _rollover: undelivered digests of earlier days.
RolledOver ==
  {k \in Digests : /\ digest[k].status \in Claimable
                   /\ digest[k].started = Never
                   /\ k[2] < Day(clock)}

\* Mutant of Restored: the old events are not given back.
RestoredNone == {}

\* Events given back by _rollover.
Restored ==
  {e \in Events : \E k \in RolledOver : k[1] = e[1] /\ e[2] \in digest[k].events}

\* EVENTS, as seen after the rollover.
Collected(u) ==
  {f \in Flyers : \/ <<u, f>> \in Restored
                  \/ event[<<u, f>>].status = "pending" /\ event[<<u, f>>].avail <= clock}

Today(u) == <<u, Day(clock)>>
HasToday(u) == digest[Today(u)].status # "none"
Items(u) == {f \in Collected(u) : Eligible(f, clock)}

\* Mutant of PlannedEvent: events that come after today's digest are consumed.
ConsumedEvent(e) ==
  IF e[2] \notin Collected(e[1]) THEN event[e]
  ELSE [event[e] EXCEPT !.status = "done", !.by = Day(clock)]

\* RESTORE, then DEFER when today's digest exists, CONSUME when it does not.
PlannedEvent(e) ==
  LET u == e[1] IN
  IF e[2] \notin Collected(u) THEN event[e]
  ELSE IF HasToday(u)
       THEN [status |-> "pending", avail |-> OpensOn(Day(clock) + 1), by |-> Never]
       ELSE [event[e] EXCEPT !.status = "done", !.by = Day(clock)]

\* Mutant of PlannedDigest: a superseded digest stays claimable.
KeptDigest(k) ==
  IF k = Today(k[1]) /\ ~HasToday(k[1]) /\ Items(k[1]) # {}
  THEN [NoDigest EXCEPT !.status = "pending", !.avail = clock,
                        !.flyers = Items(k[1]), !.events = Collected(k[1])]
  ELSE digest[k]

\* Superseded digests die; a user with something to announce gets today's.
PlannedDigest(k) ==
  IF k \in RolledOver THEN [digest[k] EXCEPT !.status = "dead"]
  ELSE IF k = Today(k[1]) /\ ~HasToday(k[1]) /\ Items(k[1]) # {}
       THEN [NoDigest EXCEPT !.status = "pending", !.avail = clock,
                             !.flyers = Items(k[1]), !.events = Collected(k[1])]
       ELSE digest[k]

\* prepare: one transaction, and nothing before 10:00.
Prepare(w) ==
  /\ pc[w] = "last"
  /\ todo[w] = {}
  /\ fanout[w] = None
  /\ pc' = [pc EXCEPT ![w] = "claim"]
  /\ now' = [now EXCEPT ![w] = clock]
  /\ IF IsOpen(clock)
     THEN /\ event' = [e \in Events |-> PlannedEvent(e)]
          /\ digest' = [k \in Digests |-> PlannedDigest(k)]
     ELSE UNCHANGED <<event, digest>>
  /\ UNCHANGED <<envVars, parent, outsideVars, holder, todo, fanout, batch, out>>

\* ORDER BY created_at: a digest is created on its own day.
OldestFirst(B, S) == \A k \in B, l \in S \ B : k[2] <= l[2]

ClaimDigests(w) ==
  /\ pc[w] = "claim"
  /\ LET due == {k \in Digests : Due(digest[k])} IN
     \E B \in Batches(due) :
       /\ OldestFirst(B, due)
       /\ batch' = [batch EXCEPT ![w] = B]
       /\ digest' = [k \in Digests |->
                       IF k \in B THEN Claimed(digest[k]) ELSE digest[k]]
  /\ pc' = [pc EXCEPT ![w] = "reserve"]
  /\ UNCHANGED <<envVars, parent, event, outsideVars, holder, todo, fanout, now, out>>

\* Mutant of Unattempted: reserve_delivery forgets that it looked already.
AlwaysUnattempted(k) == TRUE

\* The payload has no delivery_started_at.
Unattempted(k) == digest[k].started = Never

\* reserve_delivery refuses: already attempted, or nothing left to announce.
SkipDelivery(w, k) ==
  /\ k \in batch[w]
  /\ \/ ~Unattempted(k)
     \/ \A f \in digest[k].flyers : ~Eligible(f, now[w])
  /\ batch' = [batch EXCEPT ![w] = @ \ {k}]
  /\ out' = [out EXCEPT ![w][k] = [step |-> "skip", att |-> digest[k].attempts]]
  /\ UNCHANGED <<envVars, jobVars, outsideVars, holder, pc, todo, fanout, now>>

\* reserve_delivery commits the inbox row and delivery_started_at together.
ReserveDelivery(w, k) ==
  LET items == {f \in digest[k].flyers : Eligible(f, now[w])} IN
  /\ k \in batch[w]
  /\ Unattempted(k)
  /\ items # {}
  /\ batch' = [batch EXCEPT ![w] = @ \ {k}]
  /\ digest' = [digest EXCEPT ![k].started = now[w], ![k].items = items]
  /\ inbox' = [inbox EXCEPT ![k] = "present"]
  /\ out' = [out EXCEPT ![w][k] =
       [step |-> IF k[1] \in Muted THEN "sent" ELSE "push", att |-> digest[k].attempts]]
  /\ UNCHANGED <<envVars, parent, event, pushes, holder, pc, todo, fanout, now>>

\* The with block ends: the advisory lock is released before any push.
Unlock(w) ==
  /\ pc[w] = "reserve"
  /\ batch[w] = {}
  /\ holder' = None
  /\ pc' = [pc EXCEPT ![w] = "deliver"]
  /\ UNCHANGED <<envVars, jobVars, outsideVars, todo, fanout, now, batch, out>>

-----------------------------------------------------------------------------
(* _run_recipients, outside the lock; the threads interleave freely.       *)

\* _send_push_to_user runs: it asks the providers of all the user's subscriptions,
\* and what they answer changes nothing here.
Push(w, k) ==
  /\ pc[w] = "deliver"
  /\ out[w][k].step = "push"
  /\ pushes' = [pushes EXCEPT ![k] = @ + 1]
  /\ out' = [out EXCEPT ![w][k].step = "sent"]
  /\ UNCHANGED <<envVars, jobVars, inbox, holder, pc, todo, fanout, now, batch>>

\* The delivery raises something that deliver_flyer_digest does not catch itself
\* (it catches the errors of providers and subscriptions).
PushRaises(w, k) ==
  /\ faults < MaxFaults
  /\ faults' = faults + 1
  /\ pc[w] = "deliver"
  /\ out[w][k].step \in {"push", "sent"}
  /\ k[1] \notin Muted
  /\ out' = [out EXCEPT ![w][k].step = "raised"]
  /\ UNCHANGED <<clock, flyer, resched, edits, jobVars, outsideVars,
                 holder, pc, todo, fanout, now, batch>>

MarkDone(w, k) ==
  /\ pc[w] = "deliver"
  /\ out[w][k].step \in {"skip", "sent"}
  /\ digest' = [digest EXCEPT ![k].status = "done"]
  /\ out' = [out EXCEPT ![w][k] = Idle]
  /\ UNCHANGED <<envVars, parent, event, outsideVars, holder, pc, todo, fanout, now, batch>>

\* _mark_failed decides with the attempts the worker read when it claimed.
MarkFailed(w, k) ==
  /\ pc[w] = "deliver"
  /\ out[w][k].step = "raised"
  /\ digest' = [digest EXCEPT ![k].status = AfterFailure(out[w][k].att, "failed"),
                              ![k].avail = clock]
  /\ out' = [out EXCEPT ![w][k] = Idle]
  /\ UNCHANGED <<envVars, parent, event, outsideVars, holder, pc, todo, fanout, now, batch>>

\* run_pending returns its counters.
Return(w) ==
  /\ pc[w] = "deliver"
  /\ \A k \in Digests : out[w][k].step = "idle"
  /\ pc' = [pc EXCEPT ![w] = "idle"]
  /\ now' = [now EXCEPT ![w] = 0]
  /\ UNCHANGED <<envVars, jobVars, outsideVars, holder, todo, fanout, batch, out>>

\* The process dies, or an exception leaves run_pending: the lock goes with
\* the session, claimed jobs stay in processing.
Crash(w) ==
  /\ faults < MaxFaults
  /\ faults' = faults + 1
  /\ pc[w] # "idle"
  /\ holder' = IF holder = w THEN None ELSE holder
  /\ pc' = [pc EXCEPT ![w] = "idle"]
  /\ todo' = [todo EXCEPT ![w] = {}]
  /\ fanout' = [fanout EXCEPT ![w] = None]
  /\ now' = [now EXCEPT ![w] = 0]
  /\ batch' = [batch EXCEPT ![w] = {}]
  /\ out' = [out EXCEPT ![w] = [k \in Digests |-> Idle]]
  /\ UNCHANGED <<clock, flyer, resched, edits, jobVars, outsideVars>>

-----------------------------------------------------------------------------
Plan(w) ==
  \/ StartCycle(w)
  \/ ClaimParents(w)
  \/ \E f \in Flyers : CheckParent(w, f)
  \/ \E u \in Users : EnqueueRecipient(w, u)
  \/ FinishParent(w)
  \/ Prepare(w)
  \/ ClaimDigests(w)
  \/ \E k \in Digests : SkipDelivery(w, k) \/ ReserveDelivery(w, k)
  \/ Unlock(w)

Deliver(w) ==
  \/ \E k \in Digests : Push(w, k) \/ MarkDone(w, k) \/ MarkFailed(w, k)
  \/ Return(w)

Fault(w) ==
  \/ FailParent(w)
  \/ \E k \in Digests : PushRaises(w, k)
  \/ Crash(w)

LockExpiry ==
  \/ \E f \in Flyers : ParentLockExpires(f)
  \/ \E k \in Digests : DigestLockExpires(k)

Environment ==
  \/ Tick
  \/ \E f \in Flyers, d \in Days : Publish(f, d) \/ EditValidity(f, d)
  \/ \E f \in Flyers : Withdraw(f) \/ Reschedule(f)
  \/ \E k \in Digests : DeleteInbox(k)
  \/ LockExpiry

Next ==
  \/ Environment
  \/ \E w \in Workers : Plan(w) \/ Deliver(w) \/ Fault(w)

Spec == Init /\ [][Next]_vars

\* The scheduler starts a cycle every minute and a cycle is bounded by the
\* deadlines of its requests; time passes, so locks expire.
Fairness ==
  /\ WF_vars(Tick)
  /\ WF_vars(LockExpiry)
  /\ \A w \in Workers : WF_vars(Plan(w)) /\ WF_vars(Deliver(w))
  /\ \A f \in Flyers : WF_vars(Reschedule(f))

FairSpec == Spec /\ Fairness

-----------------------------------------------------------------------------
(* Properties.                                                             *)

JobType == [status : Statuses, attempts : 0..MaxAttempts, avail : Nat, expired : BOOLEAN]
EventType == [status : {"none", "pending", "done"}, avail : Nat, by : Days \union {Never}]
DigestType ==
  [status : Statuses, attempts : 0..MaxAttempts, avail : Nat, expired : BOOLEAN,
   flyers : SUBSET Flyers, events : SUBSET Flyers,
   started : Ticks \union {Never}, items : SUBSET Flyers]

\* Every variable has its type.
TypeOK ==
  /\ clock \in Ticks
  /\ flyer \in [Flyers -> [public : BOOLEAN, from : Days]]
  /\ resched \subseteq Flyers
  /\ parent \in [Flyers -> JobType]
  /\ event \in [Events -> EventType]
  /\ digest \in [Digests -> DigestType]
  /\ inbox \in [Digests -> {"absent", "present", "deleted"}]
  /\ pushes \in [Digests -> Nat]
  /\ holder \in Workers \union {None}
  /\ pc \in [Workers -> {"idle", "drain", "last", "claim", "reserve", "deliver"}]
  /\ todo \in [Workers -> SUBSET Flyers]
  /\ fanout \in [Workers -> Flyers \union {None}]
  /\ now \in [Workers -> Ticks]
  /\ batch \in [Workers -> SUBSET Digests]
  /\ out \in [Workers -> [Digests -> [step : Steps, att : 0..MaxAttempts]]]
  /\ faults \in 0..MaxFaults
  /\ edits \in 0..MaxEdits

\* A delivery is attempted at most once and only after its reservation was
\* committed, whatever workers crash, outlive their lock or retry
\* (docs/flyer-notifications.md: "a retry cannot attempt another push").
AtMostOnePush ==
  \A k \in Digests : /\ pushes[k] <= 1
                     /\ pushes[k] = 1 => digest[k].started # Never

\* Digests of two days never announce the same flyer to a user: an event
\* given back by a rollover is not also announced by the old digest.
NoFlyerAnnouncedTwice ==
  \A u \in Users, c, d \in Days :
    c # d => digest[<<u, c>>].items \intersect digest[<<u, d>>].items = {}

\* A digest that a later day supersedes while it still had attempts left
\* keeps none of its events: they all wait for a newer digest or belong to one.
SupersededReleasesEvents ==
  \A k \in Digests : \A f \in digest[k].events :
    /\ digest[k].status = "dead"
    /\ digest[k].started = Never
    /\ digest[k].attempts < MaxAttempts
    => event[<<k[1], f>>].by # k[2]

\* Only the worker that holds the advisory lock plans.  A parent it claimed is in
\* processing until it was dispatched.  A digest it claimed is not put back in
\* the queue before it was tried to reserve, though a worker that outlived its
\* lock may meanwhile end it as done, failed or dead (_mark_done, _mark_failed).
PlanningExclusive ==
  \A w \in Workers :
    /\ pc[w] \in {"drain", "last", "claim", "reserve"} => holder = w
    /\ (todo[w] # {} \/ fanout[w] # None \/ batch[w] # {}) => holder = w
    /\ \A f \in Flyers : f \in todo[w] \/ f = fanout[w] => parent[f].status = "processing"
    /\ \A k \in batch[w] : digest[k].status \notin {"none", "pending"}

\* A summary the user deleted does not come back when its job is retried.
InboxNotRecreated ==
  [][\A k \in Digests : inbox[k] = "deleted" => inbox'[k] = "deleted"]_vars

Announced(u, f) == \E d \in Days : f \in digest[<<u, d>>].items

\* With fewer faults than attempts, a public flyer is announced to every
\* user, unless it is withdrawn or waits for a day beyond the bound.
EventuallyAnnounced ==
  \A f \in Flyers, u \in Users :
    flyer[f].public ~> \/ Announced(u, f)
                       \/ ~flyer[f].public
                       \/ event[<<u, f>>].avail > LastTick

\* Nothing due, nothing half done.
Settled ==
  /\ \A f \in Flyers : ~Due(parent[f]) /\ parent[f].status # "processing"
  /\ \A k \in Digests : ~Due(digest[k]) /\ digest[k].status # "processing"
  /\ \A e \in Events : event[e].status = "pending" => event[e].avail > clock

\* After the last tick every job comes to rest: a crashed worker's jobs are
\* recovered and every due event finds its digest.
Settles == <>[]Settled

\* What the pipeline promises, in terms of what users see of it.
Announcements == INSTANCE FlyerAnnouncements WITH
  announced <- [k \in Digests |-> digest[k].items],
  pushes <- pushes

\* Every step announces one user's summary, pushes it once, or is invisible.
ImplementsAnnouncements == Announcements!Spec

-----------------------------------------------------------------------------
(* Statements of the documentation that the code does not keep.            *)

\* README.md: at most one summary a day per user.
OneSummaryPerDay ==
  \A u \in Users, c, d \in Days :
    /\ c # d
    /\ digest[<<u, c>>].started # Never
    /\ digest[<<u, d>>].started # Never
    => Day(digest[<<u, c>>].started) # Day(digest[<<u, d>>].started)

\* docs/jobs.md: the parent of a future flyer waits for 10:00 of its valid_from.
FutureFlyerWaits ==
  \A f \in Flyers :
    /\ flyer[f].public
    /\ Day(clock) < flyer[f].from
    /\ parent[f].status = "done"
    => \A u \in Users : event[<<u, f>>].status # "none"
=============================================================================
