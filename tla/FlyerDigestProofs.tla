-------------------------- MODULE FlyerDigestProofs --------------------------
(***************************************************************************)
(* Theorems about FlyerDigest, for any number of users, flyers, workers,   *)
(* days, attempts and faults.                                              *)
(***************************************************************************)
EXTENDS FlyerDigest, TLAPS

\* The day of a tick is a day, and its opening a natural number.
LEMMA DayIsDay == ASSUME NEW t \in Ticks PROVE Day(t) \in Days
  BY BoundsAssumption DEF Ticks, LastTick, Day, Days

\* When a flyer is announced is a natural number.
LEMMA AvailabilityType ==
  ASSUME TypeOK, NEW d \in Days
  PROVE  NotificationAvailableAt(d) \in Nat
  BY DayIsDay, BoundsAssumption
     DEF TypeOK, NotificationAvailableAt, Later, OpensOn, Days, Ticks, LastTick

\* A released job keeps its type.
LEMMA ReleasedType ==
  ASSUME clock \in Ticks
  PROVE  /\ \A job \in JobType : Released(job) \in JobType
         /\ \A job \in DigestType : Released(job) \in DigestType
<1>1. clock \in Nat
  BY BoundsAssumption DEF Ticks, LastTick
<1>2. ASSUME NEW job \in JobType PROVE Released(job) \in JobType
  BY <1>1 DEF Released, JobType, AfterFailure, Statuses
<1>3. ASSUME NEW job \in DigestType PROVE Released(job) \in DigestType
  BY <1>1 DEF Released, DigestType, AfterFailure, Statuses
<1>4. QED BY <1>2, <1>3

\* So does a due job when it is claimed.
LEMMA ClaimedType ==
  /\ \A job \in JobType : Due(job) => Claimed(job) \in JobType
  /\ \A job \in DigestType : Due(job) => Claimed(job) \in DigestType
<1>1. ASSUME NEW job \in JobType, Due(job) PROVE Claimed(job) \in JobType
  <2>1. job.attempts + 1 \in 0..MaxAttempts
    BY <1>1, BoundsAssumption DEF JobType, Due
  <2>2. QED BY <2>1 DEF Claimed, JobType, Statuses
<1>2. ASSUME NEW job \in DigestType, Due(job) PROVE Claimed(job) \in DigestType
  <2>1. job.attempts + 1 \in 0..MaxAttempts
    BY <1>2, BoundsAssumption DEF DigestType, Due
  <2>2. QED BY <2>1 DEF Claimed, DigestType, Statuses
<1>3. QED BY <1>1, <1>2

\* Planning keeps the types of events and digests.
LEMMA PlannedType ==
  ASSUME TypeOK
  PROVE  /\ \A e \in Events : PlannedEvent(e) \in EventType
         /\ \A k \in Digests : PlannedDigest(k) \in DigestType
<1> USE DEF TypeOK
<1>1. Day(clock) \in Days /\ clock \in Nat
  BY DayIsDay DEF Ticks
<1>2. ASSUME NEW e \in Events PROVE PlannedEvent(e) \in EventType
  <2>1. event[e] \in EventType OBVIOUS
  <2>2. OpensOn(Day(clock) + 1) \in Nat
    BY <1>1 DEF OpensOn, Days
  <2>3. QED BY <1>1, <2>1, <2>2 DEF PlannedEvent, EventType
<1>3. ASSUME NEW k \in Digests PROVE PlannedDigest(k) \in DigestType
  <2>1. digest[k] \in DigestType OBVIOUS
  <2>2. Items(k[1]) \in SUBSET Flyers /\ Collected(k[1]) \in SUBSET Flyers
    BY DEF Items, Collected
  <2>3. NoDigest \in DigestType
    BY BoundsAssumption DEF NoDigest, DigestType, Statuses, Never
  <2>4. QED BY <1>1, <2>1, <2>2, <2>3 DEF PlannedDigest, DigestType, Statuses
<1>4. QED BY <1>2, <1>3

OutType == [Digests -> [step : Steps, att : 0..MaxAttempts]]

\* A field of one entry takes a value of its type.
LEMMA ParentUpdate ==
  ASSUME NEW p \in [Flyers -> JobType], NEW f \in Flyers, NEW s \in Statuses, NEW a \in Nat
  PROVE  /\ [p EXCEPT ![f].status = s] \in [Flyers -> JobType]
         /\ [p EXCEPT ![f].status = s, ![f].avail = a] \in [Flyers -> JobType]
<1>1. [p[f] EXCEPT !.status = s] \in JobType
  BY DEF JobType
<1>2. [p[f] EXCEPT !.status = s, !.avail = a] \in JobType
  BY DEF JobType
<1>3. QED BY <1>1, <1>2

\* A job that is moved is a job.
LEMMA JobUpdate ==
  ASSUME NEW j \in JobType, NEW a \in Nat
  PROVE  [j EXCEPT !.avail = a] \in JobType
BY DEF JobType

\* A change of status, availability, expiry or reservation keeps a digest's type.
LEMMA DigestUpdate ==
  ASSUME NEW p \in [Digests -> DigestType], NEW k \in Digests, NEW s \in Statuses, NEW a \in Nat
  PROVE  /\ [p EXCEPT ![k].status = s] \in [Digests -> DigestType]
         /\ [p EXCEPT ![k].expired = TRUE] \in [Digests -> DigestType]
         /\ [p EXCEPT ![k].status = s, ![k].avail = a] \in [Digests -> DigestType]
         /\ \A t \in Ticks, items \in SUBSET Flyers :
              [p EXCEPT ![k].started = t, ![k].items = items] \in [Digests -> DigestType]
<1>1. [p[k] EXCEPT !.status = s] \in DigestType
  BY DEF DigestType
<1>2. [p[k] EXCEPT !.status = s, !.avail = a] \in DigestType
  BY DEF DigestType
<1>3. [p[k] EXCEPT !.expired = TRUE] \in DigestType
  BY DEF DigestType
<1>4. ASSUME NEW t \in Ticks, NEW items \in SUBSET Flyers
      PROVE  [p[k] EXCEPT !.started = t, !.items = items] \in DigestType
  BY DEF DigestType
<1>5. QED BY <1>1, <1>2, <1>3, <1>4

\* A worker that moves on with one digest keeps the type of its deliveries.
LEMMA OutUpdate ==
  ASSUME NEW o \in [Workers -> OutType], NEW w \in Workers, NEW k \in Digests, NEW s \in Steps
  PROVE  [o EXCEPT ![w][k].step = s] \in [Workers -> OutType]
<1>1. [o[w][k] EXCEPT !.step = s] \in [step : Steps, att : 0..MaxAttempts]
  BY DEF OutType
<1>2. [o[w] EXCEPT ![k] = [o[w][k] EXCEPT !.step = s]] \in OutType
  BY <1>1 DEF OutType
<1>3. [o EXCEPT ![w] = [o[w] EXCEPT ![k] = [o[w][k] EXCEPT !.step = s]]] \in [Workers -> OutType]
  BY <1>2
<1>4. QED BY <1>3

\* The initial tables and idle workers are well typed.
LEMMA InitTypeOK == Init => TypeOK
  BY BoundsAssumption
     DEF Init, TypeOK, JobType, EventType, DigestType, NoJob, NoDigest, Idle, Statuses,
         Steps, Never, Ticks, LastTick, Days

\* The clock, merchants, users and expiring locks keep every type.
LEMMA EnvironmentTypeOK == TypeOK /\ Environment => TypeOK'
<1> SUFFICES ASSUME TypeOK, Environment PROVE TypeOK'
  OBVIOUS
<1>0. \A d \in Days : NotificationAvailableAt(d) \in Nat
  BY AvailabilityType
<1> USE DEF TypeOK, OutType
<1>1. CASE Tick
  BY <1>1, BoundsAssumption DEF Tick, Ticks, LastTick, jobVars, outsideVars, workerVars
<1>2. ASSUME NEW f \in Flyers, NEW d \in Days, Publish(f, d) PROVE TypeOK'
  <2>1. [NoJob EXCEPT !.status = "pending", !.avail = NotificationAvailableAt(d)] \in JobType
    <3>1. NotificationAvailableAt(d) \in Nat BY <1>0
    <3>2. 0 \in 0..MaxAttempts BY BoundsAssumption
    <3>3. QED BY <3>1, <3>2 DEF NoJob, JobType, Statuses
  <2>2. QED BY <1>2, <2>1 DEF Publish, outsideVars, workerVars
<1>3. ASSUME NEW f \in Flyers, NEW d \in Days, EditValidity(f, d) PROVE TypeOK'
  <2>1. edits + 1 \in 0..MaxEdits
    BY <1>3, BoundsAssumption DEF EditValidity
  <2>2. QED BY <1>3, <2>1 DEF EditValidity, jobVars, outsideVars, workerVars
<1>4. ASSUME NEW f \in Flyers, Withdraw(f) PROVE TypeOK'
  BY <1>4 DEF Withdraw, jobVars, outsideVars, workerVars
<1>5. ASSUME NEW f \in Flyers, Reschedule(f) PROVE TypeOK'
  <2>1. NotificationAvailableAt(flyer[f].from) \in Nat
    BY <1>0
  <2> DEFINE to == NotificationAvailableAt(flyer[f].from)
  <2>2. [parent[f] EXCEPT !.avail = to] \in JobType
    <3>1. parent[f] \in JobType /\ to \in Nat
      BY <2>1
    <3>2. QED BY <3>1, JobUpdate
  <2>3. \/ parent' = parent
        \/ parent' = [parent EXCEPT ![f] =
                        [parent[f] EXCEPT !.avail = to]]
    BY <1>5 DEF Reschedule
  <2>4. parent' \in [Flyers -> JobType]
    BY <2>2, <2>3
  <2>5. resched' \subseteq Flyers
        /\ UNCHANGED <<clock, flyer, faults, edits, event, digest, outsideVars, workerVars>>
    BY <1>5 DEF Reschedule
  <2>6. QED BY <2>4, <2>5 DEF outsideVars, workerVars
<1>6. ASSUME NEW k \in Digests, DeleteInbox(k) PROVE TypeOK'
  BY <1>6 DEF DeleteInbox, envVars, jobVars, workerVars
<1>7. ASSUME NEW f \in Flyers, ParentLockExpires(f) PROVE TypeOK'
  BY <1>7 DEF ParentLockExpires, JobType, envVars, outsideVars, workerVars
<1>8. ASSUME NEW k \in Digests, DigestLockExpires(k) PROVE TypeOK'
  <2>1. digest' \in [Digests -> DigestType]
    BY <1>8, DigestUpdate DEF DigestLockExpires, Statuses
  <2>2. UNCHANGED <<envVars, parent, event, outsideVars, workerVars>>
    BY <1>8 DEF DigestLockExpires
  <2>3. QED BY <2>1, <2>2 DEF envVars, outsideVars, workerVars
<1>9. QED
  BY <1>1, <1>2, <1>3, <1>4, <1>5, <1>6, <1>7, <1>8 DEF Environment, LockExpiry

\* Every step of a planning pass keeps every type.
LEMMA PlanTypeOK == ASSUME NEW w \in Workers, TypeOK, Plan(w) PROVE TypeOK'
<1>0. /\ clock \in Ticks
      /\ \A job \in JobType : Released(job) \in JobType
      /\ \A job \in DigestType : Released(job) \in DigestType
  BY ReleasedType DEF TypeOK
<1>a. /\ \A e \in Events : PlannedEvent(e) \in EventType
      /\ \A k \in Digests : PlannedDigest(k) \in DigestType
  BY PlannedType
<1> USE DEF TypeOK, OutType
<1>1. CASE StartCycle(w)
  <2>1. parent' \in [Flyers -> JobType] /\ digest' \in [Digests -> DigestType]
    BY <1>0, <1>1 DEF StartCycle
  <2>2. holder' = w /\ pc' = [pc EXCEPT ![w] = "drain"]
    BY <1>1 DEF StartCycle
  <2>3. UNCHANGED <<envVars, event, outsideVars, todo, fanout, now, batch, out>>
    BY <1>1 DEF StartCycle
  <2>4. QED BY <2>1, <2>2, <2>3 DEF envVars, outsideVars
<1>2. CASE ClaimParents(w)
  <2>1. PICK B \in Batches({f \in Flyers : Due(parent[f])}) :
          /\ todo' = [todo EXCEPT ![w] = B]
          /\ parent' = [f \in Flyers |->
                          IF f \in B THEN Claimed(parent[f]) ELSE parent[f]]
          /\ pc' = [pc EXCEPT ![w] = IF Cardinality(B) < BatchSize THEN "last" ELSE "drain"]
    BY <1>2 DEF ClaimParents
  <2>2. B \subseteq Flyers /\ \A f \in B : Due(parent[f])
    BY <2>1 DEF Batches
  <2>3. parent' \in [Flyers -> JobType]
    BY <2>1, <2>2, ClaimedType
  <2>4. UNCHANGED <<envVars, event, digest, outsideVars, holder, fanout, now, batch, out>>
    BY <1>2 DEF ClaimParents
  <2>5. QED BY <2>1, <2>2, <2>3, <2>4 DEF envVars, outsideVars
<1>3. ASSUME NEW f \in Flyers, CheckParent(w, f) PROVE TypeOK'
  <2>1. parent' \in [Flyers -> JobType]
    <3>1. "done" \in Statuses /\ 0 \in Nat
      BY DEF Statuses
    <3>2. [parent EXCEPT ![f].status = "done"] \in [Flyers -> JobType]
      BY <3>1, ParentUpdate
    <3>3. QED BY <1>3, <3>2 DEF CheckParent
  <2>2. QED BY <1>3, <2>1 DEF CheckParent, envVars, outsideVars
<1>4. ASSUME NEW u \in Users, EnqueueRecipient(w, u) PROVE TypeOK'
  <2>1. <<u, fanout[w]>> \in Events
    BY <1>4 DEF EnqueueRecipient, Events
  <2>2. event' \in [Events -> EventType]
    BY <1>4, <2>1, BoundsAssumption
       DEF EnqueueRecipient, EventType, Ticks, LastTick, Never
  <2>3. UNCHANGED <<envVars, parent, digest, outsideVars, workerVars>>
    BY <1>4 DEF EnqueueRecipient
  <2>4. QED BY <2>2, <2>3 DEF envVars, outsideVars, workerVars
<1>5. CASE FinishParent(w)
  <2>1. parent' \in [Flyers -> JobType]
    <3>1. "done" \in Statuses /\ 0 \in Nat /\ fanout[w] \in Flyers
      BY <1>5 DEF FinishParent, Statuses
    <3>2. [parent EXCEPT ![fanout[w]].status = "done"] \in [Flyers -> JobType]
      BY <3>1, ParentUpdate
    <3>3. QED BY <1>5, <3>2 DEF FinishParent
  <2>2. QED BY <1>5, <2>1 DEF FinishParent, envVars, outsideVars
<1>6. CASE Prepare(w)
  <2>1. event' \in [Events -> EventType] /\ digest' \in [Digests -> DigestType]
    BY <1>a, <1>6 DEF Prepare
  <2>2. pc' = [pc EXCEPT ![w] = "claim"] /\ now' = [now EXCEPT ![w] = clock]
    BY <1>6 DEF Prepare
  <2>3. UNCHANGED <<envVars, parent, outsideVars, holder, todo, fanout, batch, out>>
    BY <1>6 DEF Prepare
  <2>4. QED BY <2>1, <2>2, <2>3 DEF envVars, outsideVars
<1>7. CASE ClaimDigests(w)
  <2>1. PICK B \in Batches({k \in Digests : Due(digest[k])}) :
          /\ batch' = [batch EXCEPT ![w] = B]
          /\ digest' = [k \in Digests |->
                          IF k \in B THEN Claimed(digest[k]) ELSE digest[k]]
    BY <1>7 DEF ClaimDigests
  <2>2. B \subseteq Digests /\ \A k \in B : Due(digest[k])
    BY <2>1 DEF Batches
  <2>3. digest' \in [Digests -> DigestType]
    BY <2>1, <2>2, ClaimedType
  <2>4. /\ pc' = [pc EXCEPT ![w] = "reserve"]
        /\ UNCHANGED <<envVars, parent, event, outsideVars, holder, todo, fanout, now, out>>
    BY <1>7 DEF ClaimDigests
  <2>5. QED BY <2>1, <2>2, <2>3, <2>4 DEF envVars, outsideVars
<1>8. ASSUME NEW k \in Digests, SkipDelivery(w, k) PROVE TypeOK'
  <2>1. out' \in [Workers -> OutType]
    BY <1>8 DEF SkipDelivery, Steps, DigestType
  <2>2. batch' \in [Workers -> SUBSET Digests]
    BY <1>8 DEF SkipDelivery
  <2>3. UNCHANGED <<envVars, jobVars, outsideVars, holder, pc, todo, fanout, now>>
    BY <1>8 DEF SkipDelivery
  <2>4. QED BY <2>1, <2>2, <2>3 DEF envVars, jobVars, outsideVars
<1>9. ASSUME NEW k \in Digests, ReserveDelivery(w, k) PROVE TypeOK'
  <2>1. out' \in [Workers -> OutType]
    BY <1>9 DEF ReserveDelivery, Steps, DigestType
  <2>2. digest' \in [Digests -> DigestType]
    <3> DEFINE items == {f \in digest[k].flyers : Eligible(f, now[w])}
    <3>2. digest[k].flyers \subseteq Flyers
      BY DEF DigestType
    <3>3. items \in SUBSET Flyers /\ now[w] \in Ticks /\ "done" \in Statuses /\ 0 \in Nat
      BY <3>2 DEF Statuses
    <3>4. [digest EXCEPT ![k].started = now[w], ![k].items = items] \in [Digests -> DigestType]
      BY <3>3, DigestUpdate
    <3>5. QED BY <1>9, <3>4 DEF ReserveDelivery
  <2>3. batch' \in [Workers -> SUBSET Digests] /\ inbox' = [inbox EXCEPT ![k] = "present"]
    BY <1>9 DEF ReserveDelivery
  <2>4. UNCHANGED <<envVars, parent, event, pushes, holder, pc, todo, fanout, now>>
    BY <1>9 DEF ReserveDelivery
  <2>5. QED BY <2>1, <2>2, <2>3, <2>4 DEF envVars
<1>10. CASE Unlock(w)
  BY <1>10 DEF Unlock, envVars, jobVars, outsideVars
<1>11. QED
  BY <1>1, <1>2, <1>3, <1>4, <1>5, <1>6, <1>7, <1>8, <1>9, <1>10 DEF Plan

\* Every step of a delivery keeps every type.
LEMMA DeliverTypeOK == ASSUME NEW w \in Workers, TypeOK, Deliver(w) PROVE TypeOK'
<1> USE DEF TypeOK, OutType
<1>1. ASSUME NEW k \in Digests, Push(w, k) PROVE TypeOK'
  <2>1. out' \in [Workers -> OutType]
    BY <1>1, OutUpdate DEF Push, Steps
  <2>2. pushes' \in [Digests -> Nat]
    BY <1>1 DEF Push
  <2>3. UNCHANGED <<envVars, jobVars, inbox, holder, pc, todo, fanout, now, batch>>
    BY <1>1 DEF Push
  <2>4. QED BY <2>1, <2>2, <2>3 DEF envVars, jobVars
<1>2. ASSUME NEW k \in Digests, MarkDone(w, k) PROVE TypeOK'
  <2>1. out' \in [Workers -> OutType]
    BY <1>2, BoundsAssumption DEF MarkDone, Steps, Idle
  <2>2. digest' \in [Digests -> DigestType]
    BY <1>2, DigestUpdate DEF MarkDone, Statuses
  <2>3. UNCHANGED <<envVars, parent, event, outsideVars, holder, pc, todo, fanout, now, batch>>
    BY <1>2 DEF MarkDone
  <2>4. QED BY <2>1, <2>2, <2>3 DEF envVars, outsideVars
<1>3. ASSUME NEW k \in Digests, MarkFailed(w, k) PROVE TypeOK'
  <2>1. out' \in [Workers -> OutType]
    BY <1>3, BoundsAssumption DEF MarkFailed, Steps, Idle
  <2>2. clock \in Nat
    BY BoundsAssumption DEF Ticks, LastTick
  <2>3. digest' \in [Digests -> DigestType]
    <3>1. PICK t \in Statuses :
            digest' = [digest EXCEPT ![k].status = t, ![k].avail = clock]
      BY <1>3 DEF MarkFailed, Statuses, AfterFailure
    <3>2. digest \in [Digests -> DigestType]
      OBVIOUS
    <3>3. QED BY <2>2, <3>1, <3>2, DigestUpdate
  <2>4. UNCHANGED <<envVars, parent, event, outsideVars, holder, pc, todo, fanout, now, batch>>
    BY <1>3 DEF MarkFailed
  <2>5. QED BY <2>1, <2>3, <2>4 DEF envVars, outsideVars
<1>4. CASE Return(w)
  BY <1>4, BoundsAssumption DEF Return, envVars, jobVars, outsideVars, Ticks, LastTick
<1>5. QED BY <1>1, <1>2, <1>3, <1>4 DEF Deliver

\* A failed parent, a push that raises and a crash keep every type.
LEMMA FaultTypeOK == ASSUME NEW w \in Workers, TypeOK, Fault(w) PROVE TypeOK'
<1>0. faults < MaxFaults => faults + 1 \in 0..MaxFaults
  BY BoundsAssumption DEF TypeOK
<1> USE DEF TypeOK, OutType
<1>1. CASE FailParent(w)
  <2>1. clock \in Nat
    BY BoundsAssumption DEF Ticks, LastTick
  <2>2. parent' \in [Flyers -> JobType]
    <3> DEFINE status == AfterFailure(parent[fanout[w]].attempts, "failed")
    <3>2. status \in Statuses /\ fanout[w] \in Flyers
      BY <1>1 DEF FailParent, Statuses, AfterFailure
    <3>3. [parent EXCEPT ![fanout[w]].status = status, ![fanout[w]].avail = clock]
            \in [Flyers -> JobType]
      BY <2>1, <3>2, ParentUpdate
    <3>4. QED BY <1>1, <3>3 DEF FailParent
  <2>3. /\ faults' \in 0..MaxFaults
        /\ fanout' = [fanout EXCEPT ![w] = None]
        /\ UNCHANGED <<clock, flyer, resched, edits, event, digest, outsideVars,
                       holder, pc, todo, now, batch, out>>
    BY <1>0, <1>1 DEF FailParent
  <2>4. QED BY <2>2, <2>3 DEF outsideVars
<1>2. ASSUME NEW k \in Digests, PushRaises(w, k) PROVE TypeOK'
  <2>1. out' \in [Workers -> OutType]
    BY <1>2, OutUpdate DEF PushRaises, Steps
  <2>2. /\ faults' \in 0..MaxFaults
        /\ UNCHANGED <<clock, flyer, resched, edits, jobVars, outsideVars,
                       holder, pc, todo, fanout, now, batch>>
    BY <1>0, <1>2 DEF PushRaises
  <2>3. QED BY <2>1, <2>2 DEF jobVars, outsideVars
<1>3. CASE Crash(w)
  <2>1. out' \in [Workers -> OutType]
    BY <1>3, BoundsAssumption DEF Crash, Steps, Idle
  <2>2. 0 \in Ticks
    BY BoundsAssumption DEF Ticks, LastTick
  <2>3. /\ faults' \in 0..MaxFaults
        /\ UNCHANGED <<clock, flyer, resched, edits, jobVars, outsideVars>>
    BY <1>0, <1>3 DEF Crash
  <2>4. /\ holder' \in Workers \union {None}
        /\ pc' = [pc EXCEPT ![w] = "idle"]
        /\ todo' = [todo EXCEPT ![w] = {}]
        /\ fanout' = [fanout EXCEPT ![w] = None]
        /\ now' = [now EXCEPT ![w] = 0]
        /\ batch' = [batch EXCEPT ![w] = {}]
    BY <1>3 DEF Crash
  <2>5. QED BY <2>1, <2>2, <2>3, <2>4 DEF jobVars, outsideVars
<1>4. QED BY <1>1, <1>2, <1>3 DEF Fault

\* Every variable keeps its type, whatever the constants are.
THEOREM TypeCorrect == Spec => []TypeOK
<1>1. Init => TypeOK
  BY InitTypeOK
<1>2. TypeOK /\ [Next]_vars => TypeOK'
  <2>1. CASE UNCHANGED vars
    BY <2>1 DEF TypeOK, vars, envVars, jobVars, outsideVars, workerVars
  <2>2. TypeOK /\ Next => TypeOK'
    BY EnvironmentTypeOK, PlanTypeOK, DeliverTypeOK, FaultTypeOK DEF Next
  <2>3. QED BY <2>1, <2>2
<1>3. QED BY <1>1, <1>2, PTL DEF Spec

-----------------------------------------------------------------------------
(* The advisory lock.                                                      *)

Planning == {"drain", "last", "claim", "reserve"}

\* Only the holder plans; a worker holds parents only while it drains, and
\* digests only while it reserves; the parents it holds are in processing.
LockInv ==
  \A w \in Workers :
    /\ pc[w] \in Planning => holder = w
    /\ todo[w] # {} \/ fanout[w] # None => pc[w] \in {"drain", "last"}
    /\ batch[w] # {} => pc[w] = "reserve"
    /\ fanout[w] \notin todo[w]
    /\ \A f \in Flyers : f \in todo[w] \/ f = fanout[w] => parent[f].status = "processing"

\* Nobody plans and nobody holds a row before the first pass.
LEMMA LockInit == Init => LockInv
  BY NoneAssumption DEF Init, LockInv, Planning

\* A planning step keeps the lock with the worker that plans.
LEMMA LockPlan ==
  ASSUME NEW w \in Workers, TypeOK, LockInv, Plan(w)
  PROVE  LockInv'
<1> USE NoneAssumption DEF LockInv, Planning
<1>t. /\ pc \in [Workers -> {"idle", "drain", "last", "claim", "reserve", "deliver"}]
      /\ todo \in [Workers -> SUBSET Flyers]
      /\ fanout \in [Workers -> Flyers \union {None}]
      /\ batch \in [Workers -> SUBSET Digests]
      /\ parent \in [Flyers -> JobType]
  BY DEF TypeOK
<1>1. CASE StartCycle(w)
  BY <1>1, <1>t DEF StartCycle, LockFree
<1>2. CASE ClaimParents(w)
  <2>1. PICK B \in Batches({f \in Flyers : Due(parent[f])}) :
          /\ todo' = [todo EXCEPT ![w] = B]
          /\ parent' = [f \in Flyers |->
                          IF f \in B THEN Claimed(parent[f]) ELSE parent[f]]
          /\ pc' = [pc EXCEPT ![w] = IF Cardinality(B) < BatchSize THEN "last" ELSE "drain"]
    BY <1>2 DEF ClaimParents
  <2>2. B \subseteq Flyers
    BY <2>1 DEF Batches
  <2>3. \A f \in B : parent'[f].status = "processing"
    <3>1. \A f \in B : parent[f] \in JobType /\ parent'[f] = Claimed(parent[f])
      BY <2>1, <2>2, <1>t
    <3>2. QED BY <3>1 DEF Claimed, JobType
  <2>4. \A f \in Flyers \ B : parent'[f] = parent[f]
    BY <2>1
  <2>5. /\ pc[w] = "drain" /\ todo[w] = {} /\ fanout[w] = None
        /\ UNCHANGED <<holder, fanout, batch>>
    BY <1>2 DEF ClaimParents
  <2>6. QED BY <2>1, <2>2, <2>3, <2>4, <2>5, <1>t
<1>3. ASSUME NEW f \in Flyers, CheckParent(w, f) PROVE LockInv'
  <2>1. \A g \in Flyers \ {f} : parent'[g] = parent[g]
    BY <1>3, <1>t DEF CheckParent
  <2>2. Eligible(f, clock) => parent' = parent
    BY <1>3 DEF CheckParent
  <2>3. \A v \in Workers \ {w} : f \notin todo[v] /\ f # fanout[v]
    BY <1>3, <1>t DEF CheckParent
  <2>4. QED BY <1>3, <2>1, <2>2, <2>3, <1>t DEF CheckParent
<1>4. ASSUME NEW u \in Users, EnqueueRecipient(w, u) PROVE LockInv'
  BY <1>4 DEF EnqueueRecipient, workerVars
<1>5. CASE FinishParent(w)
  <2>1. \A g \in Flyers \ {fanout[w]} : parent'[g] = parent[g]
    BY <1>5, <1>t DEF FinishParent
  <2>2. \A v \in Workers \ {w} : fanout[w] \notin todo[v] /\ fanout[w] # fanout[v]
    BY <1>5, <1>t DEF FinishParent
  <2>3. QED BY <1>5, <2>1, <2>2, <1>t DEF FinishParent
<1>6. CASE Prepare(w)
  BY <1>6, <1>t DEF Prepare
<1>7. CASE ClaimDigests(w)
  <2>1. /\ pc[w] = "claim"
        /\ \E B : batch' = [batch EXCEPT ![w] = B]
        /\ pc' = [pc EXCEPT ![w] = "reserve"]
        /\ UNCHANGED <<parent, holder, todo, fanout>>
    BY <1>7 DEF ClaimDigests
  <2>2. QED BY <2>1, <1>t
<1>8. ASSUME NEW k \in Digests, SkipDelivery(w, k) PROVE LockInv'
  BY <1>8, <1>t DEF SkipDelivery, jobVars
<1>9. ASSUME NEW k \in Digests, ReserveDelivery(w, k) PROVE LockInv'
  <2>1. /\ k \in batch[w]
        /\ batch' = [batch EXCEPT ![w] = @ \ {k}]
        /\ UNCHANGED <<parent, holder, pc, todo, fanout>>
    BY <1>9 DEF ReserveDelivery
  <2>2. QED BY <2>1, <1>t
<1>10. CASE Unlock(w)
  BY <1>10, <1>t DEF Unlock, jobVars
<1>11. QED
  BY <1>1, <1>2, <1>3, <1>4, <1>5, <1>6, <1>7, <1>8, <1>9, <1>10 DEF Plan

\* Every step outside planning keeps the lock with the worker that plans.
LEMMA LockOther ==
  ASSUME TypeOK, LockInv, Environment \/ \E w \in Workers : Deliver(w) \/ Fault(w)
  PROVE  LockInv'
<1> USE NoneAssumption DEF LockInv, Planning
<1>t. /\ pc \in [Workers -> {"idle", "drain", "last", "claim", "reserve", "deliver"}]
      /\ todo \in [Workers -> SUBSET Flyers]
      /\ fanout \in [Workers -> Flyers \union {None}]
      /\ batch \in [Workers -> SUBSET Digests]
      /\ parent \in [Flyers -> JobType]
  BY DEF TypeOK
<1>1. ASSUME UNCHANGED <<holder, pc, todo, fanout, batch>>,
             \A f \in Flyers : parent[f].status = "processing" => parent'[f].status = "processing"
      PROVE  LockInv'
  BY <1>1
<1>2. CASE Environment
  <2>1. UNCHANGED <<holder, pc, todo, fanout, batch>>
    BY <1>2 DEF Environment, LockExpiry, Tick, Publish, EditValidity, Withdraw, Reschedule,
                DeleteInbox, ParentLockExpires, DigestLockExpires, workerVars
  <2>2. ASSUME NEW f \in Flyers, parent[f].status = "processing"
        PROVE  parent'[f].status = "processing"
    <3>1. CASE UNCHANGED parent
      BY <2>2, <3>1
    <3>2. ASSUME NEW g \in Flyers, NEW d \in Days, Publish(g, d)
          PROVE  parent'[f] = parent[f]
      BY <2>2, <3>2, <1>t DEF Publish
    <3>3. ASSUME NEW g \in Flyers, Reschedule(g)
          PROVE  parent'[f] = parent[f]
      BY <2>2, <3>3, <1>t DEF Reschedule, Claimable
    <3>4. ASSUME NEW g \in Flyers, ParentLockExpires(g)
          PROVE  parent'[f].status = parent[f].status
      BY <2>2, <3>4, <1>t DEF ParentLockExpires, JobType
    <3>5. QED
      BY <1>2, <2>2, <3>1, <3>2, <3>3, <3>4
         DEF Environment, LockExpiry, Tick, EditValidity, Withdraw, DeleteInbox,
             DigestLockExpires, jobVars
  <2>3. QED BY <1>1, <2>1, <2>2
<1>3. ASSUME NEW w \in Workers, Deliver(w) PROVE LockInv'
  <2>1. CASE Return(w)
    BY <2>1, <1>t DEF Return, jobVars
  <2>2. CASE ~Return(w)
    <3>1. UNCHANGED <<holder, pc, todo, fanout, batch, parent>>
      BY <1>3, <2>2 DEF Deliver, Push, MarkDone, MarkFailed, jobVars
    <3>2. QED BY <1>1, <3>1
  <2>3. QED BY <2>1, <2>2
<1>4. ASSUME NEW w \in Workers, FailParent(w) PROVE LockInv'
  <2>1. \A g \in Flyers \ {fanout[w]} : parent'[g] = parent[g]
    BY <1>4, <1>t DEF FailParent
  <2>2. \A v \in Workers \ {w} : fanout[w] \notin todo[v] /\ fanout[w] # fanout[v]
    BY <1>4, <1>t DEF FailParent
  <2>3. QED BY <1>4, <2>1, <2>2, <1>t DEF FailParent
<1>5. ASSUME NEW w \in Workers, NEW k \in Digests, PushRaises(w, k) PROVE LockInv'
  BY <1>1, <1>5 DEF PushRaises, jobVars
<1>6. ASSUME NEW w \in Workers, Crash(w) PROVE LockInv'
  BY <1>6, <1>t DEF Crash, jobVars
<1>7. QED BY <1>2, <1>3, <1>4, <1>5, <1>6 DEF Fault

\* The planner's lock discipline is invariant.
LEMMA LockCorrect == Spec => []LockInv
<1>1. TypeOK /\ LockInv /\ [Next]_vars => LockInv'
  <2>1. CASE UNCHANGED vars
    BY <2>1 DEF LockInv, vars, jobVars, workerVars
  <2>2. TypeOK /\ LockInv /\ Next => LockInv'
    BY LockPlan, LockOther DEF Next
  <2>3. QED BY <2>1, <2>2
<1>2. QED BY <1>1, LockInit, TypeCorrect, PTL DEF Spec

\* A claimed digest has a row and is not back in the queue.
BatchInv ==
  \A w \in Workers : \A k \in batch[w] : digest[k].status \notin {"none", "pending"}

\* Nobody claims in the step, and no digest goes back to the queue.
LEMMA BatchFrame ==
  ASSUME TypeOK, BatchInv,
         \A w \in Workers : batch'[w] \subseteq batch[w],
         \A k \in Digests : digest[k].status \notin {"none", "pending"}
                              => digest'[k].status \notin {"none", "pending"}
  PROVE  BatchInv'
<1>1. \A w \in Workers : batch[w] \subseteq Digests
  BY DEF TypeOK
<1> QED BY <1>1 DEF BatchInv

\* Digests go back to the queue when a cycle starts, and are planned, while
\* nobody has claimed any.
LEMMA BatchPlan ==
  ASSUME TypeOK, LockInv, BatchInv, NEW w \in Workers, Plan(w)
  PROVE  BatchInv'
<1>t. /\ pc \in [Workers -> {"idle", "drain", "last", "claim", "reserve", "deliver"}]
      /\ batch \in [Workers -> SUBSET Digests]
      /\ digest \in [Digests -> DigestType]
  BY DEF TypeOK
<1>0. \A v \in Workers : batch[v] # {} => pc[v] = "reserve" /\ holder = v
  BY DEF LockInv, Planning
<1>1. CASE StartCycle(w)
  <2>1. holder = None /\ batch' = batch
    BY <1>1 DEF StartCycle, LockFree
  <2>2. \A v \in Workers : batch[v] = {}
    BY <1>0, <2>1, NoneAssumption
  <2> QED BY <2>1, <2>2 DEF BatchInv
<1>2. CASE Prepare(w)
  <2>1. pc[w] = "last" /\ batch' = batch
    BY <1>2 DEF Prepare
  <2>2. \A v \in Workers : batch[v] = {}
    BY <1>0, <2>1 DEF LockInv, Planning
  <2> QED BY <2>1, <2>2 DEF BatchInv
<1>3. CASE ClaimDigests(w)
  <2>1. PICK B \in Batches({k \in Digests : Due(digest[k])}) :
          /\ batch' = [batch EXCEPT ![w] = B]
          /\ digest' = [k \in Digests |-> IF k \in B THEN Claimed(digest[k]) ELSE digest[k]]
    BY <1>3 DEF ClaimDigests
  <2>2. B \subseteq Digests
    BY <2>1 DEF Batches
  <2>3. \A k \in B : digest'[k].status = "processing"
    <3>1. \A k \in B : digest[k] \in DigestType /\ digest'[k] = Claimed(digest[k])
      BY <2>1, <2>2, <1>t
    <3> QED BY <3>1 DEF Claimed, DigestType
  <2>4. \A v \in Workers \ {w} : batch[v] = {}
    BY <1>0, <1>3 DEF ClaimDigests, LockInv, Planning
  <2>5. batch'[w] = B /\ \A v \in Workers \ {w} : batch'[v] = {}
    BY <2>1, <2>4, <1>t
  <2> QED BY <2>3, <2>5 DEF BatchInv
<1>4. ASSUME NEW k \in Digests, SkipDelivery(w, k) PROVE BatchInv'
  <2>1. \A v \in Workers : batch'[v] \subseteq batch[v]
    BY <1>4, <1>t DEF SkipDelivery
  <2>2. digest' = digest
    BY <1>4 DEF SkipDelivery, jobVars
  <2> QED BY <2>1, <2>2, BatchFrame
<1>5. ASSUME NEW k \in Digests, ReserveDelivery(w, k) PROVE BatchInv'
  <2>1. \A v \in Workers : batch'[v] \subseteq batch[v]
    BY <1>5, <1>t DEF ReserveDelivery
  <2>2. \A q \in Digests : digest'[q].status = digest[q].status
    BY <1>5, <1>t DEF ReserveDelivery, DigestType
  <2> QED BY <2>1, <2>2, BatchFrame
<1>6. CASE UNCHANGED <<batch, digest>>
  BY <1>6 DEF BatchInv
<1> QED
  BY <1>1, <1>2, <1>3, <1>4, <1>5, <1>6
  DEF Plan, ClaimParents, CheckParent, EnqueueRecipient, FinishParent, Unlock, jobVars, workerVars

\* A worker that ends a digest that another has claimed since does not put it
\* back in the queue.
LEMMA BatchOther ==
  ASSUME TypeOK, BatchInv, Environment \/ \E w \in Workers : Deliver(w) \/ Fault(w)
  PROVE  BatchInv'
<1>t. batch \in [Workers -> SUBSET Digests] /\ digest \in [Digests -> DigestType]
  BY DEF TypeOK
<1>1. ASSUME NEW w \in Workers, NEW k \in Digests, MarkDone(w, k) \/ MarkFailed(w, k)
      PROVE  BatchInv'
  <2>1. batch' = batch
    BY <1>1 DEF MarkDone, MarkFailed
  <2>2. \A q \in Digests : digest'[q].status \in {digest[q].status, "done", "failed", "dead"}
    BY <1>1, <1>t DEF MarkDone, MarkFailed, AfterFailure, DigestType
  <2> QED BY <2>1, <2>2, BatchFrame
<1>2. ASSUME NEW k \in Digests, DigestLockExpires(k) PROVE BatchInv'
  <2>1. batch' = batch
    BY <1>2 DEF DigestLockExpires, workerVars
  <2>2. \A q \in Digests : digest'[q].status = digest[q].status
    BY <1>2, <1>t DEF DigestLockExpires, DigestType
  <2> QED BY <2>1, <2>2, BatchFrame
<1>3. ASSUME NEW w \in Workers, Crash(w) PROVE BatchInv'
  <2>1. \A v \in Workers : batch'[v] \subseteq batch[v]
    BY <1>3, <1>t DEF Crash
  <2>2. digest' = digest
    BY <1>3 DEF Crash, jobVars
  <2> QED BY <2>1, <2>2, BatchFrame
<1>4. CASE UNCHANGED <<batch, digest>>
  BY <1>4 DEF BatchInv
<1> QED
  BY <1>1, <1>2, <1>3, <1>4
  DEF Environment, LockExpiry, Tick, Publish, EditValidity, Withdraw, Reschedule, DeleteInbox,
      ParentLockExpires, Deliver, Push, Return, Fault, FailParent, PushRaises, jobVars, workerVars

LEMMA BatchCorrect == Spec => []BatchInv
<1>1. Init => BatchInv
  BY DEF Init, BatchInv
<1>2. TypeOK /\ LockInv /\ BatchInv /\ [Next]_vars => BatchInv'
  <2>1. CASE UNCHANGED vars
    BY <2>1 DEF BatchInv, vars, jobVars, workerVars
  <2>2. TypeOK /\ LockInv /\ BatchInv /\ Next => BatchInv'
    BY BatchPlan, BatchOther DEF Next
  <2> QED BY <2>1, <2>2
<1> QED BY <1>1, <1>2, TypeCorrect, LockCorrect, PTL DEF Spec

\* Planning is exclusive: no two workers plan, claim or reserve at the same
\* time; parents in hand stay in processing, and no digest in hand is put back
\* in the queue, though its status may be overwritten by a worker of before.
THEOREM PlanningIsExclusive == Spec => []PlanningExclusive
<1>1. LockInv /\ BatchInv => PlanningExclusive
  BY DEF LockInv, BatchInv, Planning, PlanningExclusive
<1>2. QED BY <1>1, LockCorrect, BatchCorrect, PTL

-----------------------------------------------------------------------------
(* At most one push.                                                       *)

\* A worker that may push, or has tried to, holds a reserved digest; of the
\* workers that may still push a digest there is one, and it was not pushed.
PushInv ==
  /\ AtMostOnePush
  /\ \A w \in Workers, k \in Digests :
       /\ out[w][k].step = "push" =>
            /\ pushes[k] = 0
            /\ \A v \in Workers \ {w} : out[v][k].step # "push"
       /\ out[w][k].step \in {"push", "sent", "raised"} => digest[k].started # Never
  /\ \A k \in Digests : digest[k].status = "none" =>
       digest[k].started = Never /\ \A w \in Workers : k \notin batch[w]

\* What a step must respect for PushInv to survive it.
LEMMA PushFrame ==
  ASSUME TypeOK, PushInv, UNCHANGED pushes,
         \A w \in Workers, k \in Digests :
           /\ out'[w][k].step = "push" => out[w][k].step = "push"
           /\ out'[w][k].step \in {"push", "sent", "raised"}
                => out[w][k].step \in {"push", "sent", "raised"},
         \A k \in Digests :
           /\ digest[k].started # Never => digest'[k].started # Never
           /\ digest'[k].status = "none" =>
                digest'[k].started = Never /\ \A w \in Workers : k \notin batch'[w]
  PROVE  PushInv'
  BY DEF PushInv, AtMostOnePush

\* Status changes of rows leave reservations alone.
LEMMA ReleasedKeeps ==
  ASSUME NEW job \in DigestType
  PROVE  /\ Released(job).started = job.started
         /\ Released(job).status = "none" => job.status = "none"
         /\ Claimed(job).started = job.started
         /\ Claimed(job).status = "processing"
  BY DEF Released, Claimed, DigestType, AfterFailure

\* Planning never forgets a reservation, nor gives one to a digest without a row.
LEMMA PlannedKeeps ==
  ASSUME TypeOK, PushInv, NEW k \in Digests
  PROVE  /\ digest[k].started # Never => PlannedDigest(k).started # Never
         /\ PlannedDigest(k).status = "none" =>
              PlannedDigest(k).started = Never /\ digest[k].status = "none"
<1>1. digest[k] \in DigestType
  BY DEF TypeOK
<1>2. digest[k].status = "none" => digest[k].started = Never
  BY DEF PushInv
<1>3. CASE k \in RolledOver
  BY <1>1, <1>3 DEF PlannedDigest, RolledOver, DigestType
<1>4. CASE k \notin RolledOver
  BY <1>1, <1>2, <1>4 DEF PlannedDigest, HasToday, NoDigest
<1>5. QED BY <1>3, <1>4

\* Nothing has been pushed before the first pass.
LEMMA PushInit == Init => PushInv
  BY DEF Init, PushInv, AtMostOnePush, NoDigest, Idle

\* Every step keeps pushes in agreement with the reservations.
LEMMA PushNext ==
  ASSUME TypeOK, PushInv, Next
  PROVE  PushInv'
<1>t. /\ digest \in [Digests -> DigestType]
      /\ out \in [Workers -> OutType]
      /\ now \in [Workers -> Ticks]
      /\ batch \in [Workers -> SUBSET Digests]
      /\ pushes \in [Digests -> Nat]
  BY DEF TypeOK, OutType
<1>n. \A k \in Digests : digest[k].status = "none" =>
        digest[k].started = Never /\ \A w \in Workers : k \notin batch[w]
  BY DEF PushInv
<1>1. CASE Environment
  <2>1. UNCHANGED <<pushes, out, batch>>
    BY <1>1 DEF Environment, LockExpiry, Tick, Publish, EditValidity, Withdraw, Reschedule,
                DeleteInbox, ParentLockExpires, DigestLockExpires, workerVars, outsideVars
  <2>2. ASSUME NEW k \in Digests
        PROVE  digest'[k].started = digest[k].started /\ digest'[k].status = digest[k].status
    <3>1. CASE UNCHANGED digest
      BY <3>1
    <3>2. ASSUME NEW l \in Digests, DigestLockExpires(l)
          PROVE  digest'[k].started = digest[k].started /\ digest'[k].status = digest[k].status
      BY <3>2, <1>t DEF DigestLockExpires, DigestType
    <3>3. QED
      BY <1>1, <3>1, <3>2
         DEF Environment, LockExpiry, Tick, Publish, EditValidity, Withdraw, Reschedule,
             DeleteInbox, ParentLockExpires, jobVars
  <2>3. QED BY <1>n, <2>1, <2>2, PushFrame
<1>2. ASSUME NEW w \in Workers, Plan(w) PROVE PushInv'
  <2>1. CASE StartCycle(w)
    <3>1. UNCHANGED <<pushes, out, batch>>
      BY <2>1 DEF StartCycle, outsideVars
    <3>2. \A k \in Digests : digest'[k] = Released(digest[k])
      BY <2>1 DEF StartCycle
    <3>3. QED BY <1>n, <1>t, <3>1, <3>2, PushFrame, ReleasedKeeps
  <2>2. CASE Prepare(w)
    <3>1. UNCHANGED <<pushes, out, batch>>
      BY <2>2 DEF Prepare, outsideVars
    <3>2. \A k \in Digests : digest'[k] = PlannedDigest(k) \/ digest'[k] = digest[k]
      BY <2>2 DEF Prepare
    <3>3. QED BY <1>n, <3>1, <3>2, PushFrame, PlannedKeeps
  <2>3. CASE ClaimDigests(w)
    <3>1. UNCHANGED <<pushes, out>>
      BY <2>3 DEF ClaimDigests, outsideVars
    <3>2. \A k \in Digests :
            \/ digest'[k] = Claimed(digest[k])
            \/ /\ digest'[k] = digest[k]
               /\ \A v \in Workers : k \in batch'[v] => k \in batch[v]
      <4>1. PICK B \in SUBSET Digests :
              /\ batch' = [batch EXCEPT ![w] = B]
              /\ digest' = [k \in Digests |->
                              IF k \in B THEN Claimed(digest[k]) ELSE digest[k]]
        BY <2>3 DEF ClaimDigests, Batches
      <4>2. QED BY <4>1, <1>t
    <3>3. QED BY <1>n, <1>t, <3>1, <3>2, PushFrame, ReleasedKeeps
  <2>4. ASSUME NEW k \in Digests, SkipDelivery(w, k) PROVE PushInv'
    <3>1. /\ UNCHANGED <<pushes, digest>>
          /\ \A v \in Workers : batch'[v] \subseteq batch[v]
      BY <2>4, <1>t DEF SkipDelivery, outsideVars, jobVars
    <3>2. /\ out'[w][k].step = "skip"
          /\ \A v \in Workers, l \in Digests :
               v # w \/ l # k => out'[v][l] = out[v][l]
      BY <2>4, <1>t DEF SkipDelivery, OutType
    <3>3. QED BY <1>n, <3>1, <3>2, PushFrame
  <2>5. ASSUME NEW k \in Digests, ReserveDelivery(w, k) PROVE PushInv'
    <3>1. /\ digest[k].started = Never
          /\ UNCHANGED pushes
      BY <2>5 DEF ReserveDelivery, Unattempted
    <3>2. digest'[k].started = now[w] /\ now[w] # Never
      BY <2>5, <1>t, BoundsAssumption DEF ReserveDelivery, DigestType, Ticks, LastTick, Never
    <3>3. \A l \in Digests \ {k} : digest'[l] = digest[l]
      BY <2>5, <1>t DEF ReserveDelivery
    <3>4. digest'[k].status = digest[k].status
      BY <2>5, <1>t DEF ReserveDelivery, DigestType
    <3>5. \A v \in Workers, l \in Digests : v # w \/ l # k => out'[v][l] = out[v][l]
      BY <2>5, <1>t DEF ReserveDelivery, OutType
    <3>6. pushes[k] = 0
      <4>1. pushes[k] \in Nat
        BY <1>t
      <4>2. pushes[k] <= 1 /\ pushes[k] # 1
        BY <3>1 DEF PushInv, AtMostOnePush
      <4>3. QED BY <4>1, <4>2
    <3>7. \A v \in Workers : out[v][k].step \notin {"push", "sent", "raised"}
      BY <3>1 DEF PushInv
    <3>9. digest[k].status # "none"
      BY <2>5, <1>n DEF ReserveDelivery
    <3>10. \A v \in Workers : batch'[v] \subseteq batch[v]
      BY <2>5, <1>t DEF ReserveDelivery
    <3>8. QED
      BY <3>1, <3>2, <3>3, <3>4, <3>5, <3>6, <3>7, <3>9, <3>10, <1>n, <1>t DEF PushInv, AtMostOnePush
  <2>6. CASE UNCHANGED <<pushes, out, batch, digest>>
    BY <1>n, <2>6, PushFrame
  <2>7. QED
    BY <1>2, <2>1, <2>2, <2>3, <2>4, <2>5, <2>6
       DEF Plan, ClaimParents, CheckParent, EnqueueRecipient, FinishParent, Unlock,
           outsideVars, jobVars, workerVars
<1>3. ASSUME NEW w \in Workers, Deliver(w) PROVE PushInv'
  <2>1. ASSUME NEW k \in Digests, Push(w, k) PROVE PushInv'
    <3>1. /\ out[w][k].step = "push"
          /\ UNCHANGED <<digest, batch>>
          /\ pushes' = [pushes EXCEPT ![k] = @ + 1]
      BY <2>1 DEF Push, jobVars
    <3>2. /\ out'[w][k].step = "sent"
          /\ \A v \in Workers, l \in Digests :
               v # w \/ l # k => out'[v][l] = out[v][l]
      BY <2>1, <1>t DEF Push, OutType
    <3>3. /\ pushes[k] = 0
          /\ digest[k].started # Never
          /\ \A v \in Workers \ {w} : out[v][k].step # "push"
      BY <3>1 DEF PushInv
    <3>4. pushes'[k] = 1 /\ \A l \in Digests \ {k} : pushes'[l] = pushes[l]
      BY <3>1, <3>3, <1>t
    <3>5. QED BY <3>1, <3>2, <3>3, <3>4, <1>n DEF PushInv, AtMostOnePush
  <2>2. ASSUME NEW k \in Digests, MarkDone(w, k) \/ MarkFailed(w, k) PROVE PushInv'
    <3>1. UNCHANGED <<pushes, batch>>
      BY <2>2 DEF MarkDone, MarkFailed, outsideVars
    <3>2. /\ out'[w][k].step = "idle"
          /\ \A v \in Workers, l \in Digests :
               v # w \/ l # k => out'[v][l] = out[v][l]
      BY <2>2, <1>t DEF MarkDone, MarkFailed, OutType, Idle
    <3>3. \A l \in Digests \ {k} : digest'[l] = digest[l]
      BY <2>2, <1>t DEF MarkDone, MarkFailed
    <3>4. digest'[k].started = digest[k].started /\ digest'[k].status # "none"
      BY <2>2, <1>t DEF MarkDone, MarkFailed, DigestType, AfterFailure
    <3>5. QED BY <3>1, <3>2, <3>3, <3>4, <1>n, PushFrame
  <2>3. CASE Return(w)
    <3>1. UNCHANGED <<pushes, out, batch, digest>>
      BY <2>3 DEF Return, jobVars, outsideVars
    <3>2. QED BY <3>1, <1>n, PushFrame
  <2>4. QED BY <1>3, <2>1, <2>2, <2>3 DEF Deliver
<1>4. ASSUME NEW w \in Workers, Fault(w) PROVE PushInv'
  <2>1. CASE FailParent(w)
    <3>1. UNCHANGED <<pushes, out, batch, digest>>
      BY <2>1 DEF FailParent, outsideVars
    <3>2. QED BY <3>1, <1>n, PushFrame
  <2>2. ASSUME NEW k \in Digests, PushRaises(w, k) PROVE PushInv'
    <3>1. UNCHANGED <<pushes, batch, digest>> /\ out[w][k].step \in {"push", "sent"}
      BY <2>2 DEF PushRaises, outsideVars, jobVars
    <3>2. /\ out'[w][k].step = "raised"
          /\ \A v \in Workers, l \in Digests :
               v # w \/ l # k => out'[v][l] = out[v][l]
      BY <2>2, <1>t DEF PushRaises, OutType
    <3>3. QED BY <3>1, <3>2, <1>n, PushFrame
  <2>3. CASE Crash(w)
    <3>1. /\ UNCHANGED <<pushes, digest>>
          /\ \A v \in Workers : batch'[v] \subseteq batch[v]
      BY <2>3, <1>t DEF Crash, outsideVars, jobVars
    <3>2. /\ \A k \in Digests : out'[w][k].step = "idle"
          /\ \A v \in Workers \ {w} : out'[v] = out[v]
      BY <2>3, <1>t DEF Crash, Idle
    <3>3. QED BY <3>1, <3>2, <1>n, PushFrame
  <2>4. QED BY <1>4, <2>1, <2>2, <2>3 DEF Fault
<1>5. QED BY <1>1, <1>2, <1>3, <1>4 DEF Next

\* The agreement of pushes and reservations is invariant.
LEMMA PushCorrect == Spec => []PushInv
<1>1. TypeOK /\ PushInv /\ [Next]_vars => PushInv'
  <2>1. CASE UNCHANGED vars
    BY <2>1 DEF PushInv, AtMostOnePush, vars, jobVars, outsideVars, workerVars
  <2>2. QED BY <2>1, PushNext
<1>2. QED BY <1>1, PushInit, TypeCorrect, PTL DEF Spec

\* No digest is pushed twice, nor pushed without a committed reservation,
\* whatever workers overlap, crash, retry or outlive their locks.
THEOREM PushedAtMostOnce == Spec => []AtMostOnePush
<1>1. PushInv => AtMostOnePush
  BY DEF PushInv
<1>2. QED BY <1>1, PushCorrect, PTL

-----------------------------------------------------------------------------
(* Ownership of events.                                                    *)

\* A delivery of the digest may still be reserved.
Reservable(k) ==
  /\ digest[k].started = Never
  /\ \/ digest[k].status \in Claimable \union {"processing"}
     \/ \E w \in Workers : k \in batch[w]

\* A digest announces some of its events' flyers once it is reserved, and an
\* event belongs to the digest that consumed it while that one is reserved
\* or may be.
OwnInv ==
  \A k \in Digests :
    /\ digest[k].flyers \subseteq digest[k].events
    /\ digest[k].items \subseteq digest[k].flyers
    /\ digest[k].started = Never => digest[k].items = {}
    /\ Reservable(k) \/ digest[k].started # Never =>
         \A f \in digest[k].events :
           event[<<k[1], f>>].status = "done" /\ event[<<k[1], f>>].by = k[2]

\* No digest has events before the first pass.
LEMMA OwnInit == Init => OwnInv
  BY DEF Init, OwnInv, NoDigest, Reservable, Claimable

\* What a step that consumes no event must respect for OwnInv to survive it.
LEMMA OwnFrame ==
  ASSUME TypeOK, OwnInv,
         \A e \in Events : event[e].status = "done" => event'[e] = event[e],
         \A k \in Digests :
           /\ digest'[k].flyers = digest[k].flyers
           /\ digest'[k].events = digest[k].events
           /\ digest'[k].started = digest[k].started
           /\ digest'[k].items = digest[k].items
           /\ Reservable(k)' => Reservable(k)
  PROVE  OwnInv'
<1> SUFFICES ASSUME NEW k \in Digests,
                    Reservable(k)' \/ digest'[k].started # Never,
                    NEW f \in digest'[k].events
             PROVE  event'[<<k[1], f>>].status = "done" /\ event'[<<k[1], f>>].by = k[2]
  BY DEF OwnInv
<1>1. event[<<k[1], f>>].status = "done" /\ event[<<k[1], f>>].by = k[2]
  BY DEF OwnInv
<1>2. k[1] \in Users /\ f \in Flyers
  <2>1. digest[k].events \subseteq Flyers /\ digest'[k].events = digest[k].events
    BY DEF TypeOK, DigestType
  <2>2. QED BY <2>1 DEF Digests
<1>3. QED BY <1>1, <1>2 DEF Events

\* Preparing the day's digests gives each event to the digest that consumes it.
LEMMA OwnPrepare ==
  ASSUME TypeOK, LockInv, OwnInv, NEW w \in Workers, Prepare(w)
  PROVE  OwnInv'
<1>t. /\ digest \in [Digests -> DigestType]
      /\ event \in [Events -> EventType]
      /\ batch \in [Workers -> SUBSET Digests]
  BY DEF TypeOK
<1>1. batch' = batch /\ \A v \in Workers : batch[v] = {}
  BY DEF Prepare, LockInv, Planning
<1>2. CASE ~IsOpen(clock)
  <2>1. UNCHANGED <<event, digest>>
    BY <1>2 DEF Prepare
  <2>2. QED BY <1>1, <2>1, OwnFrame DEF Reservable
<1>3. CASE IsOpen(clock)
  <2>1. /\ \A e \in Events : event'[e] = PlannedEvent(e)
        /\ \A k \in Digests : digest'[k] = PlannedDigest(k)
    BY <1>3 DEF Prepare
  <2>2. ASSUME NEW l \in RolledOver, NEW f \in digest[l].events
        PROVE  event[<<l[1], f>>].status = "done" /\ event[<<l[1], f>>].by = l[2]
    BY DEF OwnInv, RolledOver, Reservable
  <2>3. ASSUME NEW k \in Digests
        PROVE  /\ digest'[k].flyers \subseteq digest'[k].events
               /\ digest'[k].items \subseteq digest'[k].flyers
               /\ digest'[k].started = Never => digest'[k].items = {}
    <3>1. digest[k] \in DigestType
      BY <1>t
    <3>2. /\ digest[k].flyers \subseteq digest[k].events
          /\ digest[k].items \subseteq digest[k].flyers
          /\ digest[k].started = Never => digest[k].items = {}
      BY DEF OwnInv
    <3>3. Items(k[1]) \subseteq Collected(k[1])
      BY DEF Items
    <3>4. \/ digest'[k] = digest[k]
          \/ digest'[k] = [digest[k] EXCEPT !.status = "dead"]
          \/ digest'[k] = [NoDigest EXCEPT !.status = "pending", !.avail = clock,
                              !.flyers = Items(k[1]), !.events = Collected(k[1])]
      BY <2>1 DEF PlannedDigest
    <3>5. CASE digest'[k] = [NoDigest EXCEPT !.status = "pending", !.avail = clock,
                               !.flyers = Items(k[1]), !.events = Collected(k[1])]
      BY <3>3, <3>5 DEF NoDigest
    <3>6. CASE digest'[k] = digest[k] \/ digest'[k] = [digest[k] EXCEPT !.status = "dead"]
      BY <3>1, <3>2, <3>6 DEF DigestType
    <3>7. QED BY <3>4, <3>5, <3>6
  <2>4. ASSUME NEW k \in Digests,
               Reservable(k)' \/ digest'[k].started # Never,
               NEW f \in digest'[k].events
        PROVE  event'[<<k[1], f>>].status = "done" /\ event'[<<k[1], f>>].by = k[2]
    <3>1. digest[k] \in DigestType /\ k[1] \in Users
      BY <1>t DEF Digests
    <3>2. digest'[k].events \subseteq Flyers
      BY <2>1, PlannedType DEF DigestType
    <3>3. <<k[1], f>> \in Events
      BY <3>1, <3>2 DEF Events
    <3>4. event'[<<k[1], f>>] = PlannedEvent(<<k[1], f>>) /\ event[<<k[1], f>>] \in EventType
      BY <1>t, <2>1, <3>3
    <3>5. k \notin RolledOver
      <4>1. ASSUME k \in RolledOver PROVE FALSE
        <5>1. digest'[k].status = "dead" /\ digest'[k].started = Never
          BY <2>1, <3>1, <4>1 DEF PlannedDigest, RolledOver, DigestType
        <5>2. QED BY <1>1, <2>4, <5>1 DEF Reservable, Claimable
      <4>2. QED BY <4>1
    <3>6. CASE k = Today(k[1]) /\ ~HasToday(k[1]) /\ Items(k[1]) # {}
      <4>1. digest'[k].events = Collected(k[1])
        BY <2>1, <3>5, <3>6 DEF PlannedDigest, NoDigest
      <4>2. k[2] = Day(clock)
        BY <3>6 DEF Today
      <4>3. PlannedEvent(<<k[1], f>>) =
              [event[<<k[1], f>>] EXCEPT !.status = "done", !.by = Day(clock)]
        BY <3>6, <4>1 DEF PlannedEvent
      <4>4. QED BY <3>4, <4>2, <4>3 DEF EventType
    <3>7. CASE ~(k = Today(k[1]) /\ ~HasToday(k[1]) /\ Items(k[1]) # {})
      <4>1. digest'[k] = digest[k]
        BY <2>1, <3>5, <3>7 DEF PlannedDigest
      <4>2. event[<<k[1], f>>].status = "done" /\ event[<<k[1], f>>].by = k[2]
        BY <1>1, <2>4, <4>1 DEF OwnInv, Reservable
      <4>3. <<k[1], f>> \notin Restored
        <5>1. ASSUME NEW l \in RolledOver, l[1] = k[1], f \in digest[l].events
              PROVE  FALSE
          <6>1. l[2] = k[2]
            BY <2>2, <4>2, <5>1
          <6>2. l = k
            BY <5>1, <6>1 DEF RolledOver, Digests
          <6>3. QED BY <3>5, <6>2
        <5>2. QED BY <5>1 DEF Restored
      <4>4. f \notin Collected(k[1])
        BY <4>2, <4>3 DEF Collected
      <4>5. QED BY <3>4, <4>2, <4>4 DEF PlannedEvent
    <3>8. QED BY <3>6, <3>7
  <2>5. QED BY <2>3, <2>4 DEF OwnInv
<1>4. QED BY <1>2, <1>3

\* Every step of a planning pass keeps the ownership of events.
LEMMA OwnPlan ==
  ASSUME TypeOK, LockInv, OwnInv, NEW w \in Workers, Plan(w)
  PROVE  OwnInv'
<1>t. /\ digest \in [Digests -> DigestType]
      /\ event \in [Events -> EventType]
      /\ batch \in [Workers -> SUBSET Digests]
      /\ now \in [Workers -> Ticks]
  BY DEF TypeOK
<1>1. CASE StartCycle(w)
  <2>1. UNCHANGED <<event, batch>> /\ \A k \in Digests : digest'[k] = Released(digest[k])
    BY <1>1 DEF StartCycle
  <2>2. ASSUME NEW k \in Digests
        PROVE  /\ digest'[k].flyers = digest[k].flyers
               /\ digest'[k].events = digest[k].events
               /\ digest'[k].started = digest[k].started
               /\ digest'[k].items = digest[k].items
               /\ Reservable(k)' => Reservable(k)
    BY <1>t, <2>1 DEF Released, DigestType, Reservable, Claimable, AfterFailure
  <2>3. QED BY <2>1, <2>2, OwnFrame
<1>2. CASE Prepare(w)
  BY <1>2, OwnPrepare
<1>3. CASE ClaimDigests(w)
  <2>1. PICK B \in SUBSET {k \in Digests : Due(digest[k])} :
          /\ batch' = [batch EXCEPT ![w] = B]
          /\ digest' = [k \in Digests |->
                          IF k \in B THEN Claimed(digest[k]) ELSE digest[k]]
    BY <1>3 DEF ClaimDigests, Batches
  <2>2. UNCHANGED event
    BY <1>3 DEF ClaimDigests
  <2>3. ASSUME NEW k \in Digests
        PROVE  /\ digest'[k].flyers = digest[k].flyers
               /\ digest'[k].events = digest[k].events
               /\ digest'[k].started = digest[k].started
               /\ digest'[k].items = digest[k].items
               /\ Reservable(k)' => Reservable(k)
    <3>1. CASE k \in B
      <4>1. digest[k].status \in Claimable
        BY <2>1, <3>1 DEF Due
      <4>2. digest'[k] = Claimed(digest[k]) /\ digest[k] \in DigestType
        BY <1>t, <2>1, <3>1
      <4>3. /\ digest'[k].flyers = digest[k].flyers
            /\ digest'[k].events = digest[k].events
            /\ digest'[k].started = digest[k].started
            /\ digest'[k].items = digest[k].items
        BY <4>2 DEF Claimed, DigestType
      <4>4. QED BY <4>1, <4>3 DEF Reservable
    <3>2. CASE k \notin B
      BY <1>t, <2>1, <3>2 DEF Reservable
    <3>3. QED BY <3>1, <3>2
  <2>4. QED BY <2>2, <2>3, OwnFrame
<1>4. ASSUME NEW k \in Digests, SkipDelivery(w, k) PROVE OwnInv'
  <2>1. UNCHANGED <<event, digest>> /\ \A v \in Workers : batch'[v] \subseteq batch[v]
    BY <1>4, <1>t DEF SkipDelivery, jobVars
  <2>2. QED BY <2>1, OwnFrame DEF Reservable
<1>5. ASSUME NEW k \in Digests, ReserveDelivery(w, k) PROVE OwnInv'
  <2> DEFINE items == {f \in digest[k].flyers : Eligible(f, now[w])}
  <2>1. /\ UNCHANGED event
        /\ \A v \in Workers : batch'[v] \subseteq batch[v]
        /\ \A l \in Digests \ {k} : digest'[l] = digest[l]
    BY <1>5, <1>t DEF ReserveDelivery
  <2>2. /\ digest'[k].flyers = digest[k].flyers
        /\ digest'[k].events = digest[k].events
        /\ digest'[k].started = now[w]
        /\ digest'[k].items = items
    BY <1>5, <1>t DEF ReserveDelivery, DigestType
  <2>3. now[w] # Never
    BY <1>t, BoundsAssumption DEF Ticks, LastTick, Never
  <2>4. Reservable(k)
    BY <1>5 DEF ReserveDelivery, Unattempted, Reservable
  <2>5. \A l \in Digests \ {k} : Reservable(l)' => Reservable(l)
    BY <2>1 DEF Reservable
  <2>6. QED BY <2>1, <2>2, <2>3, <2>4, <2>5 DEF OwnInv
<1>6. ASSUME NEW u \in Users, EnqueueRecipient(w, u) PROVE OwnInv'
  <2>1. UNCHANGED <<digest, batch>>
    BY <1>6 DEF EnqueueRecipient, workerVars
  <2>2. \A e \in Events : event[e].status = "done" => event'[e] = event[e]
    BY <1>6, <1>t DEF EnqueueRecipient
  <2>3. QED BY <2>1, <2>2, OwnFrame DEF Reservable
<1>7. CASE UNCHANGED <<event, digest, batch>>
  BY <1>7, OwnFrame DEF Reservable
<1>8. QED
  BY <1>1, <1>2, <1>3, <1>4, <1>5, <1>6, <1>7
     DEF Plan, ClaimParents, CheckParent, FinishParent, Unlock, jobVars

\* Every step outside planning keeps the ownership of events.
LEMMA OwnOther ==
  ASSUME TypeOK, PushInv, OwnInv, Environment \/ \E w \in Workers : Deliver(w) \/ Fault(w)
  PROVE  OwnInv'
<1>t. /\ digest \in [Digests -> DigestType]
      /\ batch \in [Workers -> SUBSET Digests]
  BY DEF TypeOK
<1>1. CASE UNCHANGED <<event, digest, batch>>
  BY <1>1, OwnFrame DEF Reservable
<1>2. ASSUME NEW l \in Digests, DigestLockExpires(l) PROVE OwnInv'
  <2>1. UNCHANGED <<event, batch>>
    BY <1>2 DEF DigestLockExpires, workerVars
  <2>2. ASSUME NEW k \in Digests
        PROVE  /\ digest'[k].flyers = digest[k].flyers
               /\ digest'[k].events = digest[k].events
               /\ digest'[k].started = digest[k].started
               /\ digest'[k].items = digest[k].items
               /\ digest'[k].status = digest[k].status
    BY <1>2, <1>t DEF DigestLockExpires, DigestType
  <2>3. QED BY <2>1, <2>2, OwnFrame DEF Reservable
<1>3. ASSUME NEW w \in Workers, NEW l \in Digests, MarkDone(w, l) \/ MarkFailed(w, l)
      PROVE  OwnInv'
  <2>1. UNCHANGED <<event, batch>>
    BY <1>3 DEF MarkDone, MarkFailed
  <2>2. ASSUME NEW k \in Digests
        PROVE  /\ digest'[k].flyers = digest[k].flyers
               /\ digest'[k].events = digest[k].events
               /\ digest'[k].started = digest[k].started
               /\ digest'[k].items = digest[k].items
    BY <1>3, <1>t DEF MarkDone, MarkFailed, DigestType
  <2>3. \A k \in Digests \ {l} : digest'[k].status = digest[k].status
    BY <1>3, <1>t DEF MarkDone, MarkFailed
  <2>4. CASE MarkDone(w, l)
    <3>1. digest'[l].status = "done"
      BY <2>4, <1>t DEF MarkDone, DigestType
    <3>2. QED BY <2>1, <2>2, <2>3, <3>1, OwnFrame DEF Reservable, Claimable
  <2>5. CASE MarkFailed(w, l)
    <3>1. digest[l].started # Never
      BY <2>5 DEF MarkFailed, PushInv
    <3>2. QED BY <2>1, <2>2, <2>3, <3>1, OwnFrame DEF Reservable
  <2>6. QED BY <1>3, <2>4, <2>5
<1>4. ASSUME NEW w \in Workers, Crash(w) PROVE OwnInv'
  <2>1. UNCHANGED <<event, digest>> /\ \A v \in Workers : batch'[v] \subseteq batch[v]
    BY <1>4, <1>t DEF Crash, jobVars
  <2>2. QED BY <2>1, OwnFrame DEF Reservable
<1>5. CASE Environment
  BY <1>1, <1>2, <1>5
     DEF Environment, LockExpiry, Tick, Publish, EditValidity, Withdraw, Reschedule,
         DeleteInbox, ParentLockExpires, jobVars, workerVars
<1>6. ASSUME NEW w \in Workers, Deliver(w) PROVE OwnInv'
  BY <1>1, <1>3, <1>6 DEF Deliver, Push, Return, jobVars
<1>7. ASSUME NEW w \in Workers, Fault(w) PROVE OwnInv'
  BY <1>1, <1>4, <1>7 DEF Fault, FailParent, PushRaises, jobVars
<1>8. QED BY <1>5, <1>6, <1>7

\* The ownership of events is invariant.
LEMMA OwnCorrect == Spec => []OwnInv
<1>1. TypeOK /\ LockInv /\ PushInv /\ OwnInv /\ [Next]_vars => OwnInv'
  <2>1. CASE UNCHANGED vars
    BY <2>1 DEF OwnInv, Reservable, vars, jobVars, workerVars
  <2>2. TypeOK /\ LockInv /\ PushInv /\ OwnInv /\ Next => OwnInv'
    BY OwnPlan, OwnOther DEF Next
  <2>3. QED BY <2>1, <2>2
<1>2. QED BY <1>1, OwnInit, TypeCorrect, LockCorrect, PushCorrect, PTL DEF Spec

\* A flyer is announced to a user in at most one summary: the digests of two
\* days that were both delivered have no flyer in common.
THEOREM AnnouncedOnce == Spec => []NoFlyerAnnouncedTwice
<1>1. OwnInv => NoFlyerAnnouncedTwice
  <2> SUFFICES ASSUME OwnInv, NEW u \in Users, NEW c \in Days, NEW d \in Days, c # d,
                      NEW f \in digest[<<u, c>>].items, f \in digest[<<u, d>>].items
               PROVE  FALSE
    BY DEF NoFlyerAnnouncedTwice
  <2>1. <<u, c>> \in Digests /\ <<u, d>> \in Digests
    BY DEF Digests
  <2>2. event[<<u, f>>].by = c
    BY <2>1 DEF OwnInv
  <2>3. event[<<u, f>>].by = d
    BY <2>1 DEF OwnInv
  <2>4. QED BY <2>2, <2>3
<1>2. QED BY <1>1, OwnCorrect, PTL

-----------------------------------------------------------------------------
(* Superseded digests.                                                     *)

\* A later day's digest took the place of this one, whose delivery nobody had
\* tried and which had attempts left.
Superseded(k) ==
  /\ digest[k].status = "dead"
  /\ digest[k].started = Never
  /\ digest[k].attempts < MaxAttempts

\* What a step outside planning must respect for SupersededReleasesEvents.
LEMMA SupersededFrame ==
  ASSUME TypeOK, SupersededReleasesEvents,
         \A e \in Events : event'[e].by \in {event[e].by, Never},
         \A k \in Digests :
           /\ digest'[k].events = digest[k].events
           /\ Superseded(k)' => Superseded(k)
  PROVE  SupersededReleasesEvents'
<1> SUFFICES ASSUME NEW k \in Digests, NEW f \in digest'[k].events, Superseded(k)'
             PROVE  event'[<<k[1], f>>].by # k[2]
  BY DEF SupersededReleasesEvents, Superseded
<1>1. f \in digest[k].events /\ Superseded(k)
  OBVIOUS
<1>2. event[<<k[1], f>>].by # k[2]
  BY <1>1 DEF SupersededReleasesEvents, Superseded
<1>3. <<k[1], f>> \in Events
  BY <1>1 DEF TypeOK, DigestType, Digests, Events
<1>4. Never # k[2]
  BY BoundsAssumption DEF Digests, Days, Never
<1> QED BY <1>2, <1>3, <1>4

\* Preparing takes a superseded digest's events away from it, for good: an event
\* goes to today's digest, that is a later one, or waits when today's exists.
LEMMA SupersededPrepare ==
  ASSUME TypeOK, SupersededReleasesEvents, NEW w \in Workers, Prepare(w)
  PROVE  SupersededReleasesEvents'
<1>t. /\ digest \in [Digests -> DigestType]
      /\ event \in [Events -> EventType]
      /\ Day(clock) \in Days
  BY DayIsDay DEF TypeOK
<1>1. CASE ~IsOpen(clock)
  <2>1. UNCHANGED <<event, digest>>
    BY <1>1 DEF Prepare
  <2> QED BY <2>1 DEF SupersededReleasesEvents
<1>2. CASE IsOpen(clock)
  <2>1. /\ \A e \in Events : event'[e] = PlannedEvent(e)
        /\ \A k \in Digests : digest'[k] = PlannedDigest(k)
    BY <1>2 DEF Prepare
  <2> SUFFICES ASSUME NEW k \in Digests, NEW f \in digest'[k].events, Superseded(k)'
               PROVE  event'[<<k[1], f>>].by # k[2]
    BY DEF SupersededReleasesEvents, Superseded
  <2> DEFINE e == <<k[1], f>>
  <2>2. digest[k] \in DigestType /\ k[1] \in Users /\ k[2] \in Days
    BY <1>t DEF Digests
  <2>3. Never # k[2] /\ k[2] \in Nat /\ Day(clock) \in Nat
    BY <1>t, <2>2, BoundsAssumption DEF Days, Never
  <2>4. digest[k].status # "none" /\ digest'[k].events = digest[k].events
    <3>1. digest'[k].status = "dead"
      BY DEF Superseded
    <3>2. ~(k \notin RolledOver /\ k = Today(k[1]) /\ ~HasToday(k[1]) /\ Items(k[1]) # {})
      BY <2>1, <3>1 DEF PlannedDigest, NoDigest
    <3>3. digest'[k] \in {digest[k], [digest[k] EXCEPT !.status = "dead"]}
      BY <2>1, <3>2 DEF PlannedDigest
    <3>4. k \in RolledOver \/ digest'[k] = digest[k]
      BY <2>1, <3>2 DEF PlannedDigest
    <3>5. digest[k].status # "none"
      BY <3>1, <3>4 DEF RolledOver, Claimable
    <3> QED BY <2>2, <3>3, <3>5 DEF DigestType
  <2>5. e \in Events
    BY <2>2, <2>4 DEF DigestType, Events
  <2>6. event'[e] = PlannedEvent(e) /\ event[e] \in EventType
    BY <1>t, <2>1, <2>5
  <2>7. CASE f \notin Collected(k[1])
    <3>1. event'[e] = event[e]
      BY <2>6, <2>7 DEF PlannedEvent
    <3>2. k \notin RolledOver
      BY <2>4, <2>5, <2>7 DEF Collected, Restored, DigestType, Events
    <3>3. Superseded(k)
      <4>1. digest'[k].status = "dead"
        BY DEF Superseded
      <4>2. digest'[k] = digest[k]
        BY <2>1, <3>2, <4>1 DEF PlannedDigest, NoDigest
      <4> QED BY <4>2 DEF Superseded
    <3> QED BY <2>4, <3>1, <3>3 DEF SupersededReleasesEvents, Superseded
  <2>8. CASE f \in Collected(k[1]) /\ HasToday(k[1])
    <3>1. event'[e].by = Never
      BY <2>6, <2>8 DEF PlannedEvent
    <3> QED BY <2>3, <3>1
  <2>9. CASE f \in Collected(k[1]) /\ ~HasToday(k[1])
    <3>1. event'[e].by = Day(clock)
      BY <2>6, <2>9 DEF PlannedEvent, EventType
    <3>2. k # Today(k[1])
      BY <2>4, <2>9 DEF HasToday
    <3> QED BY <3>1, <3>2 DEF Today, Digests
  <2> QED BY <2>7, <2>8, <2>9
<1> QED BY <1>1, <1>2

\* Every other step leaves superseded digests and their events apart.
LEMMA SupersededNext ==
  ASSUME TypeOK, PushInv, SupersededReleasesEvents, Next
  PROVE  SupersededReleasesEvents'
<1>t. /\ digest \in [Digests -> DigestType]
      /\ event \in [Events -> EventType]
      /\ now \in [Workers -> Ticks]
  BY DEF TypeOK
<1>1. ASSUME UNCHANGED <<event, digest>> PROVE SupersededReleasesEvents'
  BY <1>1 DEF SupersededReleasesEvents
<1>2. ASSUME UNCHANGED event,
             \A k \in Digests : /\ digest'[k].events = digest[k].events
                                /\ Superseded(k)' => Superseded(k)
      PROVE  SupersededReleasesEvents'
  BY <1>2, SupersededFrame
<1>3. ASSUME NEW l \in Digests, DigestLockExpires(l) PROVE SupersededReleasesEvents'
  <2>1. UNCHANGED event /\ digest' = [digest EXCEPT ![l].expired = TRUE]
    BY <1>3 DEF DigestLockExpires
  <2> QED BY <1>2, <1>t, <2>1 DEF Superseded, DigestType
<1>4. CASE Environment
  BY <1>1, <1>3, <1>4
     DEF Environment, LockExpiry, Tick, Publish, EditValidity, Withdraw, Reschedule,
         DeleteInbox, ParentLockExpires, jobVars
<1>5. ASSUME NEW w \in Workers, StartCycle(w) PROVE SupersededReleasesEvents'
  <2>1. UNCHANGED event /\ \A k \in Digests : digest'[k] = Released(digest[k])
    BY <1>5 DEF StartCycle
  <2>2. ASSUME NEW k \in Digests
        PROVE  /\ digest'[k].events = digest[k].events
               /\ Superseded(k)' => Superseded(k)
    <3>1. digest[k] \in DigestType /\ digest'[k] = Released(digest[k])
      BY <1>t, <2>1
    <3>2. Released(digest[k]).events = digest[k].events
      BY <3>1 DEF Released, DigestType
    <3>3. /\ Released(digest[k]).status = "dead"
          /\ Released(digest[k]).attempts < MaxAttempts
          => Released(digest[k]) = digest[k]
      BY <3>1, BoundsAssumption DEF Released, DigestType, AfterFailure
    <3> QED BY <3>1, <3>2, <3>3 DEF Superseded
  <2> QED BY <1>2, <2>1, <2>2
<1>6. ASSUME NEW w \in Workers, ClaimDigests(w) PROVE SupersededReleasesEvents'
  <2>1. PICK B : digest' = [k \in Digests |->
                              IF k \in B THEN Claimed(digest[k]) ELSE digest[k]]
    BY <1>6 DEF ClaimDigests
  <2>2. UNCHANGED event
    BY <1>6 DEF ClaimDigests
  <2>3. ASSUME NEW k \in Digests
        PROVE  /\ digest'[k].events = digest[k].events
               /\ Superseded(k)' => Superseded(k)
    <3>1. digest[k] \in DigestType /\ digest'[k] \in {Claimed(digest[k]), digest[k]}
      BY <1>t, <2>1
    <3>2. Claimed(digest[k]).events = digest[k].events /\ Claimed(digest[k]).status = "processing"
      BY <3>1 DEF Claimed, DigestType
    <3> QED BY <3>1, <3>2 DEF Superseded
  <2> QED BY <1>2, <2>2, <2>3
<1>7. ASSUME NEW w \in Workers, NEW l \in Digests, ReserveDelivery(w, l)
      PROVE  SupersededReleasesEvents'
  <2>1. UNCHANGED event
    BY <1>7 DEF ReserveDelivery
  <2>2. PICK items : digest' = [digest EXCEPT ![l].started = now[w], ![l].items = items]
    BY <1>7 DEF ReserveDelivery
  <2>3. now[w] # Never
    BY <1>t, BoundsAssumption DEF Ticks, LastTick, Never
  <2> QED BY <1>2, <1>t, <2>1, <2>2, <2>3 DEF Superseded, DigestType
<1>8. ASSUME NEW w \in Workers, NEW u \in Users, EnqueueRecipient(w, u)
      PROVE  SupersededReleasesEvents'
  <2>1. UNCHANGED digest
    BY <1>8 DEF EnqueueRecipient
  <2>2. \A e \in Events : event'[e].by \in {event[e].by, Never}
    BY <1>8, <1>t DEF EnqueueRecipient
  <2> QED BY <2>1, <2>2, SupersededFrame DEF Superseded
<1>9. ASSUME NEW w \in Workers, NEW l \in Digests, MarkDone(w, l) \/ MarkFailed(w, l)
      PROVE  SupersededReleasesEvents'
  <2>1. CASE MarkDone(w, l)
    <3>1. UNCHANGED event /\ digest' = [digest EXCEPT ![l].status = "done"]
      BY <2>1 DEF MarkDone
    <3> QED BY <1>2, <1>t, <3>1 DEF Superseded, DigestType
  <2>2. CASE MarkFailed(w, l)
    <3>1. digest[l].started # Never
      BY <2>2 DEF MarkFailed, PushInv
    <3>2. PICK s : digest' = [digest EXCEPT ![l].status = s, ![l].avail = clock]
      BY <2>2 DEF MarkFailed
    <3>3. UNCHANGED event
      BY <2>2 DEF MarkFailed
    <3> QED BY <1>2, <1>t, <3>1, <3>2, <3>3 DEF Superseded, DigestType
  <2> QED BY <1>9, <2>1, <2>2
<1>10. ASSUME NEW w \in Workers, Plan(w) PROVE SupersededReleasesEvents'
  BY <1>1, <1>5, <1>6, <1>7, <1>8, <1>10, SupersededPrepare
     DEF Plan, ClaimParents, CheckParent, FinishParent, SkipDelivery, Unlock, jobVars
<1>11. ASSUME NEW w \in Workers, Deliver(w) PROVE SupersededReleasesEvents'
  BY <1>1, <1>9, <1>11 DEF Deliver, Push, Return, jobVars
<1>12. ASSUME NEW w \in Workers, Fault(w) PROVE SupersededReleasesEvents'
  BY <1>1, <1>12 DEF Fault, FailParent, PushRaises, Crash, jobVars
<1> QED BY <1>4, <1>10, <1>11, <1>12 DEF Next

\* Whatever workers crash, overlap or skip days, a digest that a later day
\* supersedes keeps none of its events: _rollover gives them all back, and no
\* later pass returns one to it.
THEOREM SupersededDigestsLetGo == Spec => []SupersededReleasesEvents
<1>1. Init => SupersededReleasesEvents
  BY DEF Init, SupersededReleasesEvents, NoDigest
<1>2. TypeOK /\ PushInv /\ SupersededReleasesEvents /\ [Next]_vars => SupersededReleasesEvents'
  <2>1. CASE UNCHANGED vars
    BY <2>1 DEF SupersededReleasesEvents, vars, jobVars
  <2> QED BY <2>1, SupersededNext
<1> QED BY <1>1, <1>2, TypeCorrect, PushCorrect, PTL DEF Spec

-----------------------------------------------------------------------------
(* What users see.                                                         *)

\* A reserved digest announces something, and only a reserved one reaches the inbox.
SeenInv ==
  \A k \in Digests :
    /\ digest[k].started # Never => digest[k].items # {}
    /\ inbox[k] # "absent" => digest[k].started # Never

\* A digest's summary stays as it was.
Unseen(k) ==
  /\ digest'[k].items = digest[k].items
  /\ digest'[k].started = digest[k].started

\* Only a reservation changes a summary or the inbox, but for a user's deletion.
LEMMA SeenSteps ==
  ASSUME TypeOK, PushInv, OwnInv, Next
  PROVE  \/ \E w \in Workers, k \in Digests : ReserveDelivery(w, k)
         \/ /\ \A k \in Digests : Unseen(k)
            /\ \A k \in Digests : inbox'[k] # inbox[k] => inbox[k] = "present"
<1>t. digest \in [Digests -> DigestType] /\ inbox \in [Digests -> {"absent", "present", "deleted"}]
  BY DEF TypeOK
<1> DEFINE Kept == /\ \A k \in Digests : Unseen(k)
                   /\ \A k \in Digests : inbox'[k] # inbox[k] => inbox[k] = "present"
<1>1. UNCHANGED <<digest, inbox>> => Kept
  BY DEF Unseen
<1>2. ASSUME NEW l \in Digests, DigestLockExpires(l) PROVE Kept
  <2>1. UNCHANGED inbox /\ digest' = [digest EXCEPT ![l].expired = TRUE]
    BY <1>2 DEF DigestLockExpires, outsideVars
  <2> QED BY <1>t, <2>1 DEF Unseen, DigestType
<1>3. ASSUME NEW l \in Digests, DeleteInbox(l) PROVE Kept
  BY <1>t, <1>3 DEF DeleteInbox, Unseen, jobVars
<1>4. CASE Environment
  <2>1. CASE \E l \in Digests : DigestLockExpires(l) \/ DeleteInbox(l)
    BY <1>2, <1>3, <2>1
  <2>2. CASE ~\E l \in Digests : DigestLockExpires(l) \/ DeleteInbox(l)
    <3>1. UNCHANGED <<digest, inbox>>
      BY <1>4, <2>2
         DEF Environment, LockExpiry, Tick, Publish, EditValidity, Withdraw, Reschedule,
             ParentLockExpires, jobVars, outsideVars
    <3> QED BY <1>1, <3>1
  <2> QED BY <2>1, <2>2
<1>5. ASSUME NEW w \in Workers, StartCycle(w) PROVE Kept
  <2>1. UNCHANGED inbox /\ \A k \in Digests : digest'[k] = Released(digest[k])
    BY <1>5 DEF StartCycle, outsideVars
  <2> QED BY <1>t, <2>1 DEF Unseen, Released, DigestType
<1>6. ASSUME NEW w \in Workers, Prepare(w) PROVE Kept
  <2>1. UNCHANGED inbox
    BY <1>6 DEF Prepare, outsideVars
  <2>2. \A k \in Digests : digest'[k] \in {PlannedDigest(k), digest[k]}
    BY <1>6 DEF Prepare
  <2>3. ASSUME NEW k \in Digests
        PROVE  /\ PlannedDigest(k).items = digest[k].items
               /\ PlannedDigest(k).started = digest[k].started
    <3>1. digest[k] \in DigestType
      BY <1>t
    <3>2. digest[k].status = "none" => digest[k].started = Never /\ digest[k].items = {}
      BY DEF PushInv, OwnInv
    <3> QED BY <3>1, <3>2 DEF PlannedDigest, HasToday, NoDigest, DigestType
  <2> QED BY <2>1, <2>2, <2>3 DEF Unseen
<1>7. ASSUME NEW w \in Workers, ClaimDigests(w) PROVE Kept
  <2>1. PICK B : digest' = [k \in Digests |->
                              IF k \in B THEN Claimed(digest[k]) ELSE digest[k]]
    BY <1>7 DEF ClaimDigests
  <2>2. UNCHANGED inbox
    BY <1>7 DEF ClaimDigests, outsideVars
  <2> QED BY <1>t, <2>1, <2>2 DEF Unseen, Claimed, DigestType
<1>8. ASSUME NEW w \in Workers, NEW l \in Digests, MarkDone(w, l) \/ MarkFailed(w, l)
      PROVE  Kept
  <2>1. PICK s, a : \/ digest' = [digest EXCEPT ![l].status = s]
                    \/ digest' = [digest EXCEPT ![l].status = s, ![l].avail = a]
    BY <1>8 DEF MarkDone, MarkFailed
  <2>2. UNCHANGED inbox
    BY <1>8 DEF MarkDone, MarkFailed, outsideVars
  <2> QED BY <1>t, <2>1, <2>2 DEF Unseen, DigestType
<1>9. ASSUME NEW w \in Workers, Plan(w) PROVE Kept \/ \E k \in Digests : ReserveDelivery(w, k)
  BY <1>1, <1>5, <1>6, <1>7, <1>9
     DEF Plan, ClaimParents, CheckParent, EnqueueRecipient, FinishParent, SkipDelivery, Unlock,
         jobVars, outsideVars
<1>10. ASSUME NEW w \in Workers, Deliver(w) PROVE Kept
  BY <1>1, <1>8, <1>10 DEF Deliver, Push, Return, jobVars, outsideVars
<1>11. ASSUME NEW w \in Workers, Fault(w) PROVE Kept
  BY <1>1, <1>11 DEF Fault, FailParent, PushRaises, Crash, jobVars, outsideVars
<1> QED BY <1>4, <1>9, <1>10, <1>11 DEF Next

\* What a reservation does to summaries and the inbox.
LEMMA Reserved ==
  ASSUME TypeOK, NEW w \in Workers, NEW k \in Digests, ReserveDelivery(w, k)
  PROVE  /\ k \in batch[w] /\ digest[k].started = Never /\ digest'[k].started # Never
         /\ digest'[k].items # {} /\ digest'[k].items \subseteq digest[k].flyers
         /\ \A l \in Digests \ {k} : Unseen(l)
         /\ inbox' = [inbox EXCEPT ![k] = "present"]
         /\ UNCHANGED pushes
<1> DEFINE items == {f \in digest[k].flyers : Eligible(f, now[w])}
<1>1. digest \in [Digests -> DigestType] /\ now[w] \in Ticks
  BY DEF TypeOK
<1>2. now[w] # Never
  BY <1>1, BoundsAssumption DEF Ticks, LastTick, Never
<1>3. /\ k \in batch[w] /\ digest[k].started = Never /\ items # {}
      /\ digest' = [digest EXCEPT ![k].started = now[w], ![k].items = items]
      /\ inbox' = [inbox EXCEPT ![k] = "present"]
      /\ UNCHANGED pushes
  BY DEF ReserveDelivery, Unattempted
<1>4. items \subseteq digest[k].flyers
  OBVIOUS
<1> HIDE DEF items
<1> QED BY <1>1, <1>2, <1>3, <1>4 DEF Unseen, DigestType

\* What users see is invariant.
LEMMA SeenCorrect == Spec => []SeenInv
<1>1. Init => SeenInv
  BY DEF Init, SeenInv, NoDigest
<1>2. TypeOK /\ PushInv /\ OwnInv /\ SeenInv /\ [Next]_vars => SeenInv'
  <2> SUFFICES ASSUME TypeOK, PushInv, OwnInv, SeenInv, [Next]_vars PROVE SeenInv'
    OBVIOUS
  <2>1. CASE UNCHANGED vars
    BY <2>1 DEF SeenInv, vars, jobVars, outsideVars
  <2>2. ASSUME NEW w \in Workers, NEW k \in Digests, ReserveDelivery(w, k) PROVE SeenInv'
    <3>1. inbox \in [Digests -> {"absent", "present", "deleted"}]
      BY DEF TypeOK
    <3> QED BY <2>2, <3>1, Reserved DEF SeenInv, Unseen
  <2>3. CASE /\ \A k \in Digests : Unseen(k)
             /\ \A k \in Digests : inbox'[k] # inbox[k] => inbox[k] = "present"
    BY <2>3 DEF SeenInv, Unseen
  <2> QED BY <2>1, <2>2, <2>3, SeenSteps
<1> QED BY <1>1, <1>2, TypeCorrect, PushCorrect, OwnCorrect, PTL DEF Spec

\* A summary that its user deleted never returns to the inbox: a retried job
\* meets its reservation, and no second summary is stored.
THEOREM DeletedStaysDeleted == Spec => InboxNotRecreated
<1>1. TypeOK /\ PushInv /\ OwnInv /\ SeenInv /\ [Next]_vars =>
        [\A k \in Digests : inbox[k] = "deleted" => inbox'[k] = "deleted"]_vars
  <2> SUFFICES ASSUME TypeOK, PushInv, OwnInv, SeenInv, Next,
                      NEW k \in Digests, inbox[k] = "deleted"
               PROVE  inbox'[k] = "deleted"
    BY DEF vars
  <2>1. ASSUME NEW w \in Workers, NEW l \in Digests, ReserveDelivery(w, l)
        PROVE  inbox'[k] = "deleted"
    <3>1. l # k
      BY <2>1, Reserved DEF SeenInv
    <3> QED BY <2>1, <3>1, Reserved DEF TypeOK
  <2> QED BY <2>1, SeenSteps
<1> QED BY <1>1, TypeCorrect, PushCorrect, OwnCorrect, SeenCorrect, PTL DEF Spec, InboxNotRecreated

\* A reservation announces flyers that no summary of the user has.
LEMMA ReserveAnnounces ==
  ASSUME TypeOK, OwnInv, NEW w \in Workers, NEW k \in Digests, ReserveDelivery(w, k)
  PROVE  Announcements!Announce(k)
<1> DEFINE items == digest'[k].items
<1>1. /\ k \in batch[w] /\ digest[k].started = Never
      /\ items # {} /\ items \subseteq digest[k].flyers
      /\ \A l \in Digests \ {k} : Unseen(l)
      /\ UNCHANGED pushes
  BY Reserved
<1>2. digest[k].items = {}
  BY <1>1 DEF OwnInv
<1>3. items \subseteq digest[k].events /\ items \subseteq Flyers
  BY <1>1 DEF OwnInv, TypeOK, DigestType
<1>4. ASSUME NEW l \in Digests, l[1] = k[1], NEW f \in digest[l].items, f \in items PROVE FALSE
  <2>1. Reservable(k)
    <3>1. \E v \in Workers : k \in batch[v]
      BY <1>1
    <3> QED BY <1>1, <3>1 DEF Reservable
  <2>2. event[<<k[1], f>>].by = k[2]
    BY <1>3, <1>4, <2>1 DEF OwnInv
  <2>3. digest[l].started # Never /\ f \in digest[l].events
    BY <1>4 DEF OwnInv
  <2>4. event[<<l[1], f>>].by = l[2]
    BY <2>3 DEF OwnInv
  <2>5. l = k
    BY <1>4, <2>2, <2>4 DEF Digests
  <2> QED BY <1>2, <1>4, <2>5
<1>5. [l \in Digests |-> digest'[l].items] =
        [[l \in Digests |-> digest[l].items] EXCEPT ![k] = items]
  BY <1>1 DEF Unseen
<1>6. items \in (SUBSET Flyers) \ {{}}
  BY <1>1, <1>3
<1> HIDE DEF items
<1>7. \A l \in Announcements!Summaries :
         l[1] = k[1] => [m \in Digests |-> digest[m].items][l] \intersect items = {}
  BY <1>4 DEF Announcements!Summaries, Digests, Days
<1> QED BY <1>1, <1>2, <1>5, <1>6, <1>7 DEF Announcements!Announce

\* A push attempts the delivery of a summary that is announced and was not pushed.
LEMMA PushPushes ==
  ASSUME TypeOK, PushInv, SeenInv, NEW w \in Workers, NEW k \in Digests, Push(w, k)
  PROVE  Announcements!Push(k)
<1>1. out[w][k].step = "push" /\ pushes' = [pushes EXCEPT ![k] = @ + 1] /\ UNCHANGED digest
  BY DEF Push, jobVars
<1>2. pushes[k] = 0 /\ digest[k].items # {} /\ pushes \in [Digests -> Nat]
  BY <1>1 DEF PushInv, SeenInv, TypeOK
<1>3. pushes' = [pushes EXCEPT ![k] = 1]
  BY <1>1, <1>2
<1> QED BY <1>1, <1>2, <1>3 DEF Announcements!Push

\* Only a push counts as one.
LEMMA PushSteps ==
  ASSUME Next
  PROVE  UNCHANGED pushes \/ \E w \in Workers, k \in Digests : Push(w, k)
<1>1. CASE Environment
  BY <1>1 DEF Environment, LockExpiry, Tick, Publish, EditValidity, Withdraw, Reschedule,
              DeleteInbox, ParentLockExpires, DigestLockExpires, outsideVars
<1>2. ASSUME NEW w \in Workers, Plan(w) PROVE UNCHANGED pushes
  BY <1>2 DEF Plan, StartCycle, ClaimParents, CheckParent, EnqueueRecipient, FinishParent,
              Prepare, ClaimDigests, SkipDelivery, ReserveDelivery, Unlock, outsideVars
<1>3. ASSUME NEW w \in Workers, Deliver(w)
      PROVE  UNCHANGED pushes \/ \E k \in Digests : Push(w, k)
  BY <1>3 DEF Deliver, MarkDone, MarkFailed, Return, outsideVars
<1>4. ASSUME NEW w \in Workers, Fault(w) PROVE UNCHANGED pushes
  BY <1>4 DEF Fault, FailParent, PushRaises, Crash, outsideVars
<1> QED BY <1>1, <1>2, <1>3, <1>4 DEF Next

\* The pipeline implements what it promises to users: every step announces one
\* summary of flyers that are new to its user, makes the one push of an
\* announced summary, or changes nothing that users see.
THEOREM PipelineImplementsAnnouncements == Spec => ImplementsAnnouncements
<1>1. Init => Announcements!Init
  BY DEF Init, Announcements!Init, Announcements!Summaries, NoDigest, Digests, Days
<1>2. TypeOK /\ PushInv /\ OwnInv /\ SeenInv /\ [Next]_vars =>
        [Announcements!Next]_<<[k \in Digests |-> digest[k].items], pushes>>
  <2> SUFFICES ASSUME TypeOK, PushInv, OwnInv, SeenInv, [Next]_vars
               PROVE  \/ Announcements!Next
                      \/ UNCHANGED <<[k \in Digests |-> digest[k].items], pushes>>
    OBVIOUS
  <2>1. CASE UNCHANGED vars
    BY <2>1 DEF vars, jobVars, outsideVars
  <2>2. ASSUME NEW w \in Workers, NEW k \in Digests, ReserveDelivery(w, k)
        PROVE  Announcements!Next
    <3>1. Announcements!Announce(k)
      BY <2>2, ReserveAnnounces
    <3> QED BY <3>1 DEF Announcements!Next, Announcements!Summaries, Digests, Days
  <2>3. ASSUME NEW w \in Workers, NEW k \in Digests, Push(w, k)
        PROVE  Announcements!Next
    <3>1. Announcements!Push(k)
      BY <2>3, PushPushes
    <3> QED BY <3>1 DEF Announcements!Next, Announcements!Summaries, Digests, Days
  <2>4. CASE (\A k \in Digests : Unseen(k)) /\ UNCHANGED pushes
    BY <2>4 DEF Unseen
  <2> QED BY <2>1, <2>2, <2>3, <2>4, SeenSteps, PushSteps
<1> QED
  BY <1>1, <1>2, TypeCorrect, PushCorrect, OwnCorrect, SeenCorrect, PTL
     DEF Spec, ImplementsAnnouncements, Announcements!Spec

=============================================================================
