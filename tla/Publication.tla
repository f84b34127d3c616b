------------------------------ MODULE Publication ------------------------------
(***************************************************************************)
(* Publication of one extracted flyer: api/routers/flyers.py and the SQL   *)
(* functions it calls.  A source flyer has targets, the markets it is for. *)
(* Confirming its offers gives each target a published copy of the flyer   *)
(* with a clone of every confirmed offer, and queues one notification job  *)
(* per new copy.  Targets, offers and validity may be edited before and    *)
(* after.                                                                  *)
(*                                                                         *)
(* A handler is a sequence of requests to the database, each one of its    *)
(* own transaction, with no await in between: a server runs one handler at *)
(* a time.  It may stop between any two requests, because the process dies *)
(* or a request fails; the cleanup of expired flyers runs in a thread, and *)
(* the notification worker beside them.                                    *)
(***************************************************************************)
EXTENDS Integers, FiniteSets

CONSTANTS
  Servers,      \* processes that answer requests
  Markets,      \* supermarkets
  Offers,       \* ids of source offers
  Texts,        \* what an edit of an offer may change
  Dates,        \* validities of a flyer or an offer
  None,         \* no market, copy, offer or clone
  MaxCopies,    \* bound: published copies ever inserted
  MaxRequests,  \* bound: requests of administrators
  MaxFaults     \* bound: handlers that stop half-way

ASSUME NoneAssumption == None \notin Markets \union Offers \union (1..MaxCopies)
ASSUME ChoicesAssumption == Texts # {} /\ Dates # {}
ASSUME BoundsAssumption == MaxCopies \in Nat /\ MaxRequests \in Nat /\ MaxFaults \in Nat

Copies == 1..MaxCopies
Content == [text : Texts, date : Dates]
Clones == [flyer : Copies, text : Texts, date : Dates]
Sites == Offers \X Markets

\* NULL is no row.
ASSUME NoCloneAssumption == None \notin Clones

VARIABLES
  exists,    \* the source flyer is in the database
  date,      \* its validity
  targets,   \* rows of flyer_targets
  offer,     \* the source offers
  market,    \* supermarket of each published copy, None when there is no such row
  until,     \* validity of each published copy
  made,      \* copies inserted so far: their ids are 1..made
  clone,     \* the published offer of each source offer and market
  job,       \* flyer-published job of each copy
  jobDate,   \* date its available_at comes from
  pc,        \* what each server does next
  want,      \* the handler's targets
  when,      \* the handler's validity
  found,     \* the copy the handler found for each market
  todo,      \* markets the handler has to look after
  rest,      \* copies the handler has to look after
  at,        \* the copy or offer it is at
  requests,  \* requests so far
  faults,    \* handlers that stopped half-way
  broken     \* one did since the last complete publication

flyerVars == <<exists, date, targets>>
copyVars == <<market, until, made>>
jobVars == <<job, jobDate>>
localVars == <<want, when, found, todo, rest, at>>
boundVars == <<requests, faults, broken>>
vars == <<flyerVars, offer, copyVars, clone, jobVars, pc, localVars, boundVars>>

Live == {c \in Copies : market[c] # None}
Drafts == {o \in Offers : offer[o].state = "draft"}
Confirmed == {o \in Offers : offer[o].state = "confirmed"}
Kept == Drafts \union Confirmed

\* The upload and the extraction are over; a crash of the upload leaves no targets.
Init ==
  /\ exists = TRUE
  /\ date \in Dates
  /\ targets \in SUBSET Markets
  /\ \E t \in Texts, D \in SUBSET Offers :
       offer = [o \in Offers |->
                  [state |-> IF o \in D THEN "draft" ELSE "none", text |-> t, date |-> date]]
  /\ market = [c \in Copies |-> None]
  /\ until = [c \in Copies |-> date]
  /\ made = 0
  /\ clone = [s \in Sites |-> None]
  /\ job = [c \in Copies |-> "none"]
  /\ jobDate = [c \in Copies |-> date]
  /\ pc = [p \in Servers |-> "idle"]
  /\ want = [p \in Servers |-> {}]
  /\ when = [p \in Servers |-> date]
  /\ found = [p \in Servers |-> [m \in Markets |-> None]]
  /\ todo = [p \in Servers |-> {}]
  /\ rest = [p \in Servers |-> {}]
  /\ at = [p \in Servers |-> None]
  /\ requests = 0
  /\ faults = 0
  /\ broken = FALSE

Goto(p, step) == pc' = [pc EXCEPT ![p] = step]

\* A request arrives for a flyer that exists.
Arrives(p) ==
  /\ pc[p] = "idle"
  /\ exists
  /\ requests < MaxRequests
  /\ requests' = requests + 1
  /\ UNCHANGED <<faults, broken>>

\* The clones that are left when some copies or offers are deleted.
Without(cs, os) ==
  [s \in Sites |-> IF clone[s] # None /\ (clone[s].flyer \in cs \/ s[1] \in os)
                   THEN None ELSE clone[s]]

-----------------------------------------------------------------------------
(* materialize_source_flyer_targets, in one transaction.                    *)

\* Mutant of Cloned: drafts are cloned as well.
ClonedAll == Kept

\* The offers it copies.
Cloned == Confirmed

\* Two copies of a market would give a clone two values: the statement fails.
Clash ==
  /\ Cloned # {}
  /\ \E c, d \in Live : c # d /\ market[c] = market[d]

\* The clone of every offer for every copy; others are deleted.
Materialized ==
  [s \in Sites |->
     IF s[1] \in Cloned /\ \E c \in Live : market[c] = s[2]
     THEN [flyer |-> CHOOSE c \in Live : market[c] = s[2],
           text |-> offer[s[1]].text, date |-> offer[s[1]].date]
     ELSE None]

-----------------------------------------------------------------------------
(* confirm_offers.                                                          *)

\* Reads the flyer and its targets.
StartConfirm(p) ==
  /\ Arrives(p)
  /\ targets # {}
  /\ Goto(p, "confirm")
  /\ want' = [want EXCEPT ![p] = targets]
  /\ when' = [when EXCEPT ![p] = date]
  /\ UNCHANGED <<flyerVars, offer, copyVars, clone, jobVars, found, todo, rest, at>>

\* confirm_source_flyer_offers; with nothing to confirm it answers at once.
Confirm(p) ==
  /\ pc[p] = "confirm"
  /\ offer' = [o \in Offers |->
                 IF o \in Drafts THEN [offer[o] EXCEPT !.state = "confirmed"] ELSE offer[o]]
  /\ Goto(p, IF Drafts = {} THEN "idle" ELSE "count")
  /\ UNCHANGED <<flyerVars, copyVars, clone, jobVars, localVars, boundVars>>

\* It counts the confirmed offers, and answers when they were deleted meanwhile.
Count(p) ==
  /\ pc[p] = "count"
  /\ Goto(p, IF Confirmed = {} THEN "idle" ELSE "lookup")
  /\ UNCHANGED <<flyerVars, offer, copyVars, clone, jobVars, localVars, boundVars>>

-----------------------------------------------------------------------------
(* update_flyer_targets.  Source flyers never become public, so that the    *)
(* handler accepts changes after the publication too.                       *)

\* T are the requested markets that do not have this flyer from another upload.
StartTargets(p, T) ==
  /\ Arrives(p)
  /\ T # {}
  /\ Goto(p, "unlink")
  /\ want' = [want EXCEPT ![p] = T]
  /\ UNCHANGED <<flyerVars, offer, copyVars, clone, jobVars, when, found, todo, rest, at>>

\* _replace_flyer_targets deletes the rows ...
Unlink(p) ==
  /\ pc[p] = "unlink"
  /\ targets' = {}
  /\ Goto(p, "link")
  /\ UNCHANGED <<exists, date, offer, copyVars, clone, jobVars, localVars, boundVars>>

\* Mutant of Referenced: the rows of a deleted flyer are not refused.
ReferencedAlways == TRUE

\* The foreign key of targets and copies.
Referenced == exists

\* ... and inserts the new ones.
Link(p) ==
  /\ pc[p] = "link"
  /\ Referenced
  /\ want[p] \intersect targets = {}
  /\ targets' = targets \union want[p]
  /\ Goto(p, "reread")
  /\ UNCHANGED <<exists, date, offer, copyVars, clone, jobVars, localVars, boundVars>>

\* Flyer and targets are read again; a flyer without confirmed offers and copies
\* has nothing to publish.
Reread(p) ==
  /\ pc[p] = "reread"
  /\ exists
  /\ want' = [want EXCEPT ![p] = targets]
  /\ when' = [when EXCEPT ![p] = date]
  /\ Goto(p, IF Confirmed = {} /\ Live = {} THEN "idle" ELSE "lookup")
  /\ UNCHANGED <<flyerVars, offer, copyVars, clone, jobVars, found, todo, rest, at, boundVars>>

-----------------------------------------------------------------------------
(* _sync_published_targets_for_source_flyer.                                *)

\* Mutant of Lookups: no copy is found.
LookupsNone == {[m \in Markets |-> None]}

\* _published_target_flyers: a copy for each market that has some.
Lookups ==
  {f \in [Markets -> Live \union {None}] :
     \A m \in Markets :
       IF \E c \in Live : market[c] = m
       THEN f[m] # None /\ market[f[m]] = m
       ELSE f[m] = None}

\* The copies found for markets that are not targets.
Stale(p) == {found[p][m] : m \in Markets \ want[p]} \ {None}

Lookup(p) ==
  /\ pc[p] = "lookup"
  /\ found' \in {[found EXCEPT ![p] = f] : f \in Lookups}
  /\ todo' = [todo EXCEPT ![p] = want[p]]
  /\ rest' = [rest EXCEPT ![p] = {}]
  /\ Goto(p, "hide")
  /\ UNCHANGED <<flyerVars, offer, copyVars, clone, jobVars, want, when, at, boundVars>>

\* _delete_removed_published_targets deletes their clones ...
Hide(p) ==
  /\ pc[p] = "hide"
  /\ clone' = Without(Stale(p), {})
  /\ Goto(p, "remove")
  /\ UNCHANGED <<flyerVars, offer, copyVars, jobVars, localVars, boundVars>>

\* ... and then the copies, with whatever refers to them.
Remove(p) ==
  /\ pc[p] = "remove"
  /\ market' = [c \in Copies |-> IF c \in Stale(p) THEN None ELSE market[c]]
  /\ clone' = Without(Stale(p), {})
  /\ Goto(p, "upsert")
  /\ UNCHANGED <<flyerVars, offer, until, made, jobVars, localVars, boundVars>>

\* Mutant of Renewed: a copy that exists keeps its validity.
RenewedNever(p, c) == until[c]

\* The validity an existing copy is given.
Renewed(p, c) == when[p]

\* _upsert_published_target_flyer for a copy that was found.
Update(p, m) ==
  /\ pc[p] = "upsert"
  /\ m \in todo[p]
  /\ found[p][m] # None
  /\ until' = [until EXCEPT ![found[p][m]] = Renewed(p, found[p][m])]
  /\ todo' = [todo EXCEPT ![p] = @ \ {m}]
  /\ UNCHANGED <<flyerVars, offer, market, made, clone, jobVars, pc, want, when, found,
                 rest, at, boundVars>>

\* The same for a market without one.
Insert(p, m) ==
  /\ pc[p] = "upsert"
  /\ m \in todo[p]
  /\ found[p][m] = None
  /\ Referenced
  /\ made < MaxCopies
  /\ made' = made + 1
  /\ market' = [market EXCEPT ![made + 1] = m]
  /\ until' = [until EXCEPT ![made + 1] = when[p]]
  /\ todo' = [todo EXCEPT ![p] = @ \ {m}]
  /\ rest' = [rest EXCEPT ![p] = @ \union {made + 1}]
  /\ UNCHANGED <<flyerVars, offer, clone, jobVars, pc, want, when, found, at, boundVars>>

\* The clones follow; the publication is complete but for the jobs of new copies.
Materialize(p) ==
  /\ pc[p] = "upsert"
  /\ todo[p] = {}
  /\ ~Clash
  /\ clone' = Materialized
  /\ Goto(p, IF rest[p] = {} THEN "idle" ELSE "enqueue")
  /\ broken' = FALSE
  /\ UNCHANGED <<flyerVars, offer, copyVars, jobVars, localVars, requests, faults>>

\* enqueue_flyer_published: a job that exists is kept.
Enqueue(p, c) ==
  /\ pc[p] = "enqueue"
  /\ c \in rest[p]
  /\ IF job[c] = "none"
     THEN job' = [job EXCEPT ![c] = "pending"] /\ jobDate' = [jobDate EXCEPT ![c] = when[p]]
     ELSE UNCHANGED jobVars
  /\ rest' = [rest EXCEPT ![p] = @ \ {c}]
  /\ Goto(p, IF rest[p] = {c} THEN "idle" ELSE "enqueue")
  /\ UNCHANGED <<flyerVars, offer, copyVars, clone, want, when, found, todo, at, boundVars>>

-----------------------------------------------------------------------------
(* update_flyer_validity: _sync_flyer_validity.                             *)

StartValidity(p, d) ==
  /\ Arrives(p)
  /\ date' = d
  /\ when' = [when EXCEPT ![p] = d]
  /\ Goto(p, "offers")
  /\ UNCHANGED <<exists, targets, offer, copyVars, clone, jobVars, want, found, todo, rest, at>>

OfferDates(p) ==
  /\ pc[p] = "offers"
  /\ offer' = [o \in Offers |-> IF o \in Kept THEN [offer[o] EXCEPT !.date = when[p]] ELSE offer[o]]
  /\ Goto(p, "find")
  /\ UNCHANGED <<flyerVars, copyVars, clone, jobVars, localVars, boundVars>>

FindCopies(p) ==
  /\ pc[p] = "find"
  /\ rest' = [rest EXCEPT ![p] = Live]
  /\ Goto(p, IF Live = {} THEN "idle" ELSE "copies")
  /\ UNCHANGED <<flyerVars, offer, copyVars, clone, jobVars, want, when, found, todo, at, boundVars>>

CopyDate(p, c) ==
  /\ pc[p] = "copies"
  /\ c \in rest[p]
  /\ until' = [until EXCEPT ![c] = when[p]]
  /\ at' = [at EXCEPT ![p] = c]
  /\ Goto(p, "clones")
  /\ UNCHANGED <<flyerVars, offer, market, made, clone, jobVars, want, when, found, todo,
                 rest, boundVars>>

CloneDates(p) ==
  /\ pc[p] = "clones"
  /\ clone' = [s \in Sites |->
                 IF clone[s] # None /\ clone[s].flyer = at[p]
                 THEN [clone[s] EXCEPT !.date = when[p]] ELSE clone[s]]
  /\ Goto(p, "job")
  /\ UNCHANGED <<flyerVars, offer, copyVars, jobVars, localVars, boundVars>>

\* Mutant of Reschedulable: jobs keep the date they were queued with.
ReschedulableNever(c) == FALSE

\* Only jobs that wait, for the first time or for a retry, move.
Reschedulable(c) == job[c] \in {"pending", "again"}

\* reschedule_flyer_published; then the next copy.
Reschedule(p) ==
  /\ pc[p] = "job"
  /\ jobDate' = [jobDate EXCEPT ![at[p]] = IF Reschedulable(at[p]) THEN when[p] ELSE @]
  /\ rest' = [rest EXCEPT ![p] = @ \ {at[p]}]
  /\ at' = [at EXCEPT ![p] = None]
  /\ Goto(p, IF rest[p] = {at[p]} THEN "idle" ELSE "copies")
  /\ UNCHANGED <<flyerVars, offer, copyVars, clone, job, want, when, found, todo, boundVars>>

-----------------------------------------------------------------------------
(* The offers of the review.                                                *)

\* create_draft_offer: d is the flyer's validity unless the request has its own.
AddDraft(p, o, t, d) ==
  /\ Arrives(p)
  /\ offer[o].state = "none"
  /\ offer' = [offer EXCEPT ![o] = [state |-> "draft", text |-> t, date |-> d]]
  /\ UNCHANGED <<flyerVars, copyVars, clone, jobVars, pc, localVars>>

\* update_draft_offer: the clones of a confirmed offer are made again.
EditOffer(p, o, t) ==
  /\ Arrives(p)
  /\ o \in Kept
  /\ offer' = [offer EXCEPT ![o].text = t]
  /\ Goto(p, IF o \in Confirmed THEN "refresh" ELSE "idle")
  /\ UNCHANGED <<flyerVars, copyVars, clone, jobVars, localVars>>

Refresh(p) ==
  /\ pc[p] = "refresh"
  /\ ~Clash
  /\ clone' = Materialized
  /\ Goto(p, "idle")
  /\ UNCHANGED <<flyerVars, offer, copyVars, jobVars, localVars, boundVars>>

\* delete_draft_offer, of a confirmed offer the clones first ...
StartDelete(p, o) ==
  /\ Arrives(p)
  /\ o \in Kept
  /\ clone' = IF o \in Confirmed THEN Without({}, {o}) ELSE clone
  /\ at' = [at EXCEPT ![p] = o]
  /\ Goto(p, "delete")
  /\ UNCHANGED <<flyerVars, offer, copyVars, jobVars, want, when, found, todo, rest>>

\* ... and then the offer, with whatever refers to it.
Delete(p) ==
  /\ pc[p] = "delete"
  /\ offer' = [offer EXCEPT ![at[p]].state = "gone"]
  /\ clone' = Without({}, {at[p]})
  /\ at' = [at EXCEPT ![p] = None]
  /\ Goto(p, "idle")
  /\ UNCHANGED <<flyerVars, copyVars, jobVars, want, when, found, todo, rest, boundVars>>

-----------------------------------------------------------------------------
(* What happens to handlers, and beside them.                               *)

Stops(p) ==
  /\ pc[p] # "idle"
  /\ broken' = TRUE
  /\ at' = [at EXCEPT ![p] = None]
  /\ Goto(p, "idle")
  /\ UNCHANGED <<flyerVars, offer, copyVars, clone, jobVars, want, when, found, todo, rest, requests>>

\* The process dies, or a request to the database fails or gets no answer.
Fault(p) ==
  /\ faults < MaxFaults
  /\ faults' = faults + 1
  /\ Stops(p)

\* The database refuses the request: a key, a missing row or clashing clones.
Refusal(p) ==
  /\ \/ pc[p] = "link" /\ ~(Referenced /\ want[p] \intersect targets = {})
     \/ pc[p] = "reread" /\ ~exists
     \/ pc[p] = "upsert" /\ ~Referenced /\ \E m \in todo[p] : found[p][m] = None
     \/ pc[p] = "upsert" /\ todo[p] = {} /\ Clash
     \/ pc[p] = "refresh" /\ Clash
  /\ UNCHANGED faults
  /\ Stops(p)

\* delete_flyer, or the cleanup once it expired: offers, targets and copies go too.
DeleteFlyer ==
  /\ exists
  /\ exists' = FALSE
  /\ targets' = {}
  /\ offer' = [o \in Offers |-> IF o \in Kept THEN [offer[o] EXCEPT !.state = "gone"] ELSE offer[o]]
  /\ market' = [c \in Copies |-> None]
  /\ clone' = [s \in Sites |-> None]
  /\ UNCHANGED <<date, until, made, jobVars, pc, localVars, boundVars>>

\* The notification worker claims a job.
TakeJob(c) ==
  /\ job[c] \in {"pending", "again"}
  /\ job' = [job EXCEPT ![c] = "taken"]
  /\ UNCHANGED <<flyerVars, offer, copyVars, clone, jobDate, pc, localVars, boundVars>>

\* A job that failed, or whose worker died, waits again; not for a date.
ReturnJob(c) ==
  /\ job[c] = "taken"
  /\ job' = [job EXCEPT ![c] = "again"]
  /\ UNCHANGED <<flyerVars, offer, copyVars, clone, jobDate, pc, localVars, boundVars>>

-----------------------------------------------------------------------------
Publish(p) ==
  \/ StartConfirm(p) \/ Confirm(p) \/ Count(p)
  \/ \E T \in SUBSET Markets : StartTargets(p, T)
  \/ Unlink(p) \/ Link(p) \/ Reread(p)
  \/ Lookup(p) \/ Hide(p) \/ Remove(p)
  \/ \E m \in Markets : Update(p, m) \/ Insert(p, m)
  \/ Materialize(p)
  \/ \E c \in Copies : Enqueue(p, c)

Edit(p) ==
  \/ \E d \in Dates : StartValidity(p, d)
  \/ OfferDates(p) \/ FindCopies(p) \/ CloneDates(p) \/ Reschedule(p)
  \/ \E c \in Copies : CopyDate(p, c)
  \/ \E o \in Offers, t \in Texts : EditOffer(p, o, t) \/ \E d \in Dates : AddDraft(p, o, t, d)
  \/ \E o \in Offers : StartDelete(p, o)
  \/ Refresh(p) \/ Delete(p)

Next ==
  \/ \E p \in Servers : Publish(p) \/ Edit(p) \/ Fault(p) \/ Refusal(p)
  \/ DeleteFlyer
  \/ \E c \in Copies : TakeJob(c) \/ ReturnJob(c)

Spec == Init /\ [][Next]_vars

-----------------------------------------------------------------------------
Steps == {"idle", "confirm", "count", "unlink", "link", "reread", "lookup", "hide",
          "remove", "upsert", "enqueue", "offers", "find", "copies", "clones", "job",
          "refresh", "delete"}

OfferType == [state : {"none", "draft", "confirmed", "gone"}, text : Texts, date : Dates]

FlyerTypes == exists \in BOOLEAN /\ date \in Dates /\ targets \subseteq Markets

OfferTypes == offer \in [Offers -> OfferType]

CopyTypes ==
  /\ market \in [Copies -> Markets \union {None}]
  /\ until \in [Copies -> Dates]
  /\ made \in 0..MaxCopies

CloneTypes == clone \in [Sites -> Clones \union {None}]

JobTypes ==
  /\ job \in [Copies -> {"none", "pending", "taken", "again"}]
  /\ jobDate \in [Copies -> Dates]

StepTypes == pc \in [Servers -> Steps]

LocalTypes ==
  /\ want \in [Servers -> SUBSET Markets]
  /\ when \in [Servers -> Dates]
  /\ found \in [Servers -> [Markets -> Copies \union {None}]]
  /\ todo \in [Servers -> SUBSET Markets]
  /\ rest \in [Servers -> SUBSET Copies]
  /\ at \in [Servers -> Copies \union Offers \union {None}]

BoundTypes ==
  /\ requests \in 0..MaxRequests
  /\ faults \in 0..MaxFaults
  /\ broken \in BOOLEAN

\* What refers to the source flyer goes with it.
NoOrphans == ~exists => targets = {} /\ Live = {}

\* Every variable has its type, and no target or copy outlives its source flyer.
TypeOK ==
  /\ FlyerTypes /\ OfferTypes /\ CopyTypes /\ CloneTypes /\ JobTypes
  /\ StepTypes /\ LocalTypes /\ BoundTypes
  /\ NoOrphans

Quiet == exists /\ \A p \in Servers : pc[p] = "idle"

\* However requests are retried after stopping half-way, a market never has two
\* published copies of the flyer.
OneCopyPerMarket ==
  \A c, d \in Live : market[c] = market[d] => c = d

\* Whatever is public was confirmed and not deleted, and is shown for the market
\* of the copy it belongs to, also between the requests of a handler.
OnlyConfirmedIsPublic ==
  \A s \in Sites : clone[s] # None =>
    /\ s[1] \in Confirmed
    /\ market[clone[s].flyer] = s[2]

\* The copies are those of the targets, with the validity of the flyer, and the
\* clones are those of the confirmed offers as they are now.
Synced ==
  /\ Live # {} \/ Confirmed # {} => {market[c] : c \in Live} = targets
  /\ \A c \in Live : until[c] = date
  /\ \A c \in Live, o \in Confirmed :
       clone[<<o, market[c]>>] = [flyer |-> c, text |-> offer[o].text, date |-> offer[o].date]

\* What is public follows the source after every request that completes; whatever
\* handlers that stopped half-way left behind, the next publication that completes
\* repairs it.
PublicationRepairs == Quiet /\ ~broken => Synced

\* As long as no handler stops half-way, every copy has its job, and one that no
\* worker has taken has the date of the copy, however validity is edited.
EveryCopyIsAnnounced ==
  Quiet /\ faults = 0 =>
    \A c \in Live : job[c] # "none" /\ (job[c] = "pending" => jobDate[c] = until[c])

-----------------------------------------------------------------------------
\* confirm_offers: "Confirm source flyer offers and publish one derived flyer per
\* target": when it answers for a flyer with confirmed offers, targets have copies.
AnswerMeansPublished ==
  [][\A p \in Servers :
       pc[p] = "confirm" /\ Confirm(p) /\ pc'[p] = "idle" /\ Confirmed # {} =>
         want[p] \subseteq {market[c] : c \in Live}]_vars
=============================================================================
