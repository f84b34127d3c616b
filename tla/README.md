# Verification of the girospesa backend

TLA+ specifications of the parts of this backend where several actors change
shared state: model-checked with TLC on small instances, with theorems proved
for every value of the constants with the TLA+ proof system.

    tlc -config MCFlyerDigestWorkers.cfg MCFlyerDigest     # any .cfg, with its MC module
    tlapm FlyerDigestProofs.tla                            # any *Proofs module

`PROJECT.json` lists components, runs, findings, hazards, theorems, and the
source lines every definition stands for.

## 1. The system

A FastAPI process (several during a deploy, `main.py`) over one Supabase
project: Postgres through PostgREST requests, each its own transaction, and for
some modules through direct transactions (`DB_DSN`, `core/database.py`);
storage buckets for PDFs and images. A scheduler in the process runs the
periodic jobs, and an ops endpoint (`api/routers/ops.py`) runs the same jobs on
demand. Workers outside the server extract flyers on local machines and talk
HTTP.

| component | state it keeps | operations | hard because | correct when |
|---|---|---|---|---|
| Daily notifications (`notification_jobs.py`, `flyer_digest_repository.py`, `flyer_digest_sql.py`, `flyer_digest.py`) | `notification_jobs` (parents, recipient events, daily digests), `app_notifications`, an advisory lock | enqueue, reschedule, run_pending: release, drain, prepare, claim, reserve, deliver | two workers, crashes between steps, locks that time out under a live worker, midnight between two steps | a summary is pushed at most once, a flyer is announced once and at last to each user, nothing is lost by a rollover |
| Flyer source cache (`flyer_source_cache.py`) | a directory: `.bin`, `.part`, `.lock` files | lease, populate, prune, evict | threads and processes, two kinds of lock, expiry, files that vanish | readers keep their file; the unused files fit the limit; no wait is for ever |
| Local extraction (`extraction/local`) | session in `flyers.extraction_metadata`, draft `offers` | claim, heartbeat, chunk, finish, fail | leases, repeated, late and reordered requests, edits in between, the server's own extraction | receipts and drafts agree; chunks in order, once; no takeover of an active lease |
| Server extraction (`extraction/service.py`, `extraction_startup_recovery.py`, the loop of `providers/`) | status and checkpoint in `flyers`, draft `offers` | trigger, run, persist chunk, checkpoint, resume, startup recovery | no lease: a silent run is replaced while it may still work; two requests per chunk; every request rewrites the whole metadata | no chunk is skipped; one server has one run; a flyer does not stay in processing |
| Publication (`api/routers/flyers.py`) | source and target flyers, offers and their clones | confirm, update targets, edit validity, edit and delete offers, delete | a sequence of requests without a transaction | targets, clones and jobs follow the source also after a retry |
| Upload and preflight (`flyers.py`, `flyer_ingestion_preflight.py`) | the bucket `flyers`, rows of source flyers | signed upload, completion, preview, preflight, deletion | files shared by a source and its copies; conflicts are read before they are written | a flyer keeps its file; a market gets a document once |
| Flyer cleanup (`flyer_cleanup.py`) | the same rows and buckets, `product-images` | nightly sweep | a thread beside the handlers, a list read once, files removed after rows | only what nobody refers to goes |
| Push delivery (`push_notify.py`, `push.py`) | endpoints and tokens, an FCM access token | subscribe, unsubscribe, send, forget stale endpoints | threads that use subscriptions they read before | only endpoints that are gone are forgotten |
| Shared lists (`lists.py`, `lists_repository.py`) | `shopping_lists.items` (one JSON array), `list_sync_operations` | add, patch, check, remove, reset, clear offers | patches computed from arrays that were read before, whole-array writes, offline operations sent again | no change is applied twice or undone by another one |
| Stream of events (`list_sync.py`) | one Postgres connection per open stream | publish, listen, poll | one channel for all lists, several notifications at once | no event is lost; all are shown in time |
| Membership and invites (`lists.py`) | lists, members, selected lists, invites and their notifications | create, select, invite, answer, revoke, remove | statement by statement, servers that overlap | a list keeps its owner; removed members are shown nothing |
| Purchases (`purchases.py`, `purchased_items_cleanup.py`) | `purchase_history`, checked items | purchase, undo, pages, nightly cleanup | two statements, repetition, pages of a table that changes | recorded once; pages cover the history |
| Inbox (`notifications_repository.py`) | `app_notifications` | list, read, delete | deletion against retries | says what is so |
| Accounts (`auth.py`, `users.py`) | users of Supabase, profiles, avatars | registration, recovery, change of password, deletion | a recovery token is spent by nothing but the time of a change | a token works once (it does not: section 4) |
| Formats, reads, reference data, contact form, runtime, seeds | none, or rows of their own | functions and requests | hardly | - |

How they interact: confirming a flyer (Publication) creates target flyers and
queues one parent job each (Notifications); editing its validity moves that job;
its expiry (Cleanup) withdraws it. A confirmation needs a status that either
extraction sets; both extractions write the same flyer row and drafts, the
trigger by comparing `updated_at`, the local one under the row's lock. Both
read the PDF through the source cache. A digest leaves a row in the inbox, which
its owner may delete while the job is retried, and then pushes. A purchase is
a row of the history and a patch of the list's array; every change of a list is
published to the streams of its members; an invite is a row and a notification
in the inbox. Uploads, publication, deletion and the cleanup share the files of
flyers, offers and purchases the images.

`PROJECT.json` says for each component whether it is modelled, and lists under
"hazards" what is hard to test, line by line, with the property that covers it
or the reason why none does.

## 2. Modules

| module | what it is |
|---|---|
| `FlyerAnnouncements` | abstract: what the notification pipeline promises to users |
| `FlyerDigest` | the pipeline, one action per request or transaction |
| `FlyerSourceCache` | the disk cache, one action per lock operation or file operation |
| `ExtractionLog` | abstract: an append-only log of chunks |
| `LocalExtraction` | sessions of local workers, one action per transaction |
| `Publication` | the life of one extracted flyer: targets, offers, copies, clones, jobs; one action per request to the database |
| `CloudExtraction` | the server's runs on one flyer, one action per request to the database or call of the provider |
| `FlyerFiles` | rows, files, previews and images: uploads, preflight, deletion, cleanup |
| `ShoppingList` | the items of one list and the purchases from it, one action per statement |
| `ListMembers` | lists, members, selections, invites and their notifications, one action per statement |
| `ListSync` | the streams of a list's events |
| `PurchaseHistory` | pages of the history of purchases |
| `Processes` | the servers and the handlers they run, for the three modules around it |
| `PushDelivery` | subscriptions of devices and what is sent to them |
| `Accounts` | registration, recovery of a password, avatars, deletion |
| `MC*` | instances for TLC: values of the constants, symmetry |
| `*Proofs` | theorems: of `ListMembers`, `ListSync` and `PurchaseHistory` in `ListsProofs`, of `FlyerFiles` and `PushDelivery` in `HandlersProofs`, of the others but `Accounts` in a module with their name |

`LocalExtraction` implements `ExtractionLog` and `FlyerDigest` implements
`FlyerAnnouncements` under the refinement mappings at their ends. Two MC
modules put together several small modules that share no variable:
`MCListMembers` extends `ListMembers`, `ListSync` and `PurchaseHistory`;
`MCFlyerFiles` extends `FlyerFiles`, `PushDelivery` and `Accounts`, which have
the constants of `Processes` in common. There the variable `part` is chosen
in the first state and only that part moves, so a run is the union of
the runs of its parts and not their product.

In several modules an operator whose comment calls it a mutant stands before the
definition it varies: it is the bug that the property it names would find
(`PROJECT.json`, "mutants"), and no specification uses it.

### FlyerDigest

`parent`, `event` and `digest` are the three kinds of rows of
`notification_jobs`, identified by their idempotency keys: a flyer, a user and
a flyer, a user and a Rome day. A job has a status, attempts, `available_at`
and whether its `locked_at` is too old (`expired`). A digest also has its
frozen snapshot (`flyers`), the events it consumed, when its delivery was
reserved (`started`, the payload's `delivery_started_at`) and what was
announced (`items`). `inbox` is the row in `app_notifications`, `pushes` counts
the calls of `_send_push_to_user`. The other variables are the local state of
the workers: `pc`, the parents claimed and not dispatched (`todo`), the parent
being fanned out (`fanout`), the `now` read before `prepare`, the digests
claimed and not looked at (`batch`) and to deliver (`out`).

Time counts half days, because 10:00 in Rome and midnight are all the code
looks at. A worker goes through `run_pending`: `StartCycle` (advisory lock,
`_release_stale_jobs`), `ClaimParents` / `CheckParent` / `EnqueueRecipient` /
`FinishParent` (`_drain_parents`, one request each), `Prepare` (one
transaction: rollover, defer or consume, insert), `ClaimDigests`,
`ReserveDelivery` or `SkipDelivery` (one transaction per digest), `Unlock`, and
then without the lock `Push`, `MarkDone`, `MarkFailed`. It may crash anywhere;
an exception that leaves `run_pending` is the same to the rows. A lock may time
out at any time while a job is in processing, so a slow worker's job is
requeued under it. Around the workers: publications, withdrawals, edits of the
validity (two requests, `EditValidity` and `Reschedule`), users who delete the
inbox row, and the clock.

Not in the module: the claim and the release without `DB_DSN` (a cycle refuses
to start without it), recipient jobs that carry one flyer from before the
digests, the recipients' computation (every user is a recipient), the order of
`created_at` among parents.

### FlyerSourceCache

`file` is the content of each `<key>.bin` (with the right fingerprint or not),
`recency` the order of modification times, `expired` those older than the time
to live; `keyLock` and `budget` the holders of the flocks. A lease is
`Request`, `Acquire` (lock and `_valid`), `StartDownload` / `EndDownload` or
`FailDownload` (`_populate`), `Touch`, `StartPrune` / `PruneFile` / `EndPrune`
(`_prune`, one `_evict` at a time), the reading, `Release` and a second prune.
The size of a set of files is the number of units in it (`Content`), so that
what the prune sums up file by file is a cardinality.
Processes die with their locks released and their `.part` file left; time
passes for files and partial downloads; a file no one leases may be damaged.

### LocalExtraction

One flyer. `status`, `config`, `owner`, `active` (the lease is in the future),
`receipts`, `nextIndex`, `count` (`partial_products_count`) are the row and its
metadata; `drafts` and `confirmed` its offers. `Claim`, `Heartbeat`,
`CommitChunk`, `ReplayChunk` and `Fail` are transactions under the row's lock;
`finish` is two, with the crops in between (`StartFinish`, `EndFinish`). Any
worker may send any request at any time, so loss, repetition and reordering
need no actions of their own: a late request is one that is sent now. Requests
that end in 409 change nothing and are not steps. The server's extraction is an
environment: its trigger reads the row and then claims it by comparing
`updated_at` (`ReadTrigger`, `ClaimTrigger`), it saves drafts and a checkpoint,
and ends. Administrators add, delete and confirm drafts. A single server
extraction runs at a time here; what several do to each other is in
`CloudExtraction`.

### Publication

One source flyer: `exists`, `date` (its validity), `targets` (`flyer_targets`),
`offer`. Its published copies are numbered in the order of insertion; `market`
is the supermarket of a copy, `None` when there is no such row, `clone` the
published offer of a source offer and a market, which the unique index on
`(source_offer_id, supermarket_id)` makes a function. `job` and `jobDate` are
the copies' `flyer_published` jobs. Deleting a row deletes what refers to it
(`Without`, `DeleteFlyer`), as the foreign keys say.

The handlers of `api/routers/flyers.py` are `async` functions that call the
database synchronously: between their requests there is no `await`, so a process runs one
of them at a time, and `render.yaml` starts one process. `Servers` is the set of
processes; a handler is a path of `pc` through one action per request that
writes, with the reads just before it, except that the lookup of published
copies is a step of its own because its result is used long after it:
`confirm_offers` is `StartConfirm`, `Confirm`, `Count`, then, shared with
`update_flyer_targets` (`StartTargets`, `Unlink`, `Link`, `Reread`),
`Lookup`, `Hide`, `Remove`, `Update` / `Insert` for each target, `Materialize`,
`Enqueue` for each new copy. `update_flyer_validity` is `StartValidity`,
`OfferDates`, `FindCopies` and for each copy `CopyDate`, `CloneDates`,
`Reschedule`. Offers are added, edited (`EditOffer`, `Refresh`) and deleted
(`StartDelete`, `Delete`). A handler stops between any two steps when the
process dies or a request fails (`Fault`), or when the database refuses a
request (`Refusal`): a row of a flyer that was just deleted, a duplicate key,
two copies of one market in a materialization. Beside the handlers the nightly
cleanup, a thread, deletes the flyer, and the notification worker takes jobs and
gives back those that fail.

Not in the module: `products_count` of a copy, pictures of drafts (`FlyerFiles`),
several uploads of one file (which only narrow the requested targets), the
summaries that follow from a job (`FlyerDigest`).

### CloudExtraction

One flyer, a PDF of `Chunks` chunks or an image. `row` is its status and what
of `extraction_metadata` decides anything: `last_completed_chunk`,
`next_chunk_index` (0 for none), `resume_available`, whether products were
counted, and the stage; `saved` are the chunks whose drafts were ever inserted.
A request reads the row (`ReadTrigger`) and claims it by comparing what it
read; a run then goes through `run` one request at a time: fetch, begin chunk,
report, call the provider (then once more for each page that seems sparse, which
all of a chunk's pages may, each call repeated up to `MaxRetries` times), persist the drafts, write the
checkpoint, write the progress, verify, finish. The handler of errors is two
steps, because it rewrites the metadata it read before. A run raises (`Raise`)
or ends without a trace (`Vanish`) anywhere. `Restart` stops all runs;
`NewServer` starts a server beside one that still works, if `rolling`;
`Recover` reads the interrupted row and writes it back. Time is the number of
provider calls since the row was written: `GoesSilent` needs `StaleCalls` of
them in every live run. `WindowAssumption`, that a chunk takes no more than
`(Pages + 1) * MaxRetries` calls and these fit in the window, is the claim of
`docs/configuration.md:89` and of the comment at `flyers.py:64`: with 2 pages
and 3 attempts, nine calls of 8 minutes each in 90 minutes. It depends on the
size of a chunk, which a resumed run takes from its checkpoint (section 6).

### FlyerFiles

`rows` are source flyers and copies with the path they refer to and the
preview; `objects`, `previews` and `crops` the buckets; `images` the crops that
offers show and `history` those that purchases show. A handler is a path of
`calls`: `CompleteFlyerUpload`, `InsertSourceFlyer` (or the refusal that removes
the object), `InsertFlyerTargets`, `SaveFlyerPreview`, `LinkFlyerPreview`;
`DeleteFlyerObjects`, `DeleteFlyerRow`. The cleanup is `StartCleanup`, then for
each source in the list it read `FlyerFamily`, `DeleteExpiredRow`,
`RemoveUnsharedImages`, `RemoveFlyerObjects`. Each may stop between two
requests. `Decide` and `DecideByMetadata` are what the two preflights answer in
a state. `doomed` remembers whose deletion was asked for.

### ShoppingList

`items` maps identifiers to items with who checked and who bought them, whether
that is old, and the offer they are pinned to; `opLog` is
`list_sync_operations`; `history` the rows of purchases; `direct` chooses
between the Postgres connection and the functions of the database, which order
their statements differently. A request is received once membership was
verified and the array read; then each of its statements is a step. `acked` and
`bought` are what clients were told, and an offline operation may be sent
again at any time, also while its first attempt runs. The nightly cleanup and
the reset write the whole array they read (`WroteArray`).

### ListMembers, ListSync, PurchaseHistory

`ListMembers`: a handler of `lists.py` decides from what it reads, in one step
that leaves the statements to execute in `job[s].todo`; each is a step, and the
server may stop between two. Handlers of one server exclude one another, since
nothing is awaited; `Fleets` allows one server, or two during a deployment.
`InsertListInvite` is refused by the unique index on pending invites.

`ListSync`: a change and its `NOTIFY` are two statements; `wire` is what a
connection received, `notifies` what `poll` moved into it. The stream takes one
notification per wake-up and polls only when the socket is readable.
`PurchaseHistory`: the keyset pagination by time and id, with purchases that
arrive late, are undone, or leave the period between two pages.

### PushDelivery, Accounts

`PushDelivery`: subscribing deletes the rows other users have for the endpoint
and then writes one's own; a delivery reads the subscriptions once, sends to
Web Push and then to FCM endpoints, and last deletes the stale ones of whoever
has them. `tokenAge` is the age of the cached FCM access token.

`Accounts`: a version stands for the user's `updated_at`. `AuthUserUpdatedAt` is
what the backend makes of it for a recovery token: the time if the client hands
it out as text, nothing otherwise. `TimesAreText` says which; the pinned client
hands out datetimes, so every run has `FALSE`. A token's `issued` is a ghost for
the property. An avatar is stored before the profile, whose request may fail.

## 3. Runs

| run | asks | bounds |
|---|---|---|
| `digest_workers` | at most one push; one planner; a flyer in one summary; superseded digests let go of their events | 2 workers, 1 user, 1 flyer, 2 days, 2 attempts, 1 fault, 1 edit |
| `digest_live` | the abstract specification; every public flyer is announced, if need be the day after; every job settles | 1 worker, 2 flyers, 2 days, 2 attempts, 1 fault, which only happens while the first flyer is the only one |
| `cache` | readers keep files; downloads keep `.part`; unused files fit; every lease ends | 3 processes, 2 sources that do not fit together, 3 leases, 2 faults |
| `local` | drafts are the receipts'; no takeover; append-only log; a session with drafts is resumed to its end | 2 workers, 3 chunks, 2 contents of each, one without drafts, 2 configurations, 2 edits |
| `publication` | one copy per market; only confirmed offers are public; a complete publication repairs what others left; new copies are announced on the right day | 1 process, 2 markets, 2 offers, 2 texts, 2 validities, 4 requests, 1 fault, 4 copies |
| `shopping_list` | nothing is added or bought twice; an answered purchase stays; late patches stay local | 2 users, 2 items, 1 offer, 3 requests, 2 at once, 1 restart, both ways to the database |
| `cloud_extraction` | no chunk is skipped; one run; no flyer stays in processing | 2 runs, 2 chunks of 2 pages, 2 attempts at a call, a window of 6 calls (the least allowed), 3 triggers, 1 fault; with and without overlapping servers |
| `list_members` | the owner stays; closed invites stay closed; no event is lost; pages cover the history | 2 users, lists and invites, 4 requests, 1 fault, 1 or 2 servers; 2 streams, 4 changes; 4 purchases at 2 times, pages of 1 |
| `flyer_files` | flyers keep their file; a market gets a document once; only gone endpoints are dropped; accounts move without a property | 2 rows, markets, uploads and documents, 1 image, 1 fault, 1 moved validity, `FilesBound`; 2 users, endpoints and deliveries; 1 account, 4 changes |
| `copy_delete` | (refuted) flyers keep their file when a copy's deletion is asked for | the same |
| `recovery` | (refuted) a recovery token is younger than the password it changes | 1 account, 4 changes, 1 server |
| `list_stream` | (refuted) every event is sent in the end | 2 streams, 3 changes, no fault |

Why the bounds are enough to be interesting: two workers are the least for an
expired lock or a second planner, two attempts for a retry of what another
worker still does; two days allow a rollover and a deferral, two flyers an event
before and one after the day's digest. In the cache a source that fills it and
one that fills half of it force an eviction on every miss, and three processes
allow a reader, a downloader and a pruner at once. Three chunks have a first, a
middle and a last one; two contents tell a replay from a conflict; offers
shared by two chunks tell a set from a multiset. Four requests to a flyer with
two markets are enough to publish, fail while the targets change, repeat, and
edit what was published; two offers tell one that is confirmed from one that is
not, and the cap on copies, one per market and request at most, is met only by
retargeting again and again. Three requests on a list are an attempt, its
repetition and another member's change, two of them under way at once. Three
triggers of two runs are a first, one that resumes it and one that restarts;
two chunks tell "the next" from "the first", and two pages a first answer from
a second look. Four requests about two lists invite, answer, remove and select.
`FilesBound`, a state constraint, leaves either two uploads with one fault or
moved validity, or one upload with an image: the two features meet in no
statement. Every other bound is a constant of its module, named there as one,
in the guard it limits; `LastDay` also bounds the clock, so
`EventuallyAnnounced` excuses a flyer that waits for a day beyond it.

Deadlock is checked in the runs of `FlyerDigest`, whose workers always find
another cycle to start. The other systems may come to rest (all leases were used,
a flyer is done, the requests are used up).

### Fairness

`FlyerDigest`: the scheduler starts a cycle every minute and every request has
a deadline, so a cycle proceeds (`Plan`, `Deliver` are weakly fair per worker);
time passes and locks expire; `_sync_flyer_validity` goes on to its second
request. Faults are not fair. `FlyerSourceCache`: threads are scheduled,
downloads have timeouts and readers end their lease; the kernel's order of
waiters is not assumed, it is the bound on leases that keeps others from
overtaking a waiter for ever. `LocalExtraction`: operators resume sessions
(`Claim` weakly fair) and a worker whose lease is active again and again
delivers its next chunk and finishes (strongly fair): the documented worker
retries deliveries, and is started again after an error. `Completes` excuses two
kinds of session that `finish` refuses: one that an administrator edited, who
may have deleted every draft, and one all of whose chunks are in and gave no
draft (`Barren`). The second can never finish by itself: `finish` requires one
draft (`session.py:89`), and a receipt is not replaced.
`CloudExtraction`: background runs are scheduled and their requests and calls
have deadlines (`Step` weakly fair per run), and a server recovers before it
serves (`Recover`); triggers, faults and silence are not fair. `Ends` excuses a
run that ended without a trace, which only a later start of the server mends.
`ListSync`: a handler goes on to its `NOTIFY`, and a stream whose socket is
readable is scheduled. All other modules have safety properties only.

## 4. What the code does otherwise

Three runs show it (`PROJECT.json`, "findings"):

* **Deleting a published copy takes the file of its source** (`copy_delete`).
  `delete_flyer` (`flyers.py:1608`) selects the row without `flyer_kind`, so the
  check that refuses copies never does; the handler removes the path and the
  preview that the copy shares with the source flyer and the other copies.
* **A recovery token is accepted again** (`recovery`). The token carries the
  time of the user's last change so that any change spends it, but
  `_auth_user_updated_at` (`auth.py:28`) drops a time that is not text, and the
  pinned client (supabase 2.10.0, `requirements.txt:3`) hands out datetimes. Both
  sides of the comparison (`auth.py:231`) are then nothing, and the token changes
  the password any number of times until it expires. The test that a replayed
  token is rejected (`tests/test_auth_router.py:203`) passes because its mock
  has text. With `TimesAreText = TRUE`, and one server, `RecoveryIsFresh` holds.
* **An event that arrives with another one waits** (`list_stream`).
  `wait_for_list_sync_event` (`list_sync.py:100`) takes one notification and
  leaves the others in the connection, then waits for the socket.

Further statements of documents, tests or docstrings fail in the model. They are
stated in the modules, next to their sources, without a run of their own:

| statement | module | what happens |
|---|---|---|
| `OneSummaryPerDay` (`README.md:15`) | `FlyerDigest` | more digests than a batch at the end of a day go out after midnight, and the new day's at ten |
| `FutureFlyerWaits` (`docs/jobs.md:9`) | `FlyerDigest` | validity and job time are two requests; a worker between them finds the flyer not eligible and closes the job |
| `FinishHasDraft` (`docs/local-production-extraction.md:28`) | `LocalExtraction` | `finish` reads the count stored with the last chunk, not the drafts |
| `AnswerMeansPublished` (docstring of `confirm_offers`) | `Publication` | a confirmation that stops after its first request is answered at once when repeated, and publishes nothing |
| `AppendIsAtomic` (`tests/test_lists_quantity.py:467`) | `ShoppingList` | through the direct connection the operation is recorded before the item, so a repetition is answered for an addition that never happened |
| `CleanupTakesPurchasedOnly` (`purchased_items_cleanup.py:1`) | `ShoppingList` | the array is written as it was read; what was added meanwhile is lost |
| `ActiveListOpens` (docstring of `get_active_list`) | `ListMembers` | a server that stopped between a list and its owner's row leaves a list its owner is not a member of |
| `RestartKeepsCheckpoint` (`docs/configuration.md:90`) | `CloudExtraction` | recovery does not offer to resume every run that has a checkpoint |
| `MetadataKnowsTargets` | `FlyerFiles` | the preflight by metadata compares whole sets of markets |
| `CleanupTakesExpiredOnly` | `FlyerFiles` | the list of expired flyers is read once; a validity moved meanwhile does not save its flyer |
| `HistoryKeepsImages` | `FlyerFiles` | the cleanup counts offers that show an image, not purchases |
| `PushesReachTheirUser` | `PushDelivery` | a delivery that read its subscriptions before a device changed hands sends to the device's new user |
| `DeletedLeavesNothing` | `Accounts` | avatars stay |

`OneFlyerPerMarket` fails with two servers (`Servers = 2`): conflicts are read,
then the rows and their markets are written, and no index backs the check.
`FileKept` fails when the completion of an upload may be repeated
(`MaxCompletions = 2`): the repetition is refused as a duplicate, and the
refusal removes the object the first row refers to (`flyers.py:1404`). The runs
ask for each completion once.

Also stated without a run, because the runs ask for what matters most, are
`OnePendingInvite`, `OneOwnList` and `InboxAgrees` (`ListMembers`, with
theorems in `ListsProofs`), `RemovedMemberNotShown` (which the definition of
what a user is shown implies), `DoneStays` (`CloudExtraction`), `AnsweredAddKept` and
`ViewAgrees` (`ShoppingList`), which have theorems too, and the type invariants of the modules whose runs
do not name one.

## 5. Theorems

All for arbitrary constants, under the modules' named assumptions: sets of users,
flyers, processes and offers are finite, the null value is none of their
elements (nor, where a row or a job may be null, a row or a job), bounds are
naturals, a page has at least one row, as `ge=1` of its query says. Every
invariant and every action property of the passing runs is the statement of a
theorem; some hold, and are proved, under a hypothesis that the theorem states:

* one server (`OneServer`, or one process in `Servers`), because `render.yaml`
  starts one and no index or lock does the same for two;
* no fault, where a property is about what nothing but a repetition would mend;
* `OnceEach`: an upload is completed once and the deletion of a published copy is
  not asked for. Without the second half the run `copy_delete` refutes the
  property, without the first a hazard of `PROJECT.json` does.

`FlyerDigestProofs`: `TypeCorrect`; `PlanningIsExclusive`; `PushedAtMostOnce`;
`AnnouncedOnce`. `PlanningExclusive` says that nobody else plans while a worker
has claims, that the parents it claimed stay in processing, and that the digests
it claimed do not go back to the queue. They need not stay in processing: a worker
that outlived its lock may end them (`_mark_done` and `_mark_failed` do not ask
who holds a job), and the reservation asks for `delivery_started_at` alone. It is
inductive together with the types once it is said that a worker at a planning
step holds the lock (`BatchInv` is the half about digests: only
`_release_stale_jobs` requeues, and that under the lock). `AtMostOnePush` is
not: `PushInv` adds that a digest somebody is about to push is reserved, not
yet pushed, and about to be pushed by one worker only. `NoFlyerAnnouncedTwice`
needs most: `OwnInv` says that every event a reservable or announced digest
consumed is marked as consumed by that day, which is why a rollover can return
an event only to a digest that will never be announced. `SupersededDigestsLetGo`
needs no more than the types and `PushInv`: what a superseded digest held, the
rollover gave back, and nothing wakes it again.
`PipelineImplementsAnnouncements` is the refinement of `FlyerAnnouncements`,
with the reservation of a delivery as its `Announce`, the push as its `Push` and
all other steps as stutters; `SeenInv` (only reserved digests reach the inbox,
and they say something) is what makes a reservation happen once.
`DeletedStaysDeleted`, an action property, follows from the same invariants.

`FlyerSourceCacheProofs`: `CacheInv` says which locks a process owns at each
step and that a leased file is valid; it is inductive. `SourceRetained` and
`DownloadKeepsPart` follow from it. `UnusedSourcesFit` needs `LimitInv`: the
budget lock keeps the list and the sum a prune works with equal to the
directory (`Listed`, `PrunesAgree`), who locks a key leases it
(`HoldersLease`), and while there is no fault, what the last prune of a lease
leaves is within the limit or in use by others (`LastPruneFits`). The
last of them to leave prunes alone, so what nobody uses fits. `PruneFindsFiles`
follows from the same invariant.

`LocalExtractionProofs`: `TypeCorrect`; `DraftsAreTheReceipts`;
`LeaseRespected`; `ImplementsExtractionLog`. The invariant `IInv` adds that a
flyer once local stays local: only sessions have owners, and a trigger of the
server's extraction that would still succeed never read a local flyer, because
each claim moves `updated_at`. The refinement maps the log to the receipts
before `nextIndex`; a claim of a new session is `Start`, a committed chunk
`Commit`, the second transaction of finish `Complete`, all other steps stutter.

`PublicationProofs`: `TypeCorrect`, with the absence of orphans;
`OnlyConfirmed`, inductive once ids are known not to be given twice (`NewIds`:
the market of an inserted copy cannot change under a clone that exists); both
for any number of processes. `OneCopyForEachMarket` needs a single process:
`LookupCurrent` says that between the lookup and the last insertion every
remaining market with a copy was found to have one, which a second process
would break, since no index forbids two copies. So do `PublicationCompletes`
and `CopiesAnnounced`. `RepairInv` says for each step of each handler how far
the copies follow the source already (`SyncedSoFar`): a publication
establishes that whatever it found, every other handler keeps it if the ones
before it completed. `AnnounceInv` says for each step which copies have
their job by now and with which date (`AnnouncedSoFar`).

`ShoppingListProofs`: `TypeCorrect`; `AdditionsApplyOnce`; `PurchasedOnce`;
`AnsweredPurchasesStay`; `PatchesStayLocal`; `PurchasesSurvivePatches`;
`AnsweredAdditionsStay`; `ViewsAgree`; for any
number of members, items, offers, requests under way and restarts.
`TypeInv` says of each request which step goes with which operation, which is
what keeps a late patch to its own fields and gives `PurchaseNotOverwritten`.
`BuyInv`: before an offline purchase patches its item it is recorded or was
undone. `OnceInv`: an item is added under one kind of identifier, a recorded
operation is what tells a second attempt of the first, and a request that
appends without asking again is the only one to add its item. `AnswersInv`:
behind the functions of the database whatever is recorded took effect, so that
`AnsweredAddKept` holds there; a server with its own connection records first
and may stop before it appends (`AppendIsAtomic`, section 4). `LiveInv`: no
array that somebody read holds an item that was never added, so that a patch
brings none back.

`CloudExtractionProofs`: `TypeCorrect`; `ChunksAreStored`; `RunsExclude`;
`DoneIsFinal`.
`NothingSkipped` becomes inductive once it also holds of every copy of the
metadata that somebody carries: the runtime state of each run, the row the
handler of errors read, the row the startup recovery read. `OneRun` needs
`CallsInv`, a budget: since the row was written, a run called at most
`MaxRetries` times for the batch and for each page it has looked at again, of
which there are at most `Pages`, and as often as it tried the one it is at, so
with `WindowAssumption` never `StaleCalls` times without writing. Then a live run is never silent, and `Alone` follows: no second
run is let in, and who read the row before it was claimed loses the comparison.
`DoneInv` adds that nobody who may still claim a flyer has seen it done, and that
recovery, during which one server serves nothing, marks what is in processing:
hence `DoneStays`.

`ListsProofs`, members: `TypeCorrect`; `OwnersStay`, for any number of servers.
What is about to be deleted is not the owner's row when the handler decides so,
but other statements run before it is deleted: the invariant adds that every
list with a member, an invite or a join under way has an owner's row already,
that a list under construction has none, and that nobody else constructs it
(`OneCreates`), so that no row becomes an owner's behind the handler's back.
`SerialInv` is about what a handler read before its statements: with one server
it still holds when they are executed (`JobsHold`: the user still has no list,
the invite is still open or not yet there), and whoever closed an invite has
its notification among the statements that are left (`InboxSettles`). Hence
`ClosedInvitesStay`, `OneListOfTheirOwn` and `InboxTellsTruth`;
`OneOpenInvite` holds for any number of servers, because of the index.

Streams: `StreamsLoseNothing`. `SyncInv` says that what a connection holds,
taken and untaken, is the end of the sequence of all notifications, and that
the stream told as many events as its list has between its connection and that
end. A new notification, a poll and a taken event each move one boundary of
these intervals; their sizes are cardinalities of sets of indices, for which
the library has what no induction is needed for.

History: `PagesComplete`. `HistoryInv` says that what the reader has is no older
than the cursor and that what lasts and was not read is older. That the
rows of a page are the newest ones, and that a full page has an oldest row
(`NewestFirst`, `OldestIsOldest`, `NewestFills`, for any limit), rests on the
existence of a least number in a set of numbers.

`HandlersProofs`, files: `PreflightIsSafe`: a path is taken by one upload, so
that what is in the bucket at the path of a row is the row's document, or
nothing (`FileInv`). `FilesAreKept`, for any number of servers beside the
cleanup, under `OnceEach`: `KeptInv` adds that copies share the path of their
source and sources share none, that a row under way has a path of its own, and
that the paths the cleanup is about to remove are nobody's, neither a row's nor
an upload's (`SweepInv`), through every step of the others. `OneServerOneFlyer`:
between the check of the conflicts and the write of the markets no other
handler runs, and the cleanup only takes rows away (`ApartInv`).

Push delivery: `OnlyGoneAreDropped`, since stale endpoints are among
those that are gone for good; `OneServerOneOwner` under the hypothesis of one
server, because no index says so; `TokensAreValid` under the
hypothesis that a token is reused for no longer than it is valid.

Only model-checked: liveness (`EventuallyAnnounced`, `Settles`, `LeasesEnd`,
`Completes`, `Ends`), which with fairness and ENABLED is beyond the prover, and
the statements listed at the end of section 4 that have no theorem.

## 6. Not modelled

* `product_format.py` and the normaliser turn free text into numbers and units
  with regular expressions: their correctness lies in the patterns, which a
  model would have to copy character by character.
* The search for offers, the comparison of prices and other reads: filters that
  the database evaluates. What of a list's offers a member is shown is in
  `ShoppingList`.
* Prompts, answers and images of the model providers; only their loop, retries
  and errors are in `CloudExtraction`.
  The pages of a chunk are a constant: that a resumed run keeps the size its
  checkpoint was written with, whatever the configuration says now, is left out,
  and with a larger size than two the nine calls of `flyers.py:64` are more.
* Contact requests: forms that send one e-mail and store nothing. Supermarkets,
  municipalities, location and analytics: reference data, single updates.
* The connection pool, configuration, seeds and scripts: the modules assume that
  a connection is had or a call fails.
* Sign-in and the verification of tokens, which are Supabase's.
* The claims of notification jobs without `DB_DSN`, which nothing reaches, and
  recipient jobs from before the digests.
