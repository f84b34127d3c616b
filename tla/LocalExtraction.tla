---------------------------- MODULE LocalExtraction ----------------------------
(***************************************************************************)
(* Extraction of one source flyer by workers outside the server:           *)
(* services/extraction/local.  A worker claims a lease, sends the flyer's  *)
(* chunks in order and finishes; each request is one transaction on the    *)
(* locked flyer row, finish is two with the crops in between.  Requests    *)
(* are repeated, delayed and reordered by workers that lost their lease or *)
(* an answer: any worker may send any request at any time.                 *)
(*                                                                         *)
(* Around it, administrators edit and confirm drafts, and the flyer may be *)
(* taken by the extraction that runs in the server (api/routers/flyers.py),*)
(* of which only the drafts, the checkpoint and the final status are here. *)
(***************************************************************************)
EXTENDS Integers, Sequences, FiniteSets

CONSTANTS
  Workers,    \* owner and worker_id of a lease
  Configs,    \* configurations a claim may name
  MaxChunks,  \* most chunks of an extraction (pages_total <= 500)
  Chunks,     \* number of chunks under a configuration
  Payloads,   \* contents a chunk may have, identified by their digest
  Offers,     \* draft offers, by offer_key and format_key
  Drafts,     \* drafts of a payload sent for a chunk
  None,       \* no owner, no configuration, no receipt
  MaxEdits    \* bound: manual additions and deletions of drafts

ASSUME NoneAssumption == None \notin Workers /\ None \notin Configs /\ None \notin Payloads
ASSUME ChunksAssumption == MaxChunks \in Nat /\ Chunks \in [Configs -> 1..MaxChunks]
ASSUME DraftsAssumption ==
  /\ IsFiniteSet(Offers)
  /\ Drafts \in [(1..MaxChunks) \X Payloads -> SUBSET Offers]
ASSUME BoundsAssumption == MaxEdits \in Nat

VARIABLES
  status,     \* flyers.status
  mode,       \* extraction_metadata: absent, of a local session or of the server
  config,     \* the session's configuration
  owner,      \* owner and worker_id of the session
  active,     \* lease_until is in the future
  receipts,   \* digest of each chunk, None before it is committed
  nextIndex,       \* next_chunk_index
  count,      \* partial_products_count
  drafts,     \* unconfirmed offers of the flyer
  confirmed,  \* confirmed offers
  finishing,  \* workers whose finish request is between its transactions
  trigger,    \* what a trigger of the server's extraction read: none, current or stale
  checkpoint, \* the server's extraction saved last_completed_chunk
  edited,     \* drafts an administrator added or deleted
  edits       \* number of those edits

leaseVars == <<config, owner, active>>
chunkVars == <<receipts, nextIndex, count>>
editVars == <<edited, edits>>
vars == <<status, mode, leaseVars, chunkVars, drafts, confirmed, finishing, trigger,
          checkpoint, editVars>>

Indexes == 1..(nextIndex - 1)
Total == Chunks[config]
NoReceipts == [i \in 1..MaxChunks |-> None]

Init ==
  /\ status = "pending"
  /\ mode = "absent"
  /\ config = None
  /\ owner = None
  /\ active = FALSE
  /\ receipts = NoReceipts
  /\ nextIndex = 1
  /\ count = 0
  /\ drafts = {}
  /\ confirmed = {}
  /\ finishing = {}
  /\ trigger = "none"
  /\ checkpoint = FALSE
  /\ edited = {}
  /\ edits = 0

-----------------------------------------------------------------------------
\* Every update of the flyer row moves its updated_at.
Touched == IF trigger = "current" THEN "stale" ELSE trigger

\* Mutant of Resumes: a session that failed is not resumed but replaced.
ResumesUnlessFailed == mode = "local" /\ status # "error"

\* The metadata holds a local session already.
Resumes == mode = "local"

\* Mutant of Claimable: drafts and checkpoints of the server are ignored.
ClaimableMixed(w, c) ==
  /\ confirmed = {}
  /\ status # "done"
  /\ ~Resumes => status \in {"pending", "error"}
  /\ Resumes => config = c /\ (active => owner = w)

\* Mutant of Claimable: a session that failed cannot be claimed again.
ClaimableOnce(w, c) ==
  /\ confirmed = {}
  /\ status \in {"pending", "processing"}
  /\ ~Resumes => status = "pending" /\ drafts = {} /\ ~checkpoint
  /\ Resumes => config = c /\ (active => owner = w)

\* Mutant of Claimable: an active lease of another worker is taken over.
ClaimableActive(w, c) ==
  /\ confirmed = {}
  /\ status # "done"
  /\ ~Resumes => status \in {"pending", "error"} /\ drafts = {} /\ ~checkpoint
  /\ Resumes => config = c

\* What claim and LocalSession.claim check, in one transaction.
Claimable(w, c) ==
  /\ confirmed = {}
  /\ status # "done"
  /\ ~Resumes => status \in {"pending", "error"} /\ drafts = {} /\ ~checkpoint
  /\ Resumes => config = c /\ (active => owner = w)

Claim(w, c) ==
  /\ Claimable(w, c)
  /\ status' = "processing"
  /\ mode' = "local"
  /\ owner' = w
  /\ active' = TRUE
  /\ config' = c
  /\ IF Resumes
     THEN UNCHANGED chunkVars
     ELSE receipts' = NoReceipts /\ nextIndex' = 1 /\ count' = 0
  /\ trigger' = Touched
  /\ UNCHANGED <<drafts, confirmed, finishing, checkpoint, editVars>>

\* _authorized: the lease is this worker's and has not expired.
Authorized(w) ==
  /\ status = "processing"
  /\ mode = "local"
  /\ active
  /\ owner = w

\* Renews the lease, and moves updated_at.
Heartbeat(w) ==
  /\ Authorized(w)
  /\ trigger' = Touched
  /\ UNCHANGED <<status, mode, leaseVars, chunkVars, drafts, confirmed, finishing,
                 checkpoint, editVars>>

\* Mutant of Accepted: any chunk that has no receipt is accepted.
AcceptedAnyOrder(i) == i \in 1..Total /\ receipts[i] = None

\* accept: the next chunk, and no other.
Accepted(i) == i \in 1..Total /\ i = nextIndex

\* New contents: drafts, receipt and checkpoint commit together.
CommitChunk(w, i, x) ==
  /\ Authorized(w)
  /\ Accepted(i)
  /\ drafts' = drafts \union (Drafts[<<i, x>>] \ confirmed)
  /\ receipts' = [receipts EXCEPT ![i] = x]
  /\ nextIndex' = i + 1
  /\ count' = Cardinality(drafts')
  /\ trigger' = Touched
  /\ UNCHANGED <<status, mode, leaseVars, confirmed, finishing, checkpoint, editVars>>

\* The same contents once more: only the count of drafts is brought up to date.
ReplayChunk(w, i, x) ==
  /\ Authorized(w)
  /\ i \in Indexes
  /\ receipts[i] = x
  /\ count' = Cardinality(drafts)
  /\ trigger' = Touched
  /\ UNCHANGED <<status, mode, leaseVars, receipts, nextIndex, drafts, confirmed, finishing,
                 checkpoint, editVars>>

\* finish, first transaction; a flyer that is done is answered at once.
StartFinish(w) ==
  /\ Authorized(w)
  /\ finishing' = finishing \union {w}
  /\ UNCHANGED <<status, mode, leaseVars, chunkVars, drafts, confirmed, trigger,
                 checkpoint, editVars>>

\* Mutant of Finishable: the number of chunks is not compared.
FinishableEarly == count >= 1

\* LocalSession.finish: every chunk, and one draft by the last count of them.
Finishable == nextIndex = Total + 1 /\ count >= 1

\* finish, second transaction: the lease is checked again after the crops.
EndFinish(w) ==
  /\ w \in finishing
  /\ finishing' = finishing \ {w}
  /\ Authorized(w)
  /\ Finishable
  /\ status' = "done"
  /\ trigger' = Touched
  /\ UNCHANGED <<mode, leaseVars, chunkVars, drafts, confirmed, checkpoint, editVars>>

\* The crops fail, or the second transaction is a conflict.
AbortFinish(w) ==
  /\ w \in finishing
  /\ finishing' = finishing \ {w}
  /\ UNCHANGED <<status, mode, leaseVars, chunkVars, drafts, confirmed, trigger,
                 checkpoint, editVars>>

\* The worker reports an error and gives its lease back.
Fail(w) ==
  /\ Authorized(w)
  /\ active' = FALSE
  /\ status' = "error"
  /\ trigger' = Touched
  /\ UNCHANGED <<mode, config, owner, chunkVars, drafts, confirmed, finishing,
                 checkpoint, editVars>>

\* LEASE_SECONDS pass without a renewal.
LeaseExpires ==
  /\ status = "processing"
  /\ active
  /\ active' = FALSE
  /\ UNCHANGED <<status, mode, config, owner, chunkVars, drafts, confirmed, finishing,
                 trigger, checkpoint, editVars>>

-----------------------------------------------------------------------------
(* The server's extraction and the administrators.                         *)

ServerRuns == status = "processing" /\ mode = "server"

\* trigger_extraction reads the flyer: it waits, failed, or its extraction in the
\* server has been silent for too long after a checkpoint ...
ReadTrigger ==
  /\ trigger = "none"
  /\ mode # "local"
  /\ status \in {"pending", "error"} \/ (ServerRuns /\ checkpoint)
  /\ trigger' = "current"
  /\ UNCHANGED <<status, mode, leaseVars, chunkVars, drafts, confirmed, finishing,
                 checkpoint, editVars>>

\* Mutant of Current: the update does not compare status and updated_at.
CurrentIgnored == trigger # "none"

\* The row still has the status and updated_at that were read.
Current == trigger = "current"

\* ... and claims it with a conditional update, or answers that it was claimed.
ClaimTrigger ==
  /\ trigger # "none"
  /\ trigger' = "none"
  /\ IF Current
     THEN status' = "processing" /\ mode' = "server"
     ELSE UNCHANGED <<status, mode>>
  /\ UNCHANGED <<leaseVars, chunkVars, drafts, confirmed, finishing, checkpoint, editVars>>

\* The server saves the drafts of a chunk, and then its checkpoint.
ServerSaves(o) ==
  /\ ServerRuns
  /\ drafts' = drafts \union ({o} \ confirmed)
  /\ UNCHANGED <<status, mode, leaseVars, chunkVars, confirmed, finishing, trigger,
                 checkpoint, editVars>>

ServerCheckpoints ==
  /\ ServerRuns
  /\ checkpoint' = TRUE
  /\ trigger' = Touched
  /\ UNCHANGED <<status, mode, leaseVars, chunkVars, drafts, confirmed, finishing, editVars>>

ServerEnds ==
  /\ ServerRuns
  /\ status' \in {"done", "error"}
  /\ trigger' = Touched
  /\ UNCHANGED <<mode, leaseVars, chunkVars, drafts, confirmed, finishing,
                 checkpoint, editVars>>

\* Manual changes of the drafts look at neither the status nor the lease.
AddDraft(o) ==
  /\ edits < MaxEdits
  /\ edits' = edits + 1
  /\ o \notin drafts \union confirmed
  /\ drafts' = drafts \union {o}
  /\ edited' = edited \union {o}
  /\ UNCHANGED <<status, mode, leaseVars, chunkVars, confirmed, finishing, trigger, checkpoint>>

DeleteDraft(o) ==
  /\ edits < MaxEdits
  /\ edits' = edits + 1
  /\ o \in drafts \union confirmed
  /\ drafts' = drafts \ {o}
  /\ confirmed' = confirmed \ {o}
  /\ edited' = edited \union {o}
  /\ UNCHANGED <<status, mode, leaseVars, chunkVars, finishing, trigger, checkpoint>>

\* The drafts of a finished extraction are published.
ConfirmOffers ==
  /\ status = "done"
  /\ drafts # {}
  /\ confirmed' = confirmed \union drafts
  /\ drafts' = {}
  /\ trigger' = Touched
  /\ UNCHANGED <<status, mode, leaseVars, chunkVars, finishing, checkpoint, editVars>>

-----------------------------------------------------------------------------
Work(w) ==
  \/ \E c \in Configs : Claim(w, c)
  \/ \E i \in 1..MaxChunks, x \in Payloads : CommitChunk(w, i, x) \/ ReplayChunk(w, i, x)
  \/ StartFinish(w) \/ EndFinish(w) \/ AbortFinish(w)
  \/ Heartbeat(w) \/ Fail(w)

Server ==
  \/ ReadTrigger \/ ClaimTrigger \/ ServerCheckpoints \/ ServerEnds
  \/ \E o \in Offers : ServerSaves(o)

Administrators ==
  \/ \E o \in Offers : AddDraft(o) \/ DeleteDraft(o)
  \/ ConfirmOffers

Next ==
  \/ \E w \in Workers : Work(w)
  \/ LeaseExpires
  \/ Server
  \/ Administrators

Spec == Init /\ [][Next]_vars

CommitNext(w) == \E x \in Payloads : CommitChunk(w, nextIndex, x)

\* Operators resume a session that is not done, and a worker whose lease is
\* active again and again delivers its next chunk and finishes: run retries
\* deliveries and is started again after an error (docs/local-production-extraction.md).
Fairness ==
  \A w \in Workers :
    /\ WF_vars(\E c \in Configs : Claim(w, c))
    /\ SF_vars(CommitNext(w))
    /\ SF_vars(StartFinish(w))
    /\ SF_vars(EndFinish(w))

FairSpec == Spec /\ Fairness

-----------------------------------------------------------------------------
\* Every variable has its type; the chunks with a receipt come before nextIndex.
TypeOK ==
  /\ status \in {"pending", "processing", "done", "error"}
  /\ mode \in {"absent", "local", "server"}
  /\ config \in Configs \union {None}
  /\ mode = "local" => config # None
  /\ owner \in Workers \union {None}
  /\ active \in BOOLEAN
  /\ receipts \in [1..MaxChunks -> Payloads \union {None}]
  /\ nextIndex \in 1..(MaxChunks + 1)
  /\ \A i \in 1..MaxChunks : receipts[i] # None <=> i < nextIndex
  /\ count \in Nat
  /\ drafts \subseteq Offers
  /\ confirmed \subseteq Offers
  /\ finishing \subseteq Workers
  /\ trigger \in {"none", "current", "stale"}
  /\ checkpoint \in BOOLEAN
  /\ edited \subseteq Offers
  /\ edits \in 0..MaxEdits

\* What the workers sent in the chunks that have a receipt.
Sent == {o \in Offers : \E i \in Indexes : o \in Drafts[<<i, receipts[i]>>]}

\* The drafts of a local session are those of the chunks it has receipts for, but
\* for manual edits: no repeated or late request and no change of worker adds,
\* loses or mixes any, and none comes from the server's extraction.
DraftsMatchReceipts ==
  mode = "local" =>
    (drafts \union confirmed) \ edited = Sent \ edited

\* A session changes hands only after its lease expired or was given back.
TakeoverWhenExpired ==
  [][owner' # owner /\ owner # None => ~active]_vars

\* The session as an append-only log of chunk contents.
LogSize == IF mode = "local" THEN Total ELSE 0
LogChunks == [i \in Indexes |-> receipts[i]]
LogComplete == mode = "local" /\ status = "done"

Log == INSTANCE ExtractionLog WITH
  size <- LogSize, log <- LogChunks, complete <- LogComplete

\* Whatever workers, administrators and the server's extraction do, chunks are
\* committed once, in order, kept across resumes, and all there when it is done.
ImplementsLog == Log!Spec

\* All chunks of the session have a receipt, and no draft came of any.
Barren == mode = "local" /\ nextIndex = Total + 1 /\ Sent = {}

\* A session that expires or fails any number of times is resumed to its end,
\* unless somebody edits its drafts meanwhile, or it turns out to have none:
\* finish refuses such a session for ever (LocalSession.finish), until somebody
\* adds a draft by hand.
Completes == mode = "local" ~> status = "done" \/ edits > 0 \/ Barren

-----------------------------------------------------------------------------
\* docs/local-production-extraction.md: finish requires at least one valid draft.
FinishHasDraft ==
  [][mode = "local" /\ status # "done" /\ status' = "done" => drafts # {}]_vars
=============================================================================
