--------------------------- MODULE CloudExtraction ---------------------------
(* The server's extraction of one flyer: chunks of a PDF, or one image, that *)
(* a model provider reads, drafts that are stored and a checkpoint that is   *)
(* rewritten, until the flyer is done.                                       *)
(*                                                                          *)
(* src/services/extraction/service.py, providers/gemini.py and ollama.py,    *)
(* extraction_startup_recovery.py, and trigger_extraction of                 *)
(* src/api/routers/flyers.py.  A run holds no lease: it rewrites the whole   *)
(* metadata with every request and never looks whether the flyer is still    *)
(* its own.  A request is a step; so is a call of the provider.              *)
EXTENDS Naturals, FiniteSets

CONSTANTS
  Runs,        \* requests to extract, and the background runs they start
  Chunks,      \* chunks of the PDF
  Pages,       \* pages of a chunk
  MaxRetries,  \* calls of the provider for one payload
  StaleCalls,  \* calls that fit in PROCESSING_RESUME_STALE_AFTER
  Deployments, \* whether a new server starts before the old one has stopped
  None,
  MaxTriggers, \* bound: requests to extract
  MaxFaults    \* bound: exceptions, restarts, runs that end without a trace

ASSUME ConstantsAssumption ==
  /\ Chunks \in Nat \ {0} /\ Pages \in Nat \ {0} /\ MaxRetries \in Nat \ {0}
  /\ StaleCalls \in Nat /\ MaxTriggers \in Nat /\ MaxFaults \in Nat
  /\ Deployments \subseteq BOOLEAN

\* A chunk is called for with its retries, and then each of its pages again.
ASSUME WindowAssumption == (Pages + 1) * MaxRetries <= StaleCalls

VARIABLES
  pdf, rolling, \* what the flyer is and how servers are replaced
  row,     \* the flyer's row: its status and what matters of its metadata
  silent,  \* the row was not written for PROCESSING_RESUME_STALE_AFTER
  saved,   \* chunks whose drafts were stored at some time
  run,     \* the runs
  boot,    \* startup recovery: "up" when it has ended, "due", or "mark"
  interrupted, \* the row it has read, or None
  sent, faults,
  died     \* a run ended, or was stopped, without writing that it did

fixedVars == <<pdf, rolling>>
vars == <<pdf, rolling, row, silent, saved, run, boot, interrupted, sent, faults, died>>

Total == IF pdf THEN Chunks ELSE 1
Index == 0..Chunks

\* extraction_metadata: last_completed_chunk, next_chunk_index (0: none),
\* resume_available, whether partial_products_count and products_found are
\* positive, and the stage.
Row == [status: {"pending", "processing", "error", "done"}, last: Index, next: Index,
        resume: BOOLEAN, counted: BOOLEAN, found: BOOLEAN,
        stage: {"none", "marked", "extracting", "saving", "summary"}]

\* A run: where it is, its chunk, and its runtime state; attempt, left, got and
\* errors are the provider's, calls counts its calls since the row was written.
Run == [pc: {"claim", "late", "fetch", "begin", "report", "call", "persist",
             "checkpoint", "progress", "saving", "verify", "finish", "failed", "fail"},
        chunk: Index, done: Index, counted: BOOLEAN, raw: BOOLEAN, found: BOOLEAN,
        attempt: 0..MaxRetries, left: 0..Pages, got: BOOLEAN, errors: BOOLEAN,
        calls: Nat, failed: Index, read: Row \union {None}]

ASSUME RowAssumption == None \notin Row

NewRun == [pc |-> "claim", chunk |-> 0, done |-> 0, counted |-> FALSE, raw |-> FALSE,
           found |-> FALSE, attempt |-> 0, left |-> 0, got |-> FALSE, errors |-> FALSE,
           calls |-> 0, failed |-> 0, read |-> None]

Running(r) == run[r] # None /\ run[r].pc \notin {"claim", "late"}
At(r, pc) == run[r] # None /\ run[r].pc = pc
\* With one server no request is served before startup recovery ended.
Served == rolling \/ boot = "up"

Init ==
  /\ pdf \in BOOLEAN
  /\ rolling \in Deployments
  /\ row = [status |-> "pending", last |-> 0, next |-> 0, resume |-> FALSE,
            counted |-> FALSE, found |-> FALSE, stage |-> "none"]
  /\ silent = FALSE
  /\ saved = {}
  /\ run = [r \in Runs |-> None]
  /\ boot = "up"
  /\ interrupted = None
  /\ sent = 0
  /\ faults = 0
  /\ died = FALSE
-----------------------------------------------------------------------------
\* Every update of the row renews updated_at, by which a trigger that has read
\* the row before notices that it changed.
Late(runs) == [r \in Runs |-> IF runs[r] # None /\ runs[r].pc = "claim"
                              THEN [runs[r] EXCEPT !.pc = "late"] ELSE runs[r]]
Write(new, runs) ==
  /\ row' = new
  /\ silent' = FALSE
  /\ run' = Late(runs)

Goto(r, pc) == [run EXCEPT ![r].pc = pc]
Wrote(r, pc) == [run EXCEPT ![r].pc = pc, ![r].calls = 0]
Ended(r) == [run EXCEPT ![r] = None]
Stay == UNCHANGED <<fixedVars, saved, boot, interrupted, sent, faults, died>>

\* Mutant of CanResumeStale: a run that writes is resumed as well.
CanResumeAny == row.status = "processing" /\ row.next # 0 /\ row.last # 0

CanResumeStale == /\ row.status = "processing" /\ silent
                  /\ row.next # 0 /\ row.last # 0

ReadTrigger(r) ==
  /\ Served
  /\ run[r] = None
  /\ sent < MaxTriggers
  /\ row.status \in {"pending", "error"} \/ CanResumeStale
  /\ run' = [run EXCEPT ![r] = NewRun]
  /\ sent' = sent + 1
  /\ UNCHANGED <<fixedVars, row, silent, saved, boot, interrupted, faults, died>>

\* The update that claims the flyer finds the row as it was read, or nothing.
ClaimTrigger(r) ==
  /\ Served
  /\ At(r, "claim")
  /\ Write([row EXCEPT !.status = "processing"], Goto(r, "fetch"))
  /\ Stay

LoseTrigger(r) ==
  /\ At(r, "late")
  /\ run' = Ended(r)
  /\ UNCHANGED <<row, silent>> /\ Stay
-----------------------------------------------------------------------------
\* _resume_state
Resumable(m) == pdf /\ m.next \in 1..Total /\ (m.resume \/ m.last > 0)
StartChunk(m) == IF Resumable(m) THEN m.next ELSE 1

FetchFlyer(r) ==
  /\ At(r, "fetch")
  /\ run' = [run EXCEPT ![r] = [@ EXCEPT !.pc = "begin", !.chunk = StartChunk(row),
                                         !.done = row.last,
                                         !.counted = row.counted \/ row.found]]
  /\ UNCHANGED <<row, silent>> /\ Stay

\* _extracting_metadata after n chunks
Extracting(r, n, found) ==
  [row EXCEPT !.last = n, !.next = IF n < Total THEN n + 1 ELSE 0, !.resume = FALSE,
              !.counted = run[r].counted, !.found = run[r].counted \/ found,
              !.stage = "extracting"]

BeginExtracting(r) ==
  /\ At(r, "begin")
  /\ Write(Extracting(r, run[r].chunk - 1, FALSE), Wrote(r, IF pdf THEN "report" ELSE "call"))
  /\ Stay

ReportChunk(r) ==
  /\ At(r, "report")
  /\ Write(Extracting(r, run[r].chunk - 1, run[r].found), Wrote(r, "call"))
  /\ Stay

\* One call of the provider for the chunk, or for a page of it with too few
\* products, once more.
Provider(r, new) ==
  /\ run' = [run EXCEPT ![r] = [new EXCEPT !.calls = @ + 1]]
  /\ UNCHANGED <<row, silent>> /\ Stay

\* What a chunk ends with: an error if all it has is errors; an image ends
\* with whatever it has.
EndOfChunk(x) ==
  IF x.errors /\ ~x.got /\ pdf
  THEN [x EXCEPT !.pc = "failed", !.failed = x.chunk, !.attempt = 0, !.left = 0]
  ELSE [x EXCEPT !.pc = "persist", !.attempt = 0, !.left = 0]
NextPage(x) == IF x.left > 1 THEN [x EXCEPT !.left = @ - 1, !.attempt = 0]
               ELSE EndOfChunk(x)

CallFails(r) ==
  /\ At(r, "call")
  /\ LET x == [run[r] EXCEPT !.errors = TRUE, !.attempt = @ + 1] IN
       Provider(r, IF x.attempt < MaxRetries THEN x ELSE NextPage(x))

\* Pages are sparse next to many products of one other page, or of no page.
CallAnswers(r) ==
  /\ At(r, "call")
  /\ IF run[r].left > 0
     THEN Provider(r, NextPage(run[r]))
     ELSE \E got \in BOOLEAN, sparse \in 0..Pages :
            /\ sparse > 0 => got /\ pdf /\ Pages > 1
            /\ LET x == [run[r] EXCEPT !.got = got, !.left = sparse, !.attempt = 0] IN
                 Provider(r, IF sparse > 0 THEN x ELSE EndOfChunk(x))

\* Products may all be invalid; drafts that exist are left alone.
PersistProducts(r) ==
  /\ At(r, "persist")
  /\ \E valid \in BOOLEAN :
       /\ valid => run[r].got
       /\ run' = [run EXCEPT ![r] =
                    [run[r] EXCEPT !.pc = IF pdf THEN "checkpoint" ELSE "saving",
                                   !.counted = @ \/ valid, !.raw = @ \/ run[r].got]]
  /\ saved' = saved \union {run[r].chunk}
  /\ UNCHANGED <<fixedVars, row, silent, boot, interrupted, sent, faults, died>>

CheckpointPersistedChunk(r) ==
  /\ At(r, "checkpoint")
  /\ Write(Extracting(r, run[r].chunk, FALSE), Wrote(r, "progress"))
  /\ Stay

\* The packshots are saved before the second report of the chunk.
ReportProgress(r) ==
  /\ At(r, "progress")
  /\ LET x == run[r]
         found == x.found \/ x.got
         next == [x EXCEPT !.found = found, !.got = FALSE, !.errors = FALSE, !.calls = 0,
                           !.done = x.chunk]
     IN  Write(Extracting(r, x.chunk, found),
               [run EXCEPT ![r] = IF x.chunk < Total
                                  THEN [next EXCEPT !.pc = "report", !.chunk = @ + 1]
                                  ELSE [next EXCEPT !.pc = "saving"]])
  /\ Stay

Saving(r) ==
  [row EXCEPT !.stage = "saving", !.last = IF pdf THEN Total ELSE run[r].done,
              !.next = 0, !.resume = FALSE, !.counted = run[r].counted,
              !.found = run[r].counted]

StartSaving(r) ==
  /\ At(r, "saving")
  /\ Write(Saving(r), Wrote(r, "verify"))
  /\ Stay

\* "No products extracted from flyer", "No valid products after normalization".
VerifyProducts(r) ==
  /\ At(r, "verify")
  /\ IF run[r].raw /\ run[r].counted
     THEN Write(Saving(r), Wrote(r, "finish"))
     ELSE run' = Goto(r, "failed") /\ UNCHANGED <<row, silent>>
  /\ Stay

Finish(r) ==
  /\ At(r, "finish")
  /\ Write([Saving(r) EXCEPT !.status = "done", !.stage = "summary", !.found = FALSE], Ended(r))
  /\ Stay
-----------------------------------------------------------------------------
ShouldResume(m) == pdf /\ m.next \in 1..Total /\ m.last > 0
ShouldFinalize(m) ==
  /\ m.counted \/ m.found
  /\ IF pdf THEN m.last >= Total ELSE m.stage = "saving"

\* Mutant of ErrorMetadata: the next attempt begins after the chunk that failed.
ErrorMetadataNext(m, failed) ==
  IF failed # 0 THEN [m EXCEPT !.resume = TRUE, !.counted = @ \/ m.found,
                               !.next = IF failed < Total THEN failed + 1 ELSE failed]
  ELSE IF ShouldResume(m) THEN [m EXCEPT !.resume = TRUE, !.counted = @ \/ m.found]
  ELSE m

\* _error_metadata: what the row holds now, with the chunk that failed; a row
\* that has no metadata yet gets none.
ErrorMetadata(m, failed) ==
  IF failed # 0 THEN [m EXCEPT !.resume = TRUE, !.next = failed, !.counted = @ \/ m.found]
  ELSE IF ShouldResume(m) THEN [m EXCEPT !.resume = TRUE, !.counted = @ \/ m.found]
  ELSE m

ReadForError(r) ==
  /\ At(r, "failed")
  /\ run' = [run EXCEPT ![r] = [@ EXCEPT !.pc = "fail",
                                         !.read = ErrorMetadata(row, run[r].failed)]]
  /\ UNCHANGED <<row, silent>> /\ Stay

HandleError(r) ==
  /\ At(r, "fail")
  /\ LET m == run[r].read IN
       Write(IF ShouldFinalize(m) THEN [m EXCEPT !.status = "done", !.resume = FALSE]
             ELSE [(IF m.stage = "none" THEN row ELSE m) EXCEPT !.status = "error"], Ended(r))
  /\ Stay

\* An exception anywhere else in the run goes the same way.
Raise(r) ==
  /\ Running(r)
  /\ run[r].pc \notin {"fetch", "failed", "fail"}
  /\ faults < MaxFaults
  /\ faults' = faults + 1
  /\ run' = Goto(r, "failed")
  /\ UNCHANGED <<fixedVars, row, silent, saved, boot, interrupted, sent, died>>

\* A handler of errors that fails itself; or the old server is stopped.
Vanish(r) ==
  /\ Running(r)
  /\ rolling \/ run[r].pc \in {"fetch", "failed", "fail"}
  /\ faults < MaxFaults
  /\ faults' = faults + 1
  /\ died' = TRUE
  /\ run' = Ended(r)
  /\ UNCHANGED <<fixedVars, row, silent, saved, boot, interrupted, sent>>
-----------------------------------------------------------------------------
\* PROCESSING_RESUME_STALE_AFTER passes; a run is not that slow unless it
\* makes more calls than fit.
GoesSilent ==
  /\ row.status = "processing"
  /\ ~silent
  /\ \A r \in Runs : Running(r) => run[r].calls > StaleCalls
  /\ silent' = TRUE
  /\ UNCHANGED <<fixedVars, row, saved, run, boot, interrupted, sent, faults, died>>

Restart ==
  /\ faults < MaxFaults
  /\ faults' = faults + 1
  /\ run' = [r \in Runs |-> None]
  /\ boot' = "due"
  /\ interrupted' = None
  /\ UNCHANGED <<fixedVars, row, silent, saved, sent, died>>

NewServer ==
  /\ rolling
  /\ boot = "up"
  /\ faults < MaxFaults
  /\ faults' = faults + 1
  /\ boot' = "due"
  /\ UNCHANGED <<fixedVars, row, silent, saved, run, interrupted, sent, died>>

\* Startup recovery reads the flyers in processing and marks each as failed.
ReadInterrupted ==
  /\ boot = "due"
  /\ IF row.status = "processing"
     THEN boot' = "mark" /\ interrupted' = row
     ELSE boot' = "up" /\ UNCHANGED interrupted
  /\ UNCHANGED <<fixedVars, row, silent, saved, run, sent, faults, died>>

\* Mutant of MarkInterrupted: only what can be resumed is marked.
MarkResumable ==
  /\ boot = "mark"
  /\ IF interrupted.last # 0 /\ interrupted.next # 0
     THEN Write([interrupted EXCEPT !.status = "error", !.resume = TRUE], run)
     ELSE UNCHANGED <<row, silent, run>>
  /\ boot' = "up"
  /\ interrupted' = None
  /\ UNCHANGED <<fixedVars, saved, sent, faults, died>>

IsResumable(m) == m.last # 0 /\ m.next # 0
MarkInterrupted ==
  /\ boot = "mark"
  /\ Write([interrupted EXCEPT !.status = "error", !.resume = IsResumable(interrupted),
                                !.stage = IF @ = "none" THEN "marked" ELSE @], run)
  /\ boot' = "up"
  /\ interrupted' = None
  /\ UNCHANGED <<fixedVars, saved, sent, faults, died>>

Step(r) ==
  \/ ClaimTrigger(r) \/ LoseTrigger(r) \/ FetchFlyer(r) \/ BeginExtracting(r)
  \/ ReportChunk(r) \/ CallFails(r) \/ CallAnswers(r) \/ PersistProducts(r)
  \/ CheckpointPersistedChunk(r) \/ ReportProgress(r) \/ StartSaving(r)
  \/ VerifyProducts(r) \/ Finish(r) \/ ReadForError(r) \/ HandleError(r)
Recover == ReadInterrupted \/ MarkInterrupted

Next ==
  \/ \E r \in Runs : Step(r) \/ ReadTrigger(r) \/ Raise(r) \/ Vanish(r)
  \/ GoesSilent \/ Restart \/ NewServer \/ Recover

\* Runs go on, and a server that starts recovers.
Fairness == (\A r \in Runs : WF_vars(Step(r))) /\ WF_vars(Recover)

Spec == Init /\ [][Next]_vars
FairSpec == Spec /\ Fairness
-----------------------------------------------------------------------------
TypeOK ==
  /\ pdf \in BOOLEAN
  /\ rolling \in BOOLEAN
  /\ row \in Row
  /\ silent \in BOOLEAN
  /\ saved \subseteq 1..Chunks
  /\ run \in [Runs -> Run \union {None}]
  /\ boot \in {"up", "due", "mark"}
  /\ interrupted \in Row \union {None}
  /\ boot = "mark" => interrupted # None
  /\ sent \in Nat
  /\ faults \in Nat
  /\ died \in BOOLEAN

\* A checkpoint only names chunks whose drafts were stored, and a flyer is done
\* when all were, however often runs fail, are resumed, overlap during a
\* deployment and overwrite each other's metadata.
NothingSkipped ==
  /\ 1..row.last \subseteq saved
  /\ row.next # 0 => 1..(row.next - 1) \subseteq saved
  /\ row.status = "done" => 1..Total \subseteq saved

\* docs/configuration.md:89: the ninety minutes are longer than the retries and
\* the checks of coverage of a chunk, "per non avviare due estrazioni
\* concorrenti": without overlapping servers, at most one run is active, also
\* when two administrators ask at the same time.
OneRun == ~rolling => Cardinality({r \in Runs : Running(r)}) <= 1

\* With one server, a flyer that is done stays so: no late handler of errors,
\* recovery or second run takes it back.
DoneStays ==
  [][~rolling /\ row.status = "done" => row'.status = "done"]_vars

\* A flyer does not stay in processing, also across restarts, unless a run
\* ended without a trace.
Ends == row.status = "processing" ~> row.status # "processing" \/ died
-----------------------------------------------------------------------------
\* docs/configuration.md:90: after a restart an interrupted flyer "passa a `error`
\* con il checkpoint disponibile".
RestartKeepsCheckpoint ==
  [][interrupted # None /\ boot' = "up" /\ pdf /\ interrupted.last > 0 =>
       row'.resume]_vars
=============================================================================
