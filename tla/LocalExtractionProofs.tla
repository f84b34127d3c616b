------------------------- MODULE LocalExtractionProofs -------------------------
(***************************************************************************)
(* Theorems about LocalExtraction, for any workers, configurations,        *)
(* chunks, contents, drafts and number of manual edits.                    *)
(***************************************************************************)
EXTENDS LocalExtraction, FiniteSetTheorems, SequenceTheorems, TLAPS

\* Steps of other clients of the flyer, and of workers that commit no chunk.
Quiet ==
  \/ \E w \in Workers : Heartbeat(w) \/ StartFinish(w) \/ AbortFinish(w) \/ Fail(w)
  \/ LeaseExpires
  \/ ReadTrigger \/ ClaimTrigger \/ ServerCheckpoints \/ ServerEnds

\* A number of chunks a configuration has is one the receipts have room for.
LEMMA TotalType ==
  ASSUME TypeOK, mode = "local"
  PROVE  config \in Configs /\ Total \in 1..MaxChunks
  BY NoneAssumption, ChunksAssumption DEF TypeOK, Total

\* The drafts are countable.
LEMMA DraftsCount ==
  ASSUME NEW D \in SUBSET Offers
  PROVE  Cardinality(D) \in Nat
  BY DraftsAssumption, FS_Subset, FS_CardinalityType

\* A flyer without a session is well typed.
LEMMA TypeInit == Init => TypeOK
<1> SUFFICES ASSUME Init PROVE TypeOK
  OBVIOUS
<1>1. /\ receipts \in [1..MaxChunks -> Payloads \union {None}]
      /\ nextIndex \in 1..(MaxChunks + 1)
      /\ \A i \in 1..MaxChunks : receipts[i] # None <=> i < nextIndex
  BY ChunksAssumption DEF Init, NoReceipts
<1>2. /\ count \in Nat
      /\ edits \in 0..MaxEdits
  BY BoundsAssumption DEF Init
<1> QED BY <1>1, <1>2 DEF Init, TypeOK

\* Claiming a lease keeps the job well typed.
LEMMA TypeClaim ==
  ASSUME TypeOK, NEW w \in Workers, NEW c \in Configs, Claim(w, c)
  PROVE  TypeOK'
<1> USE NoneAssumption, ChunksAssumption DEF TypeOK, Claim, editVars, Touched
<1>1. CASE Resumes
  BY <1>1 DEF chunkVars
<1>2. CASE ~Resumes
  BY <1>2 DEF NoReceipts
<1> QED BY <1>1, <1>2

\* Committing a chunk keeps the job well typed.
LEMMA TypeCommit ==
  ASSUME TypeOK, NEW w \in Workers, NEW i \in 1..MaxChunks, NEW x \in Payloads,
         CommitChunk(w, i, x)
  PROVE  TypeOK'
<1>1. i = nextIndex
  BY DEF CommitChunk, Accepted
<1>2. drafts' \in SUBSET Offers
  BY DraftsAssumption DEF CommitChunk, TypeOK
<1>3. count' \in Nat
  BY <1>2, DraftsCount DEF CommitChunk
<1>4. /\ receipts' \in [1..MaxChunks -> Payloads \union {None}]
      /\ nextIndex' \in 1..(MaxChunks + 1)
      /\ \A j \in 1..MaxChunks : receipts'[j] # None <=> j < nextIndex'
  BY <1>1, NoneAssumption, ChunksAssumption DEF CommitChunk, TypeOK
<1> QED
  BY <1>2, <1>3, <1>4 DEF CommitChunk, TypeOK, leaseVars, editVars, Touched

\* Answering a chunk that was already accepted keeps the job well typed.
LEMMA TypeReplay ==
  ASSUME TypeOK, NEW w \in Workers, NEW i \in 1..MaxChunks, NEW x \in Payloads,
         ReplayChunk(w, i, x)
  PROVE  TypeOK'
<1>1. count' \in Nat
  BY DraftsCount DEF ReplayChunk, TypeOK
<1> QED
  BY <1>1 DEF ReplayChunk, TypeOK, leaseVars, editVars, Touched

\* Heartbeats, failures, expiries and triggers keep the job well typed.
LEMMA TypeQuiet ==
  ASSUME TypeOK, Quiet
  PROVE  TypeOK'
<1> USE DEF TypeOK, leaseVars, chunkVars, editVars, Touched
<1>1. CASE \E w \in Workers : Heartbeat(w) \/ StartFinish(w) \/ AbortFinish(w) \/ Fail(w)
  BY <1>1 DEF Heartbeat, StartFinish, AbortFinish, Fail
<1>2. CASE LeaseExpires
  BY <1>2 DEF LeaseExpires
<1>3. CASE ReadTrigger \/ ClaimTrigger
  BY <1>3 DEF ReadTrigger, ClaimTrigger
<1>4. CASE ServerCheckpoints \/ ServerEnds
  BY <1>4 DEF ServerCheckpoints, ServerEnds
<1> QED BY <1>1, <1>2, <1>3, <1>4 DEF Quiet

\* Edits of the drafts, by the server or an administrator, keep the job well typed.
LEMMA TypeEdits ==
  ASSUME TypeOK, (\E o \in Offers : ServerSaves(o) \/ AddDraft(o) \/ DeleteDraft(o)) \/ ConfirmOffers
  PROVE  TypeOK'
<1> USE BoundsAssumption DEF TypeOK, leaseVars, chunkVars, editVars, Touched
<1>1. CASE \E o \in Offers : ServerSaves(o)
  BY <1>1 DEF ServerSaves
<1>2. CASE \E o \in Offers : AddDraft(o)
  BY <1>2 DEF AddDraft
<1>3. CASE \E o \in Offers : DeleteDraft(o)
  BY <1>3 DEF DeleteDraft
<1>4. CASE ConfirmOffers
  BY <1>4 DEF ConfirmOffers
<1> QED BY <1>1, <1>2, <1>3, <1>4

\* Finishing a job keeps it well typed.
LEMMA TypeEndFinish ==
  ASSUME TypeOK, NEW w \in Workers, EndFinish(w)
  PROVE  TypeOK'
  BY DEF TypeOK, EndFinish, leaseVars, chunkVars, editVars, Touched

\* The kinds of step the proofs tell apart.
LEMMA NextCases ==
  ASSUME Next
  PROVE  \/ \E w \in Workers, c \in Configs : Claim(w, c)
         \/ \E w \in Workers, i \in 1..MaxChunks, x \in Payloads : CommitChunk(w, i, x)
         \/ \E w \in Workers, i \in 1..MaxChunks, x \in Payloads : ReplayChunk(w, i, x)
         \/ \E w \in Workers : EndFinish(w)
         \/ Quiet
         \/ \E o \in Offers : ServerSaves(o)
         \/ \E o \in Offers : AddDraft(o) \/ DeleteDraft(o)
         \/ ConfirmOffers
  BY DEF Next, Work, Server, Administrators, Quiet

\* Type correctness of the extraction of a flyer; in particular receipts are
\* contiguous: the chunks committed are exactly those before next_chunk_index.
THEOREM TypeCorrect == Spec => []TypeOK
<1>1. TypeOK /\ [Next]_vars => TypeOK'
  <2> SUFFICES ASSUME TypeOK, [Next]_vars PROVE TypeOK'
    OBVIOUS
  <2>1. CASE Next
    BY <2>1, NextCases, TypeClaim, TypeCommit, TypeReplay, TypeEndFinish, TypeQuiet, TypeEdits
  <2>2. CASE UNCHANGED vars
    BY <2>2 DEF vars, TypeOK, leaseVars, chunkVars, editVars
  <2> QED BY <2>1, <2>2
<1> QED BY TypeInit, <1>1, PTL DEF Spec

-----------------------------------------------------------------------------
(* The session: what makes it an append-only log with the right drafts.    *)

\* A flyer that has a session keeps it: only sessions have owners, and a trigger of
\* the server's extraction that would succeed never sees one.  The chunks fit the
\* configuration, and all of them are there when the session is done.
SessionInv ==
  /\ TypeOK
  /\ owner # None => mode = "local"
  /\ trigger = "current" => mode # "local"
  /\ mode # "local" => nextIndex = 1
  /\ mode = "local" => nextIndex <= Total + 1
  /\ mode = "local" /\ status = "done" => nextIndex = Total + 1

IInv == SessionInv /\ DraftsMatchReceipts

\* The inductive invariant holds before the first claim.
LEMMA SessionInit == Init => IInv
<1> SUFFICES ASSUME Init PROVE IInv
  OBVIOUS
<1> QED BY TypeInit DEF Init, IInv, SessionInv, DraftsMatchReceipts

\* No step but a claim moves the configuration.
LEMMA TotalKept ==
  ASSUME config' = config
  PROVE  Total' = Total
  BY DEF Total

\* What was sent is a matter of the receipts.
LEMMA SentKept ==
  ASSUME UNCHANGED <<receipts, nextIndex>>
  PROVE  Sent' = Sent
  BY DEF Sent, Indexes

\* Steps that leave the chunks and the drafts as they are.
LEMMA SessionFrame ==
  ASSUME DraftsMatchReceipts, mode' = "local" => mode = "local",
         drafts' \union confirmed' = drafts \union confirmed,
         UNCHANGED <<receipts, nextIndex, edited>>
  PROVE  DraftsMatchReceipts'
  BY SentKept DEF DraftsMatchReceipts

\* A claim keeps the inductive invariant.
LEMMA SessionClaim ==
  ASSUME IInv, TypeOK', NEW w \in Workers, NEW c \in Configs, Claim(w, c)
  PROVE  IInv'
<1>1. CASE Resumes
  <2>1. /\ UNCHANGED <<config, receipts, nextIndex, drafts, confirmed, edited>>
        /\ mode = "local" /\ mode' = "local"
        /\ status' = "processing" /\ trigger' # "current"
    BY <1>1 DEF Claim, Claimable, Resumes, chunkVars, editVars, Touched
  <2> QED BY <2>1, TotalKept, SessionFrame DEF IInv, SessionInv
<1>2. CASE ~Resumes
  <2>1. Chunks[config'] \in 1..MaxChunks
    BY ChunksAssumption DEF Claim
  <2>2. SessionInv'
    <3>1. mode' = "local" /\ status' = "processing" /\ trigger' # "current"
      BY DEF Claim, Touched
    <3>2. nextIndex' = 1
      BY <1>2 DEF Claim
    <3>3. nextIndex' <= Total' + 1
      BY <3>2, <2>1, ChunksAssumption DEF Total
    <3> QED BY <3>1, <3>3 DEF SessionInv
  <2>3. drafts' = {} /\ confirmed' = {} /\ Indexes' = {}
    BY <1>2 DEF Claim, Claimable, Indexes
  <2>4. DraftsMatchReceipts'
    BY <2>3 DEF DraftsMatchReceipts, Sent
  <2> QED BY <2>2, <2>4 DEF IInv
<1> QED BY <1>1, <1>2

\* A committed chunk keeps the inductive invariant.
LEMMA SessionCommit ==
  ASSUME IInv, TypeOK', NEW w \in Workers, NEW i \in 1..MaxChunks, NEW x \in Payloads,
         CommitChunk(w, i, x)
  PROVE  IInv'
<1>1. TypeOK /\ mode = "local" /\ status = "processing" /\ i = nextIndex /\ i <= Total
  BY ChunksAssumption, TotalType
     DEF IInv, SessionInv, CommitChunk, Authorized, Accepted
<1>2. Total' = Total /\ Total \in 1..MaxChunks
  BY <1>1, TotalType, TotalKept DEF CommitChunk, leaseVars
<1>3. SessionInv'
  BY <1>1, <1>2 DEF IInv, SessionInv, CommitChunk, leaseVars, Touched
<1>4. Indexes' = Indexes \union {i} /\ i \notin Indexes
  BY <1>1 DEF CommitChunk, Indexes, TypeOK
<1>5. receipts'[i] = x /\ \A j \in Indexes : receipts'[j] = receipts[j]
  BY <1>1, <1>4 DEF CommitChunk, Indexes, TypeOK
<1>6. Sent' = Sent \union Drafts[<<i, x>>]
  BY <1>4, <1>5, DraftsAssumption DEF Sent
<1>7. drafts' \union confirmed' = drafts \union confirmed \union (Drafts[<<i, x>>])
  BY DEF CommitChunk
<1>8. DraftsMatchReceipts'
  BY <1>1, <1>6, <1>7 DEF IInv, DraftsMatchReceipts, CommitChunk, editVars
<1> QED BY <1>3, <1>8 DEF IInv

\* A replayed chunk keeps the inductive invariant.
LEMMA SessionReplay ==
  ASSUME IInv, TypeOK', NEW w \in Workers, NEW i \in 1..MaxChunks, NEW x \in Payloads,
         ReplayChunk(w, i, x)
  PROVE  IInv'
<1>1. SessionInv'
  BY TotalKept DEF IInv, SessionInv, ReplayChunk, leaseVars, Touched
<1>2. DraftsMatchReceipts'
  BY SessionFrame DEF IInv, ReplayChunk, editVars
<1> QED BY <1>1, <1>2 DEF IInv

\* Finishing a job keeps the inductive invariant.
LEMMA SessionEndFinish ==
  ASSUME IInv, TypeOK', NEW w \in Workers, EndFinish(w)
  PROVE  IInv'
<1>1. SessionInv'
  BY TotalKept DEF IInv, SessionInv, EndFinish, Finishable, leaseVars, chunkVars, Touched
<1>2. DraftsMatchReceipts'
  BY SessionFrame DEF IInv, EndFinish, chunkVars, editVars
<1> QED BY <1>1, <1>2 DEF IInv

\* Heartbeats, failures, expiries and triggers keep the inductive invariant.
LEMMA SessionQuiet ==
  ASSUME IInv, TypeOK', Quiet
  PROVE  IInv'
<1>1. /\ UNCHANGED <<config, owner, receipts, nextIndex, drafts, confirmed, edited>>
      /\ mode = "local" => mode' = "local"
      /\ mode' = "local" => mode = "local"
      /\ trigger' = "current" => mode' # "local"
      /\ mode = "local" /\ status' = "done" => status = "done"
  <2> USE DEF IInv, SessionInv, Touched, Current, ServerRuns, leaseVars, chunkVars, editVars
  <2>1. CASE \E w \in Workers : Heartbeat(w) \/ StartFinish(w) \/ AbortFinish(w) \/ Fail(w)
    BY <2>1 DEF Heartbeat, StartFinish, AbortFinish, Fail
  <2>2. CASE LeaseExpires
    BY <2>2 DEF LeaseExpires
  <2>3. CASE ReadTrigger \/ ClaimTrigger
    BY <2>3 DEF ReadTrigger, ClaimTrigger
  <2>4. CASE ServerCheckpoints \/ ServerEnds
    BY <2>4 DEF ServerCheckpoints, ServerEnds
  <2> QED BY <2>1, <2>2, <2>3, <2>4 DEF Quiet
<1>2. Total' = Total
  BY <1>1, TotalKept
<1>3. SessionInv'
  BY <1>1, <1>2 DEF IInv, SessionInv
<1>4. DraftsMatchReceipts'
  BY <1>1, SessionFrame DEF IInv
<1> QED BY <1>3, <1>4 DEF IInv

\* Edits of the drafts keep the inductive invariant.
LEMMA SessionEdits ==
  ASSUME IInv, TypeOK',
         (\E o \in Offers : ServerSaves(o) \/ AddDraft(o) \/ DeleteDraft(o)) \/ ConfirmOffers
  PROVE  IInv'
<1> USE DEF leaseVars, chunkVars, editVars
<1>1. SessionInv'
  <2>1. /\ UNCHANGED <<status, mode, config, owner, nextIndex>>
        /\ trigger' = "current" => trigger = "current"
    BY DEF ServerSaves, AddDraft, DeleteDraft, ConfirmOffers, Touched
  <2> QED BY <2>1, TotalKept DEF IInv, SessionInv
<1>2. DraftsMatchReceipts'
  <2>1. CASE \E o \in Offers : ServerSaves(o)
    BY <2>1 DEF ServerSaves, ServerRuns, DraftsMatchReceipts
  <2>2. ASSUME NEW o \in Offers, AddDraft(o) \/ DeleteDraft(o)
        PROVE  DraftsMatchReceipts'
    <3>1. /\ (drafts' \union confirmed') \ edited' = ((drafts \union confirmed) \ edited) \ {o}
          /\ edited' = edited \union {o}
          /\ UNCHANGED <<mode, receipts, nextIndex>>
      BY <2>2 DEF AddDraft, DeleteDraft
    <3> QED BY <3>1, SentKept DEF IInv, DraftsMatchReceipts
  <2>3. CASE ConfirmOffers
    BY <2>3, SessionFrame DEF IInv, ConfirmOffers
  <2> QED BY <2>1, <2>2, <2>3
<1> QED BY <1>1, <1>2 DEF IInv

\* Every step keeps the inductive invariant.
LEMMA SessionNext == IInv /\ [Next]_vars => IInv'
<1> SUFFICES ASSUME IInv, [Next]_vars PROVE IInv'
  OBVIOUS
<1>1. TypeOK'
  <2>1. CASE Next
    BY <2>1, NextCases, TypeClaim, TypeCommit, TypeReplay, TypeEndFinish, TypeQuiet, TypeEdits
       DEF IInv, SessionInv
  <2>2. CASE UNCHANGED vars
    BY <2>2 DEF IInv, SessionInv, vars, TypeOK, leaseVars, chunkVars, editVars
  <2> QED BY <2>1, <2>2
<1>2. CASE Next
  BY <1>1, <1>2, NextCases, SessionClaim, SessionCommit, SessionReplay, SessionEndFinish,
     SessionQuiet, SessionEdits
<1>3. CASE UNCHANGED vars
  BY <1>3, <1>1, TotalKept, SessionFrame
     DEF IInv, SessionInv, vars, leaseVars, chunkVars, editVars
<1> QED BY <1>2, <1>3

\* A local session never mixes: its drafts are exactly those of the chunks that have
\* receipts, whatever requests are repeated, late or from another worker, except for
\* what an administrator adds or deletes by hand.
THEOREM DraftsAreTheReceipts == Spec => []DraftsMatchReceipts
<1>1. IInv => DraftsMatchReceipts
  BY DEF IInv
<1> QED BY SessionInit, SessionNext, <1>1, PTL DEF Spec

-----------------------------------------------------------------------------
\* A claim is the only step that moves the owner, and it respects an active lease.
LEMMA OwnerMoves ==
  ASSUME IInv, Next, owner' # owner
  PROVE  \E w \in Workers, c \in Configs : Claim(w, c)
<1>1. ASSUME NEW w \in Workers, NEW i \in 1..MaxChunks, NEW x \in Payloads,
             CommitChunk(w, i, x) \/ ReplayChunk(w, i, x)
      PROVE  owner' = owner
  BY <1>1 DEF CommitChunk, ReplayChunk, leaseVars
<1>2. ASSUME NEW w \in Workers, EndFinish(w)
      PROVE  owner' = owner
  BY <1>2 DEF EndFinish, leaseVars
<1>3. Quiet => owner' = owner
  BY DEF Quiet, Heartbeat, StartFinish, AbortFinish, Fail, LeaseExpires, ReadTrigger,
         ClaimTrigger, ServerCheckpoints, ServerEnds, leaseVars
<1>4. (\E o \in Offers : ServerSaves(o) \/ AddDraft(o) \/ DeleteDraft(o)) \/ ConfirmOffers
        => owner' = owner
  BY DEF ServerSaves, AddDraft, DeleteDraft, ConfirmOffers, leaseVars
<1> QED BY <1>1, <1>2, <1>3, <1>4, NextCases

\* A worker whose lease is active is never displaced by another one.
THEOREM LeaseRespected == Spec => TakeoverWhenExpired
<1>1. IInv /\ [Next]_vars => [owner' # owner /\ owner # None => ~active]_vars
  <2> SUFFICES ASSUME IInv, Next, owner' # owner, owner # None PROVE ~active
    BY DEF vars, leaseVars
  <2>1. PICK w \in Workers, c \in Configs : Claim(w, c)
    BY OwnerMoves
  <2>2. mode = "local"
    BY DEF IInv, SessionInv
  <2> QED BY <2>1, <2>2 DEF Claim, Claimable, Resumes
<1> QED BY SessionInit, SessionNext, <1>1, PTL DEF Spec, TakeoverWhenExpired

-----------------------------------------------------------------------------
(* The session implements the append-only log.                             *)

\* A flyer without a session is an empty log.
LEMMA LogInit == Init => Log!Init
<1> SUFFICES ASSUME Init PROVE Log!Init
  OBVIOUS
<1>1. LogChunks = <<>>
  BY DEF Init, LogChunks, Indexes
<1> QED BY <1>1 DEF Init, Log!Init, LogSize, LogComplete

\* The log is a sequence as long as the number of chunks committed.
LEMMA LogOf ==
  ASSUME NEW n \in 1..(MaxChunks + 1), NEW r \in [1..MaxChunks -> Payloads \union {None}],
         \A i \in 1..MaxChunks : r[i] # None <=> i < n
  PROVE  /\ [i \in 1..(n - 1) |-> r[i]] \in Seq(Payloads)
         /\ Len([i \in 1..(n - 1) |-> r[i]]) = n - 1
<1>1. n - 1 \in Nat /\ \A i \in 1..(n - 1) : i \in 1..MaxChunks /\ i < n
  BY ChunksAssumption
<1>2. \A i \in 1..(n - 1) : r[i] \in Payloads
  BY <1>1
<1> QED BY <1>1, <1>2

\* The mapped variables have the types the log gives them.
LEMMA LogType ==
  ASSUME TypeOK
  PROVE  LogChunks \in Seq(Payloads) /\ Len(LogChunks) = nextIndex - 1
  BY LogOf DEF TypeOK, LogChunks, Indexes

\* The mapped variables have those types after a step too.
LEMMA LogTypeNext ==
  ASSUME TypeOK'
  PROVE  LogChunks' \in Seq(Payloads) /\ Len(LogChunks') = nextIndex' - 1
  BY LogOf DEF TypeOK, LogChunks, Indexes

\* A step that leaves the mapped state alone is a stutter of the log.
LEMMA LogFrame ==
  ASSUME UNCHANGED <<receipts, nextIndex>>
  PROVE  LogChunks' = LogChunks
  BY DEF LogChunks, Indexes

\* A first claim opens the log, a later one is a stutter.
LEMMA LogStart ==
  ASSUME IInv, NEW w \in Workers, NEW c \in Configs, Claim(w, c)
  PROVE  Log!Start \/ UNCHANGED <<LogSize, LogChunks, LogComplete>>
<1>0. mode' = "local" /\ status # "done" /\ status' = "processing"
  BY DEF Claim, Claimable
<1>1. CASE Resumes
  <2>1. mode = "local" /\ UNCHANGED <<config, receipts, nextIndex>>
    BY <1>1 DEF Claim, Claimable, Resumes, chunkVars
  <2> QED BY <1>0, <2>1, LogFrame, TotalKept DEF LogSize, LogComplete
<1>2. CASE ~Resumes
  <2>1. mode # "local" /\ nextIndex = 1 /\ nextIndex' = 1 /\ config' = c
    BY <1>2 DEF Claim, Resumes, IInv, SessionInv
  <2>2. LogChunks' = LogChunks
    BY <2>1 DEF LogChunks, Indexes
  <2>3. LogSize = 0 /\ LogSize' \in Nat \ {0}
    BY <1>0, <2>1, ChunksAssumption DEF LogSize, Total
  <2> QED BY <1>0, <2>1, <2>2, <2>3 DEF Log!Start, LogComplete
<1> QED BY <1>1, <1>2

\* Committing a chunk appends it to the log.
LEMMA LogCommit ==
  ASSUME IInv, IInv', NEW w \in Workers, NEW i \in 1..MaxChunks, NEW x \in Payloads,
         CommitChunk(w, i, x)
  PROVE  Log!Commit(x)
<1>1. mode = "local" /\ mode' = "local" /\ status = "processing" /\ status' = "processing"
  BY DEF CommitChunk, Authorized
<1>2. i = nextIndex /\ nextIndex' = nextIndex + 1 /\ nextIndex <= Total
  BY <1>1, TotalType, ChunksAssumption DEF CommitChunk, Accepted, IInv, SessionInv
<1>3. receipts' = [receipts EXCEPT ![i] = x] /\ config' = config
  BY DEF CommitChunk, leaseVars
<1>4. nextIndex \in Nat /\ Total \in Nat
  BY <1>1, TotalType, ChunksAssumption DEF IInv, SessionInv, TypeOK
<1>5. Len(LogChunks) < LogSize
  BY <1>1, <1>2, <1>4, LogType DEF LogSize, IInv, SessionInv
<1>6. LogChunks' = Append(LogChunks, x)
  <2> DEFINE s == LogChunks
             t == LogChunks'
             a == Append(s, x)
  <2>1. s \in Seq(Payloads) /\ Len(s) = nextIndex - 1
    BY LogType DEF IInv, SessionInv
  <2>2. t \in Seq(Payloads) /\ Len(t) = nextIndex
    <3>1. LogChunks' \in Seq(Payloads) /\ Len(LogChunks') = nextIndex' - 1
      BY LogTypeNext DEF IInv, SessionInv
    <3>2. nextIndex' - 1 = nextIndex
      BY <1>2, <1>4
    <3> QED BY <3>1, <3>2
  <2>3. \A j \in 1..Len(a) : t[j] = a[j]
    BY <1>2, <1>3, <1>4, <2>1, ChunksAssumption
       DEF LogChunks, Indexes, IInv, SessionInv, TypeOK
  <2>4. a \in Seq(Payloads) /\ Len(a) = nextIndex
    BY <2>1, <1>4
  <2> HIDE DEF s, t, a
  <2>5. t = a
    BY <2>2, <2>3, <2>4, SeqEqual
  <2> QED BY <2>5 DEF s, t, a
<1>7. LogSize' = LogSize /\ LogComplete' = LogComplete /\ ~LogComplete
  BY <1>1, <1>3, TotalKept DEF LogSize, LogComplete
<1> QED BY <1>5, <1>6, <1>7 DEF Log!Commit

\* Finishing the job closes the log.
LEMMA LogFinish ==
  ASSUME IInv, NEW w \in Workers, EndFinish(w)
  PROVE  Log!Complete
<1>1. mode = "local" /\ mode' = "local" /\ status = "processing" /\ status' = "done"
  BY DEF EndFinish, Authorized
<1>2. LogSize = Total /\ LogSize' = LogSize /\ LogChunks' = LogChunks /\ LogSize # 0
  BY <1>1, TotalType, TotalKept, LogFrame, ChunksAssumption
     DEF EndFinish, leaseVars, chunkVars, LogSize, IInv, SessionInv
<1>3. Len(LogChunks) = LogSize
  BY <1>1, <1>2, LogType, TotalType, ChunksAssumption
     DEF EndFinish, Finishable, IInv, SessionInv, TypeOK
<1> QED BY <1>1, <1>2, <1>3 DEF Log!Complete, LogComplete

\* The remaining steps are stutters of the log.
LEMMA LogQuiet ==
  ASSUME IInv, \/ Quiet \/ ConfirmOffers
               \/ \E o \in Offers : ServerSaves(o) \/ AddDraft(o) \/ DeleteDraft(o)
               \/ \E w \in Workers, i \in 1..MaxChunks, x \in Payloads : ReplayChunk(w, i, x)
  PROVE  UNCHANGED <<LogSize, LogChunks, LogComplete>>
<1> DEFINE Same == /\ UNCHANGED <<config, receipts, nextIndex>>
                   /\ mode' = "local" <=> mode = "local"
                   /\ mode = "local" => (status' = "done" <=> status = "done")
<1> USE DEF leaseVars, chunkVars, editVars
<1>1. CASE \E w \in Workers : Heartbeat(w) \/ StartFinish(w) \/ AbortFinish(w) \/ Fail(w)
  <2>1. Same
    BY <1>1 DEF Heartbeat, StartFinish, AbortFinish, Fail, Authorized
  <2> QED BY <2>1, LogFrame, TotalKept DEF LogSize, LogComplete
<1>2. CASE LeaseExpires \/ ReadTrigger \/ ClaimTrigger \/ ServerCheckpoints \/ ServerEnds
  <2>1. Same
    BY <1>2 DEF LeaseExpires, ReadTrigger, ClaimTrigger, ServerCheckpoints, ServerEnds,
                ServerRuns, Current, IInv, SessionInv
  <2> QED BY <2>1, LogFrame, TotalKept DEF LogSize, LogComplete
<1>3. CASE ConfirmOffers \/ \E o \in Offers : ServerSaves(o) \/ AddDraft(o) \/ DeleteDraft(o)
  <2>1. Same
    BY <1>3 DEF ConfirmOffers, ServerSaves, AddDraft, DeleteDraft
  <2> QED BY <2>1, LogFrame, TotalKept DEF LogSize, LogComplete
<1>4. CASE \E w \in Workers, i \in 1..MaxChunks, x \in Payloads : ReplayChunk(w, i, x)
  <2>1. Same
    BY <1>4 DEF ReplayChunk
  <2> QED BY <2>1, LogFrame, TotalKept DEF LogSize, LogComplete
<1> QED BY <1>1, <1>2, <1>3, <1>4 DEF Quiet

\* A local session is an append-only log of chunk contents: each chunk is committed
\* once and in order, nothing committed is replaced or forgotten when the session is
\* resumed, and the flyer is done only with every chunk.
THEOREM ImplementsExtractionLog == Spec => ImplementsLog
<1>1. IInv /\ IInv' /\ [Next]_vars => [Log!Next]_<<LogSize, LogChunks, LogComplete>>
  <2> SUFFICES ASSUME IInv, IInv', [Next]_vars
               PROVE  Log!Next \/ UNCHANGED <<LogSize, LogChunks, LogComplete>>
    OBVIOUS
  <2>1. CASE UNCHANGED vars
    BY <2>1, LogFrame, TotalKept DEF vars, leaseVars, chunkVars, LogSize, LogComplete
  <2>2. ASSUME NEW w \in Workers, NEW c \in Configs, Claim(w, c)
        PROVE  Log!Start \/ UNCHANGED <<LogSize, LogChunks, LogComplete>>
    BY <2>2, LogStart
  <2>3. ASSUME NEW w \in Workers, NEW i \in 1..MaxChunks, NEW x \in Payloads,
               CommitChunk(w, i, x)
        PROVE  Log!Commit(x)
    BY <2>3, LogCommit
  <2>4. ASSUME NEW w \in Workers, EndFinish(w)
        PROVE  Log!Complete
    BY <2>4, LogFinish
  <2>5. CASE Next
    BY <2>2, <2>3, <2>4, <2>5, NextCases, LogQuiet DEF Log!Next
  <2> QED BY <2>1, <2>5
<1> QED BY SessionInit, SessionNext, LogInit, <1>1, PTL DEF Spec, ImplementsLog, Log!Spec
=============================================================================
