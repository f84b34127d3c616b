---------------------------- MODULE FlyerSourceCache ----------------------------
(***************************************************************************)
(* The disk cache of flyer sources: services/repositories/                 *)
(* flyer_source_cache.py.  Threads and processes share a directory of      *)
(* <key>.bin files and coordinate with flock: one lock per key, held by a  *)
(* lease from its start to its end, and one budget lock, held while a      *)
(* source is downloaded and while old files are pruned.  A lease waits for *)
(* the budget lock with its key locked; a prune tries key locks with the   *)
(* budget locked, without waiting.                                         *)
(***************************************************************************)
EXTENDS Integers, Sequences, FiniteSets

CONSTANTS
  Procs,      \* threads of one or several processes that take leases
  Keys,       \* sources: storage path and fingerprint
  Size,       \* bytes of a source
  MaxBytes,   \* flyer_source_cache_max_bytes
  None,       \* no lock holder
  MaxLeases,  \* bound: leases requested
  MaxFaults   \* bound: failed downloads, crashes, corrupted files

ASSUME ProcsAssumption == IsFiniteSet(Procs) /\ None \notin Procs
ASSUME KeysAssumption == IsFiniteSet(Keys) /\ Keys # {}
ASSUME SizeAssumption == Size \in [Keys -> Nat] /\ MaxBytes \in Nat
ASSUME BoundsAssumption == MaxLeases \in Nat /\ MaxFaults \in Nat

VARIABLES
  file,      \* content of <key>.bin: none, good, or bad (not its fingerprint)
  expired,   \* keys whose file is older than the time to live
  recency,   \* keys that have a file, by modification time
  keyLock,   \* holder of <key>.lock
  budget,    \* holder of budget.lock
  pc,        \* where each process is in lease
  key,       \* the source it leases
  part,      \* the .part file of a download: none, fresh or older than the ttl
  lost,      \* ages of the .part files crashed downloads left
  queue,     \* files a process's prune has not considered
  total,     \* bytes it believes the cache holds
  leases,    \* number of leases requested
  faults     \* number of faults

fileVars == <<file, expired, recency>>
lockVars == <<keyLock, budget>>
procVars == <<pc, key>>
partVars == <<part, lost>>
pruneVars == <<queue, total>>
vars == <<fileVars, lockVars, procVars, partVars, pruneVars, leases, faults>>

-----------------------------------------------------------------------------
Present == {k \in Keys : file[k] # "none"}

\* How much the files of some keys hold: each is as many bytes as its size says.
Content(S) == UNION {{k} \X (1..Size[k]) : k \in S}
Bytes(S) == Cardinality(Content(S))

\* Keys in order, each of them once; s without k.
NotKey(s, k) ==
  IF \E i \in DOMAIN s : s[i] = k
  THEN LET i == CHOOSE j \in DOMAIN s : s[j] = k
       IN  SubSeq(s, 1, i - 1) \o SubSeq(s, i + 1, Len(s))
  ELSE s
MostRecent(s, k) == Append(NotKey(s, k), k)

\* Mutant of Valid: a file that does not exist counts as a hit.
ValidAbsent(k) == k \notin expired

\* Mutant of Valid: the fingerprint is not verified.
ValidUnread(k) == file[k] # "none" /\ k \notin expired

\* _valid: the file exists, is not older than the ttl and has its fingerprint.
Valid(k) == file[k] = "good" /\ k \notin expired

Init ==
  /\ file = [k \in Keys |-> "none"]
  /\ expired = {}
  /\ recency = <<>>
  /\ keyLock = [k \in Keys |-> None]
  /\ budget = None
  /\ pc = [p \in Procs |-> "idle"]
  /\ key \in [Procs -> Keys]
  /\ part = [p \in Procs |-> "none"]
  /\ lost = {}
  /\ queue = [p \in Procs |-> <<>>]
  /\ total = [p \in Procs |-> 0]
  /\ leases = 0
  /\ faults = 0

-----------------------------------------------------------------------------
\* lease: open the lock file and wait for the key.
Request(p, k) ==
  /\ leases < MaxLeases
  /\ leases' = leases + 1
  /\ pc[p] = "idle"
  /\ pc' = [pc EXCEPT ![p] = "wait"]
  /\ key' = [key EXCEPT ![p] = k]
  /\ UNCHANGED <<fileVars, lockVars, partVars, pruneVars, faults>>

\* The key is locked and the file checked; nobody can replace it meanwhile.
Acquire(p) ==
  /\ pc[p] = "wait"
  /\ keyLock[key[p]] = None
  /\ keyLock' = [keyLock EXCEPT ![key[p]] = p]
  /\ pc' = [pc EXCEPT ![p] = IF Valid(key[p]) THEN "hit" ELSE "miss"]
  /\ UNCHANGED <<fileVars, budget, key, partVars, pruneVars, leases, faults>>

\* Mutant of BudgetFree: the budget lock does not exclude.
BudgetIgnored == TRUE

\* flock of budget.lock succeeds.
BudgetFree == budget = None

\* _populate takes the budget lock and creates a .part file.
StartDownload(p) ==
  /\ pc[p] = "miss"
  /\ BudgetFree
  /\ budget' = p
  /\ part' = [part EXCEPT ![p] = "fresh"]
  /\ pc' = [pc EXCEPT ![p] = "download"]
  /\ UNCHANGED <<fileVars, keyLock, key, lost, pruneVars, leases, faults>>

\* The download has its fingerprint and replaces the file.
EndDownload(p) ==
  /\ pc[p] = "download"
  /\ file' = [file EXCEPT ![key[p]] = "good"]
  /\ expired' = expired \ {key[p]}
  /\ recency' = MostRecent(recency, key[p])
  /\ part' = [part EXCEPT ![p] = "none"]
  /\ budget' = None
  /\ pc' = [pc EXCEPT ![p] = "hit"]
  /\ UNCHANGED <<keyLock, key, lost, pruneVars, leases, faults>>

\* It fails or has another fingerprint: both locks go, nothing is pruned.
FailDownload(p) ==
  /\ faults < MaxFaults
  /\ faults' = faults + 1
  /\ pc[p] = "download"
  /\ part' = [part EXCEPT ![p] = "none"]
  /\ budget' = None
  /\ keyLock' = [keyLock EXCEPT ![key[p]] = None]
  /\ pc' = [pc EXCEPT ![p] = "idle"]
  /\ UNCHANGED <<fileVars, key, lost, pruneVars, leases>>

\* utime, on a hit and after a download alike.
Touch(p) ==
  /\ pc[p] = "hit"
  /\ expired' = expired \ {key[p]}
  /\ recency' = MostRecent(recency, key[p])
  /\ pc' = [pc EXCEPT ![p] = "prune"]
  /\ UNCHANGED <<file, lockVars, key, partVars, pruneVars, leases, faults>>

\* _prune lists the files, oldest first, and adds up their sizes.
StartPrune(p) ==
  /\ pc[p] \in {"prune", "last"}
  /\ BudgetFree
  /\ budget' = p
  /\ queue' = [queue EXCEPT ![p] = recency]
  /\ total' = [total EXCEPT ![p] = Bytes(Present)]
  /\ pc' = [pc EXCEPT ![p] = IF pc[p] = "prune" THEN "pruning" ELSE "finishing"]
  /\ UNCHANGED <<fileVars, keyLock, key, partVars, leases, faults>>

Pruning(p) == pc[p] \in {"pruning", "finishing"}

\* The cache is too large or the file too old.
Prunes(p, k) == total[p] > MaxBytes \/ k \in expired

\* Mutant of Evicted: an active reader does not retain its file.
EvictedLeased(p, k) == Prunes(p, k)

\* _evict gets the key lock without waiting, its own lease not excepted.
Evicted(p, k) == Prunes(p, k) /\ keyLock[k] = None

\* The next file of a prune goes or stays.
Consider(p) ==
  LET k == Head(queue[p]) IN
  /\ Pruning(p)
  /\ queue[p] # <<>>
  /\ queue' = [queue EXCEPT ![p] = Tail(@)]
  /\ IF Evicted(p, k)
     THEN /\ file' = [file EXCEPT ![k] = "none"]
          /\ expired' = expired \ {k}
          /\ recency' = NotKey(recency, k)
          /\ total' = [total EXCEPT ![p] = @ - Size[k]]
     ELSE UNCHANGED <<fileVars, total>>
  /\ UNCHANGED <<lockVars, procVars, partVars, leases, faults>>

\* Mutant of PruneFile: _evict waits for the key lock.
PruneFileWaiting(p) ==
  /\ Consider(p)
  /\ Prunes(p, Head(queue[p])) => keyLock[Head(queue[p])] = None

PruneFile(p) == Consider(p)

\* Partial downloads older than the ttl go, and the budget lock with them.
EndPrune(p) ==
  /\ Pruning(p)
  /\ queue[p] = <<>>
  /\ part' = [q \in Procs |-> IF part[q] = "old" THEN "none" ELSE part[q]]
  /\ lost' = lost \ {"old"}
  /\ budget' = None
  /\ total' = [total EXCEPT ![p] = 0]
  /\ pc' = [pc EXCEPT ![p] = IF pc[p] = "pruning" THEN "reading" ELSE "idle"]
  /\ UNCHANGED <<fileVars, keyLock, key, queue, leases, faults>>

\* Mutant of Released: the lease ends without the second prune.
ReleasedUnpruned(p) == [pc EXCEPT ![p] = "idle"]

\* A lease that ends unlocks its key and prunes again.
Released(p) == [pc EXCEPT ![p] = "last"]

\* The with block ends, normally or not.
Release(p) ==
  /\ pc[p] = "reading"
  /\ keyLock' = [keyLock EXCEPT ![key[p]] = None]
  /\ pc' = Released(p)
  /\ UNCHANGED <<fileVars, budget, key, partVars, pruneVars, leases, faults>>

-----------------------------------------------------------------------------
\* The process dies: its locks go, its .part file stays.
Crash(p) ==
  /\ faults < MaxFaults
  /\ faults' = faults + 1
  /\ pc[p] # "idle"
  /\ pc' = [pc EXCEPT ![p] = "idle"]
  /\ keyLock' = [k \in Keys |-> IF keyLock[k] = p THEN None ELSE keyLock[k]]
  /\ part' = [part EXCEPT ![p] = "none"]
  /\ lost' = lost \union ({part[p]} \ {"none"})
  /\ budget' = IF budget = p THEN None ELSE budget
  /\ queue' = [queue EXCEPT ![p] = <<>>]
  /\ total' = [total EXCEPT ![p] = 0]
  /\ UNCHANGED <<fileVars, key, leases>>

\* The time to live of a file, or of partial downloads, passes.
FileExpires(k) ==
  /\ k \in Present \ expired
  /\ expired' = expired \union {k}
  /\ UNCHANGED <<file, recency, lockVars, procVars, partVars, pruneVars, leases, faults>>

PartsExpire ==
  /\ "fresh" \in lost \/ \E p \in Procs : part[p] = "fresh"
  /\ part' = [p \in Procs |-> IF part[p] = "fresh" THEN "old" ELSE part[p]]
  /\ lost' = IF lost = {} THEN {} ELSE {"old"}
  /\ UNCHANGED <<fileVars, lockVars, procVars, pruneVars, leases, faults>>

\* Something outside this code damages a file no lease uses.
Corrupt(k) ==
  /\ faults < MaxFaults
  /\ faults' = faults + 1
  /\ file[k] = "good"
  /\ keyLock[k] = None
  /\ file' = [file EXCEPT ![k] = "bad"]
  /\ UNCHANGED <<expired, recency, lockVars, procVars, partVars, pruneVars, leases>>

\* What a process does about the lease it asked for.
Proceed(p) ==
  \/ Acquire(p)
  \/ StartDownload(p)
  \/ EndDownload(p)
  \/ Touch(p)
  \/ StartPrune(p)
  \/ PruneFile(p)
  \/ EndPrune(p)
  \/ Release(p)

Next ==
  \/ \E p \in Procs, k \in Keys : Request(p, k)
  \/ \E p \in Procs : Proceed(p) \/ FailDownload(p) \/ Crash(p)
  \/ \E k \in Keys : FileExpires(k) \/ Corrupt(k)
  \/ PartsExpire

Spec == Init /\ [][Next]_vars

\* Threads are scheduled, downloads have timeouts and readers end their lease.
FairSpec == Spec /\ \A p \in Procs : WF_vars(Proceed(p))

-----------------------------------------------------------------------------
Steps == {"idle", "wait", "miss", "download", "hit", "prune", "pruning", "reading",
          "last", "finishing"}

\* Every variable has its type; recency lists the files there are.
TypeOK ==
  /\ file \in [Keys -> {"none", "good", "bad"}]
  /\ expired \subseteq Present
  /\ recency \in Seq(Keys)
  /\ {recency[i] : i \in 1..Len(recency)} = Present
  /\ keyLock \in [Keys -> Procs \union {None}]
  /\ budget \in Procs \union {None}
  /\ pc \in [Procs -> Steps]
  /\ key \in [Procs -> Keys]
  /\ part \in [Procs -> {"none", "fresh", "old"}]
  /\ lost \subseteq {"fresh", "old"}
  /\ queue \in [Procs -> Seq(Keys)]
  /\ total \in [Procs -> Int]
  /\ leases \in 0..MaxLeases
  /\ faults \in 0..MaxFaults

\* From its validation to the end of its lease a reader has the file with the
\* fingerprint it asked for, whatever expires and is pruned meanwhile, and it is
\* the key's only reader (README.md: "i lettori attivi conservano temporaneamente
\* il file fino al rilascio").
LeaseRetainsFile ==
  \A p \in Procs : pc[p] \in {"hit", "prune", "pruning", "reading"} =>
    /\ file[key[p]] = "good"
    /\ keyLock[key[p]] = p

\* The files a prune has still to look at exist when it looks at them, so stat
\* and unlink cannot fail: two prunes never run at once.
PrunedFilesExist ==
  \A p \in Procs : \A i \in 1..Len(queue[p]) : queue[p][i] \in Present

\* A download that takes longer than the ttl keeps its .part file: no other
\* process's prune takes it for an abandoned one.
ActivePartKept ==
  \A p \in Procs : pc[p] = "download" => part[p] # "none"

\* Keys somebody is leasing or about to lease.
InUse == {key[p] : p \in {q \in Procs : pc[q] # "idle"}}

\* Without faults, the files nobody uses fit the limit: a prune that had to
\* leave a file to its reader is made up for when that reader releases it.
UnusedFitBudget ==
  faults = 0 => Bytes(Present \ InUse) <= MaxBytes

\* Every request ends: waiting for the budget with the key locked and trying
\* keys with the budget locked never block each other for ever.
LeasesEnd == \A p \in Procs : pc[p] = "wait" ~> pc[p] = "idle"
=============================================================================
