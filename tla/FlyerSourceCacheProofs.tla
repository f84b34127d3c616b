------------------------- MODULE FlyerSourceCacheProofs -------------------------
(***************************************************************************)
(* Theorems about FlyerSourceCache, for any number of processes, sources,  *)
(* sizes, leases and faults.                                               *)
(***************************************************************************)
EXTENDS FlyerSourceCache, FiniteSetTheorems, TLAPS

\* Steps with the key locked, with the budget locked, and with a valid file.
KeySteps == {"miss", "download", "hit", "prune", "pruning", "reading"}
BudgetSteps == {"download", "pruning", "finishing"}
FileSteps == {"hit", "prune", "pruning", "reading"}

CoreType ==
  /\ file \in [Keys -> {"none", "good", "bad"}]
  /\ keyLock \in [Keys -> Procs \union {None}]
  /\ pc \in [Procs -> Steps]
  /\ key \in [Procs -> Keys]
  /\ part \in [Procs -> {"none", "fresh", "old"}]

\* A process owns the locks its step needs; a valid file is retained and a
\* download keeps its .part file.
CacheInv ==
  /\ CoreType
  /\ \A p \in Procs :
       /\ pc[p] \in KeySteps => keyLock[key[p]] = p
       /\ pc[p] \in BudgetSteps => budget = p
       /\ pc[p] \in FileSteps => file[key[p]] = "good"
       /\ pc[p] = "download" => part[p] # "none"

\* An empty cache directory satisfies the invariant.
LEMMA CacheInit == Init => CacheInv
  BY ProcsAssumption
     DEF Init, CacheInv, CoreType, Steps, KeySteps, BudgetSteps, FileSteps

\* A modification time changes neither contents nor locks.
LEMMA CacheFrame ==
  ASSUME CacheInv, UNCHANGED <<file, keyLock, budget, pc, key, part>>
  PROVE  CacheInv'
  BY DEF CacheInv, CoreType

\* Nobody else is at a step of p's locks.
LEMMA LocksExclude ==
  ASSUME CacheInv, NEW p \in Procs, NEW q \in Procs, p # q
  PROVE  /\ pc[p] \in BudgetSteps => pc[q] \notin BudgetSteps
         /\ pc[p] \in KeySteps /\ pc[q] \in KeySteps => key[p] # key[q]
  BY DEF CacheInv

\* Every step of a request under way keeps the invariant.
LEMMA CacheProceed ==
  ASSUME CacheInv, NEW p \in Procs, Proceed(p)
  PROVE  CacheInv'
<1> USE ProcsAssumption DEF CacheInv, CoreType, KeySteps, BudgetSteps, FileSteps
<1>1. CASE Acquire(p)
  BY <1>1 DEF Acquire, Valid, fileVars, partVars, pruneVars, Steps
<1>2. CASE StartDownload(p)
  BY <1>2 DEF StartDownload, BudgetFree, fileVars, partVars, pruneVars, Steps
<1>3. CASE EndDownload(p)
  <2>1. \A q \in Procs \ {p} : pc[q] \in KeySteps => key[q] # key[p]
    BY <1>3, LocksExclude DEF EndDownload
  <2>2. \A q \in Procs \ {p} : pc[q] \notin BudgetSteps
    BY <1>3, LocksExclude DEF EndDownload
  <2>3. QED
    BY <1>3, <2>1, <2>2 DEF EndDownload, fileVars, partVars, pruneVars, Steps
<1>4. CASE Touch(p)
  BY <1>4 DEF Touch, lockVars, partVars, pruneVars, Steps
<1>5. CASE StartPrune(p)
  <2>1. \A q \in Procs \ {p} : pc[q] \notin BudgetSteps
    BY <1>5 DEF StartPrune, BudgetFree
  <2>2. QED BY <1>5, <2>1 DEF StartPrune, fileVars, partVars, pruneVars, Steps
<1>6. CASE PruneFile(p)
  <2> DEFINE k == Head(queue[p])
  <2>1. UNCHANGED <<keyLock, budget, pc, key, part>>
    BY <1>6 DEF PruneFile, Consider, lockVars, procVars, partVars
  <2>2. \/ file' = file
        \/ keyLock[k] = None /\ file' = [file EXCEPT ![k] = "none"]
    BY <1>6 DEF PruneFile, Consider, Evicted, fileVars
  <2>3. file' \in [Keys -> {"none", "good", "bad"}]
    BY <2>2
  <2>4. ASSUME NEW q \in Procs, pc[q] \in FileSteps PROVE file'[key[q]] = "good"
    BY <2>2, <2>4
  <2>5. QED BY <2>1, <2>3, <2>4
<1>7. CASE EndPrune(p)
  <2>1. \A q \in Procs \ {p} : pc[q] \notin BudgetSteps
    BY <1>7, LocksExclude DEF EndPrune, Pruning
  <2>2. part' \in [Procs -> {"none", "fresh", "old"}]
    BY <1>7 DEF EndPrune
  <2>3. QED
    BY <1>7, <2>1, <2>2 DEF EndPrune, Pruning, fileVars, Steps
<1>8. CASE Release(p)
  <2>1. \A q \in Procs \ {p} : pc[q] \in KeySteps => key[q] # key[p]
    BY <1>8, LocksExclude DEF Release
  <2>2. QED
    BY <1>8, <2>1 DEF Release, Released, fileVars, partVars, pruneVars, Steps
<1>9. QED
  BY <1>1, <1>2, <1>3, <1>4, <1>5, <1>6, <1>7, <1>8 DEF Proceed

\* The remaining steps of Next keep the invariant.
LEMMA CacheOther ==
  ASSUME CacheInv, Next, \A p \in Procs : ~Proceed(p)
  PROVE  CacheInv'
<1> USE ProcsAssumption DEF CacheInv, CoreType, KeySteps, BudgetSteps, FileSteps
<1>1. ASSUME NEW p \in Procs, NEW k \in Keys, Request(p, k) PROVE CacheInv'
  BY <1>1 DEF Request, fileVars, lockVars, partVars, pruneVars, Steps
<1>2. ASSUME NEW p \in Procs, FailDownload(p) PROVE CacheInv'
  <2>1. \A q \in Procs \ {p} : pc[q] \in KeySteps => key[q] # key[p]
    BY <1>2, LocksExclude DEF FailDownload
  <2>2. \A q \in Procs \ {p} : pc[q] \notin BudgetSteps
    BY <1>2, LocksExclude DEF FailDownload
  <2>3. QED
    BY <1>2, <2>1, <2>2 DEF FailDownload, fileVars, pruneVars, Steps
<1>3. ASSUME NEW p \in Procs, Crash(p) PROVE CacheInv'
  <2>1. /\ pc' = [pc EXCEPT ![p] = "idle"]
        /\ keyLock' = [k \in Keys |-> IF keyLock[k] = p THEN None ELSE keyLock[k]]
        /\ part' = [part EXCEPT ![p] = "none"]
        /\ budget' = IF budget = p THEN None ELSE budget
        /\ UNCHANGED <<file, key>>
    BY <1>3 DEF Crash, fileVars
  <2>2. CoreType'
    BY <2>1 DEF Steps
  <2>3. ASSUME NEW q \in Procs
        PROVE  /\ pc'[q] \in KeySteps => keyLock'[key'[q]] = q
               /\ pc'[q] \in BudgetSteps => budget' = q
               /\ pc'[q] \in FileSteps => file'[key'[q]] = "good"
               /\ pc'[q] = "download" => part'[q] # "none"
    BY <2>1
  <2>4. QED BY <2>2, <2>3
<1>4. ASSUME NEW k \in Keys, FileExpires(k) PROVE CacheInv'
  BY <1>4, CacheFrame DEF FileExpires, lockVars, procVars, partVars, pruneVars
<1>5. ASSUME NEW k \in Keys, Corrupt(k) PROVE CacheInv'
  BY <1>5 DEF Corrupt, lockVars, procVars, partVars, pruneVars
<1>6. CASE PartsExpire
  BY <1>6 DEF PartsExpire, fileVars, lockVars, procVars, pruneVars
<1>7. QED BY <1>1, <1>2, <1>3, <1>4, <1>5, <1>6 DEF Next

\* CacheInv is an invariant.
THEOREM CacheInvariant == Spec => []CacheInv
<1>1. CacheInv /\ [Next]_vars => CacheInv'
  BY CacheProceed, CacheOther, CacheFrame
     DEF vars, fileVars, lockVars, procVars, partVars, pruneVars
<1>2. QED BY CacheInit, <1>1, PTL DEF Spec

\* A reader keeps the source it asked for, alone, until its lease ends.
THEOREM SourceRetained == Spec => []LeaseRetainsFile
<1>1. CacheInv => LeaseRetainsFile
  BY DEF CacheInv, LeaseRetainsFile, KeySteps, FileSteps
<1>2. QED BY <1>1, CacheInvariant, PTL

\* A prune never removes the .part file of a download under way.
THEOREM DownloadKeepsPart == Spec => []ActivePartKept
<1>1. CacheInv => ActivePartKept
  BY DEF CacheInv, ActivePartKept
<1>2. QED BY <1>1, CacheInvariant, PTL
-----------------------------------------------------------------------------
(* Bytes and sequences of keys, as a prune uses them.                       *)

\* The files of some keys hold a finite number of bytes.
LEMMA ContentFinite ==
  ASSUME NEW S \in SUBSET Keys
  PROVE  IsFiniteSet(Content(S)) /\ Bytes(S) \in Nat
<1> DEFINE f == [k \in S |-> {k} \X (1..Size[k])]
           T == {{k} \X (1..Size[k]) : k \in S}
<1>1. f \in Surjection(S, T) BY DEF Surjection
<1>2. IsFiniteSet(S) BY KeysAssumption, FS_Subset
<1>3. IsFiniteSet(T) BY <1>1, <1>2, FS_Surjection
<1>4. ASSUME NEW k \in S PROVE IsFiniteSet({k} \X (1..Size[k]))
  <2>1. Size[k] \in Nat BY SizeAssumption
  <2>2. IsFiniteSet(1..Size[k]) BY <2>1, FS_Interval
  <2>3. IsFiniteSet({k}) BY FS_Singleton
  <2> QED BY <2>2, <2>3, FS_Product
<1>5. \A c \in T : IsFiniteSet(c) BY <1>4
<1>6. IsFiniteSet(UNION T) BY <1>3, <1>5, FS_UNION
<1> QED BY <1>6, FS_CardinalityType DEF Content, Bytes

\* Fewer files hold no more bytes, and none hold none.
LEMMA BytesMonotone ==
  ASSUME NEW S \in SUBSET Keys, NEW T \in SUBSET S
  PROVE  Bytes(T) <= Bytes(S)
<1>1. Content(T) \subseteq Content(S) BY DEF Content
<1> QED BY <1>1, ContentFinite, FS_Subset DEF Bytes

LEMMA BytesEmpty == Bytes({}) = 0
<1>1. Content({}) = {} BY DEF Content
<1> QED BY <1>1, FS_EmptySet DEF Bytes

\* Without a file there are as many bytes less as it holds.
LEMMA BytesRemove ==
  ASSUME NEW S \in SUBSET Keys, NEW k \in S
  PROVE  Bytes(S \ {k}) = Bytes(S) - Size[k]
<1> DEFINE own == {k} \X (1..Size[k])
<1>1. Size[k] \in Nat BY SizeAssumption
<1>2. IsFiniteSet(own) /\ Cardinality(own) = Size[k]
  <2>1. IsFiniteSet(1..Size[k]) /\ Cardinality(1..Size[k]) = Size[k] BY <1>1, FS_Interval
  <2>2. IsFiniteSet({k}) /\ Cardinality({k}) = 1 BY FS_Singleton
  <2>3. IsFiniteSet(own) /\ Cardinality(own) = 1 * Size[k] BY <2>1, <2>2, FS_Product
  <2> QED BY <2>3, <1>1
<1>3. Content(S) \cap own = own BY DEF Content
<1>4. Content(S \ {k}) = Content(S) \ own
  <2>1. ASSUME NEW c \in Content(S \ {k}) PROVE c \in Content(S) /\ c \notin own
    <3>1. PICK l \in S \ {k} : c \in {l} \X (1..Size[l]) BY <2>1 DEF Content
    <3>2. c[1] = l BY <3>1
    <3>3. \A d \in own : d[1] = k OBVIOUS
    <3> QED BY <3>1, <3>2, <3>3 DEF Content
  <2>2. ASSUME NEW c \in Content(S), c \notin own PROVE c \in Content(S \ {k})
    BY <2>2 DEF Content
  <2> QED BY <2>1, <2>2
<1>5. IsFiniteSet(Content(S)) BY ContentFinite
<1> HIDE DEF own
<1>6. Cardinality(Content(S) \ own) = Cardinality(Content(S)) - Cardinality(Content(S) \cap own)
  BY <1>5, FS_Difference
<1> QED BY <1>2, <1>3, <1>4, <1>6 DEF Bytes

Elements(s) == {s[i] : i \in 1..Len(s)}
Distinct(s) == \A i, j \in 1..Len(s) : s[i] = s[j] => i = j

\* NotKey leaves the others, in their order.
LEMMA NotKeyLeaves ==
  ASSUME NEW s \in Seq(Keys), Distinct(s), NEW k \in Keys
  PROVE  /\ NotKey(s, k) \in Seq(Keys)
         /\ Distinct(NotKey(s, k))
         /\ Elements(NotKey(s, k)) = Elements(s) \ {k}
<1>1. CASE ~ \E i \in DOMAIN s : s[i] = k
  BY <1>1 DEF NotKey, Elements
<1>2. CASE \E i \in DOMAIN s : s[i] = k
  <2> DEFINE i == CHOOSE j \in DOMAIN s : s[j] = k
             a == SubSeq(s, 1, i - 1)
             b == SubSeq(s, i + 1, Len(s))
             t == a \o b
  <2>1. i \in 1..Len(s) /\ s[i] = k BY <1>2
  <2>2. NotKey(s, k) = t BY <1>2 DEF NotKey
  <2> HIDE DEF i
  <2>3. /\ a \in Seq(Keys) /\ Len(a) = i - 1 /\ b \in Seq(Keys) /\ Len(b) = Len(s) - i
        /\ \A j \in 1..i - 1 : a[j] = s[j]
        /\ \A j \in 1..Len(s) - i : b[j] = s[j + i]
    BY <2>1
  <2> HIDE DEF a, b
  <2>4. t \in Seq(Keys) /\ Len(t) = Len(s) - 1
    <3>1. t \in Seq(Keys) /\ Len(t) = Len(a) + Len(b) BY <2>3
    <3>2. Len(s) \in Nat OBVIOUS
    <3> QED BY <2>1, <2>3, <3>1, <3>2
  <2>5. \A j \in 1..Len(t) : t[j] = IF j < i THEN s[j] ELSE s[j + 1]
    <3> SUFFICES ASSUME NEW j \in 1..Len(t) PROVE t[j] = IF j < i THEN s[j] ELSE s[j + 1]
      OBVIOUS
    <3>1. t[j] = IF j <= Len(a) THEN a[j] ELSE b[j - Len(a)] BY <2>3
    <3>2. CASE j < i
      <4>1. j \in 1..i - 1 BY <2>1, <3>2
      <4> QED BY <2>3, <3>1, <3>2, <4>1
    <3>3. CASE ~(j < i)
      <4>1. j - (i - 1) \in 1..Len(s) - i /\ ~(j <= i - 1) BY <2>1, <2>4, <3>3
      <4>2. b[j - (i - 1)] = s[j - (i - 1) + i] BY <2>3, <4>1
      <4>3. j - (i - 1) + i = j + 1 BY <2>1
      <4>4. t[j] = b[j - (i - 1)] BY <2>3, <3>1, <4>1
      <4> QED BY <3>3, <4>2, <4>3, <4>4
    <3> QED BY <3>2, <3>3
  <2> HIDE DEF t
  <2>6. Distinct(t) BY <2>1, <2>4, <2>5 DEF Distinct
  <2>7. ASSUME NEW l \in Elements(s), l # k PROVE l \in Elements(t)
    <3>1. PICK j \in 1..Len(s) : s[j] = l BY <2>7 DEF Elements
    <3>2. j # i BY <2>1, <2>7, <3>1
    <3>3. CASE j < i
      <4>1. j \in 1..Len(t) /\ t[j] = l BY <2>1, <2>4, <2>5, <3>1, <3>3
      <4> QED BY <4>1 DEF Elements
    <3>4. CASE j > i
      <4>1. j - 1 \in 1..Len(t) /\ ~(j - 1 < i) /\ (j - 1) + 1 = j
        BY <2>1, <2>4, <3>1, <3>4
      <4>2. t[j - 1] = l BY <4>1, <2>5, <3>1
      <4> QED BY <4>1, <4>2 DEF Elements
    <3> QED BY <2>1, <3>1, <3>2, <3>3, <3>4
  <2>8. ASSUME NEW l \in Elements(t) PROVE l \in Elements(s) /\ l # k
    <3>1. PICK j \in 1..Len(t) : t[j] = l BY <2>8 DEF Elements
    <3>2. CASE j < i
      BY <3>1, <3>2, <2>1, <2>4, <2>5 DEF Elements, Distinct
    <3>3. CASE ~(j < i)
      <4>1. j + 1 \in 1..Len(s) /\ j + 1 # i /\ s[j + 1] = l
        BY <3>1, <3>3, <2>1, <2>4, <2>5
      <4> QED BY <4>1, <2>1 DEF Elements, Distinct
    <3> QED BY <3>2, <3>3
  <2> QED BY <2>2, <2>4, <2>6, <2>7, <2>8
<1> QED BY <1>1, <1>2

\* The most recent key is the last one.
LEMMA MostRecentAdds ==
  ASSUME NEW s \in Seq(Keys), Distinct(s), NEW k \in Keys
  PROVE  /\ MostRecent(s, k) \in Seq(Keys)
         /\ Distinct(MostRecent(s, k))
         /\ Elements(MostRecent(s, k)) = Elements(s) \union {k}
<1> DEFINE t == NotKey(s, k)
<1>1. t \in Seq(Keys) /\ Distinct(t) /\ Elements(t) = Elements(s) \ {k} BY NotKeyLeaves
<1> HIDE DEF t
<1> DEFINE a == Append(t, k)
<1>2. /\ a \in Seq(Keys) /\ Len(a) = Len(t) + 1 /\ a[Len(t) + 1] = k
      /\ \A i \in 1..Len(t) : a[i] = t[i]
  BY <1>1
<1> HIDE DEF a
<1>3. \A i \in 1..Len(t) : t[i] # k BY <1>1 DEF Elements
<1>4. Distinct(a) BY <1>1, <1>2, <1>3 DEF Distinct
<1>5. Elements(a) = Elements(t) \union {k}
  <2>1. ASSUME NEW l \in Elements(t) \union {k} PROVE l \in Elements(a)
    BY <1>1, <1>2 DEF Elements
  <2>2. ASSUME NEW l \in Elements(a) PROVE l \in Elements(t) \union {k}
    <3>1. PICK i \in 1..Len(a) : a[i] = l BY DEF Elements
    <3>2. i \in 1..Len(t) \/ i = Len(t) + 1 BY <1>1, <1>2
    <3> QED BY <3>1, <3>2, <1>2 DEF Elements
  <2> QED BY <2>1, <2>2
<1>6. Elements(a) = Elements(s) \union {k} BY <1>1, <1>5
<1> QED BY <1>2, <1>4, <1>6 DEF MostRecent, t, a

\* What a prune has still to consider after its next file.
LEMMA RestOfQueue ==
  ASSUME NEW s \in Seq(Keys), Distinct(s), s # <<>>
  PROVE  /\ Head(s) \in Keys /\ Tail(s) \in Seq(Keys) /\ Distinct(Tail(s))
         /\ Head(s) \in Elements(s)
         /\ Elements(Tail(s)) = Elements(s) \ {Head(s)}
<1>1. Len(s) \in Nat \ {0} /\ Head(s) = s[1] /\ Head(s) \in Keys OBVIOUS
<1>2. /\ Tail(s) \in Seq(Keys) /\ Len(Tail(s)) = Len(s) - 1
      /\ \A i \in 1..Len(s) - 1 : Tail(s)[i] = s[i + 1]
  BY <1>1
<1> DEFINE t == Tail(s)
<1> HIDE DEF t
<1>3. Distinct(t) BY <1>1, <1>2 DEF Distinct, t
<1>4. ASSUME NEW k \in Elements(t) PROVE k \in Elements(s) /\ k # s[1]
  <2>1. PICK i \in 1..Len(s) - 1 : t[i] = k BY <1>2 DEF Elements, t
  <2>2. i + 1 \in 1..Len(s) /\ i + 1 # 1 /\ s[i + 1] = k BY <1>1, <1>2, <2>1 DEF t
  <2> QED BY <1>1, <2>2 DEF Elements, Distinct
<1>5. ASSUME NEW k \in Elements(s), k # s[1] PROVE k \in Elements(t)
  <2>1. PICK i \in 1..Len(s) : s[i] = k BY <1>5 DEF Elements
  <2>2. i - 1 \in 1..Len(s) - 1 /\ (i - 1) + 1 = i BY <1>1, <1>5, <2>1
  <2>3. t[i - 1] = k BY <2>1, <2>2, <1>2 DEF t
  <2> QED BY <1>2, <2>2, <2>3 DEF Elements, t
<1>6. Head(s) \in Elements(s) BY <1>1 DEF Elements
<1> QED BY <1>1, <1>2, <1>3, <1>4, <1>5, <1>6 DEF t
-----------------------------------------------------------------------------
(* The limit of the cache.                                                  *)

\* Files are listed by their modification times, each once, and only a prune
\* has a queue.
Listed ==
  /\ recency \in Seq(Keys) /\ Distinct(recency) /\ Elements(recency) = Present
  /\ queue \in [Procs -> Seq(Keys)] /\ total \in [Procs -> Int] /\ faults \in Nat
  /\ \A p \in Procs : ~Pruning(p) => queue[p] = <<>>

\* Who has locked a key leases it.
HoldersLease ==
  \A k \in Keys : keyLock[k] # None =>
    keyLock[k] \in Procs /\ pc[keyLock[k]] \in KeySteps /\ key[keyLock[k]] = k

\* The budget lock keeps a prune's list and its sum up to date.
PrunesAgree ==
  \A p \in Procs : Pruning(p) =>
    /\ Distinct(queue[p]) /\ Elements(queue[p]) \subseteq Present
    /\ total[p] = Bytes(Present)

\* The files that the last prune of a lease has left are there for others.
LeftToOthers(p) ==
  \A k \in Present \ Elements(queue[p]) : \E q \in Procs \ {p} : pc[q] # "idle" /\ key[q] = k
LastPruneFits ==
  \A p \in Procs : pc[p] = "finishing" => total[p] <= MaxBytes \/ LeftToOthers(p)

\* Faults apart.
Fits == faults = 0 => LastPruneFits /\ UnusedFitBudget

LimitInv == CacheInv /\ Listed /\ HoldersLease /\ PrunesAgree /\ Fits

LEMMA LimitInit == Init => LimitInv
<1> SUFFICES ASSUME Init PROVE LimitInv OBVIOUS
<1>1. CacheInv BY CacheInit
<1>2. Present = {} BY DEF Init, Present
<1>3. Listed
  <2>1. Elements(<<>>) = {} /\ Distinct(<<>>) BY DEF Elements, Distinct
  <2> QED BY <1>2, <2>1 DEF Init, Listed
<1>4. HoldersLease BY DEF Init, HoldersLease
<1>5. PrunesAgree BY DEF Init, PrunesAgree, Pruning
<1>6. LastPruneFits BY DEF Init, LastPruneFits
<1>7. UnusedFitBudget
  <2>1. Present \ InUse = {} BY <1>2
  <2> QED BY <2>1, BytesEmpty, SizeAssumption DEF UnusedFitBudget
<1> QED BY <1>1, <1>3, <1>4, <1>5, <1>6, <1>7 DEF LimitInv, Fits

\* A step of p that ends no lease, neither begins nor goes on with a prune, and
\* adds at most p's file, when nobody prunes.
LEMMA QuietStepFits ==
  ASSUME LimitInv, NEW p \in Procs,
         \/ Present' = Present
         \/ Present' = Present \union {key[p]} /\ \A q \in Procs : ~Pruning(q),
         queue' = queue, total' = total, faults' = faults,
         pc' \in [Procs -> Steps], key' \in [Procs -> Keys],
         \A q \in Procs : q # p => pc'[q] = pc[q] /\ key'[q] = key[q],
         ~Pruning(p), pc'[p] \notin {"idle", "pruning", "finishing"},
         pc[p] # "idle" => key'[p] = key[p],
         Present' # Present => key'[p] = key[p]
  PROVE  PrunesAgree' /\ Fits' /\ \A q \in Procs : Pruning(q)' <=> Pruning(q)
<1>1. \A q \in Procs : Pruning(q)' <=> Pruning(q)
  BY DEF Pruning
<1>2. PrunesAgree'
  <2> SUFFICES ASSUME NEW q \in Procs, Pruning(q)'
               PROVE  /\ Distinct(queue[q]) /\ Elements(queue[q]) \subseteq Present'
                      /\ total[q] = Bytes(Present')
    BY DEF PrunesAgree
  <2>1. Pruning(q) /\ Present' = Present BY <1>1
  <2>2. Bytes(Present') = Bytes(Present) BY <2>1
  <2> QED BY <2>1, <2>2 DEF LimitInv, PrunesAgree
<1>3. ASSUME faults' = 0 PROVE LastPruneFits'
  <2> SUFFICES ASSUME NEW q \in Procs, pc'[q] = "finishing"
               PROVE  total[q] <= MaxBytes \/ LeftToOthers(q)'
    BY DEF LastPruneFits
  <2>1. q # p /\ pc[q] = "finishing" /\ Present' = Present BY <1>1 DEF Pruning
  <2>2. total[q] <= MaxBytes \/ LeftToOthers(q)
    BY <1>3, <2>1 DEF LimitInv, Fits, LastPruneFits
  <2>3. ASSUME LeftToOthers(q) PROVE LeftToOthers(q)'
    <3> SUFFICES ASSUME NEW k \in Present, k \notin Elements(queue[q])
                 PROVE  \E r \in Procs \ {q} : pc'[r] # "idle" /\ key'[r] = k
      BY <2>1 DEF LeftToOthers
    <3>1. PICK r \in Procs \ {q} : pc[r] # "idle" /\ key[r] = k BY <2>3 DEF LeftToOthers
    <3>2. pc'[r] # "idle" /\ key'[r] = k BY <3>1
    <3> QED BY <3>2
  <2> QED BY <2>2, <2>3
<1>4. ASSUME faults' = 0 PROVE Bytes(Present' \ InUse') <= MaxBytes
  <2>1. Present' \ InUse' \subseteq Present \ InUse
    <3> SUFFICES ASSUME NEW k \in Present', k \notin InUse' PROVE k \in Present /\ k \notin InUse
      OBVIOUS
    <3>1. ASSUME NEW r \in Procs, pc[r] # "idle" PROVE key[r] # k
      <4>1. pc'[r] # "idle" /\ key'[r] = key[r] BY <3>1
      <4> QED BY <4>1 DEF InUse
    <3>2. key'[p] # k BY DEF InUse
    <3>3. k \in Present BY <3>2
    <3> QED BY <3>1, <3>3 DEF InUse
  <2>2. Present \ InUse \in SUBSET Keys BY DEF Present
  <2>3. Bytes(Present' \ InUse') <= Bytes(Present \ InUse) BY <2>1, <2>2, BytesMonotone
  <2>4. Bytes(Present \ InUse) <= MaxBytes BY <1>4 DEF LimitInv, Fits, UnusedFitBudget
  <2>5. Bytes(Present' \ InUse') \in Nat /\ Bytes(Present \ InUse) \in Nat
    BY <2>1, <2>2, ContentFinite
  <2> QED BY <2>3, <2>4, <2>5, SizeAssumption
<1>5. Fits' BY <1>3, <1>4 DEF Fits, UnusedFitBudget
<1> QED BY <1>1, <1>2, <1>5

\* A step that leaves the listing as it is, and no queue behind.
LEMMA ListingKept ==
  ASSUME Listed, Present' = Present, recency' = recency, queue' = queue, total' = total,
         faults' \in Nat, \A q \in Procs : Pruning(q)' <=> Pruning(q)
  PROVE  Listed'
BY DEF Listed

\* A file that is used, or is new, becomes the most recent one.
LEMMA ListingTouched ==
  ASSUME Listed, NEW k \in Keys, Present' = Present \union {k}, recency' = MostRecent(recency, k),
         queue' = queue, total' = total, faults' = faults,
         \A q \in Procs : Pruning(q)' <=> Pruning(q)
  PROVE  Listed'
<1>1. /\ recency' \in Seq(Keys) /\ Distinct(recency')
      /\ Elements(recency') = Elements(recency) \union {k}
  BY MostRecentAdds DEF Listed
<1> QED BY <1>1 DEF Listed

LEMMA LimitRequest ==
  ASSUME LimitInv, CacheInv', NEW p \in Procs, NEW k \in Keys, Request(p, k)
  PROVE  LimitInv'
<1>1. /\ pc[p] = "idle" /\ pc' = [pc EXCEPT ![p] = "wait"] /\ key' = [key EXCEPT ![p] = k]
      /\ UNCHANGED <<file, recency, keyLock, queue, total, faults>>
  BY DEF Request, fileVars, lockVars, pruneVars
<1>2. pc \in [Procs -> Steps] /\ key \in [Procs -> Keys]
      /\ pc' \in [Procs -> Steps] /\ key' \in [Procs -> Keys]
  BY DEF LimitInv, CacheInv, CoreType
<1>3. Present' = Present BY <1>1 DEF Present
<1>4. pc'[p] = "wait" /\ \A q \in Procs : q # p => pc'[q] = pc[q] /\ key'[q] = key[q]
  BY <1>1, <1>2
<1>5. PrunesAgree' /\ Fits' /\ \A q \in Procs : Pruning(q)' <=> Pruning(q)
  BY <1>1, <1>2, <1>3, <1>4, QuietStepFits DEF Pruning
<1>6. Listed' BY <1>1, <1>3, <1>5, ListingKept DEF LimitInv, Listed
<1>7. HoldersLease' BY <1>1, <1>4 DEF LimitInv, HoldersLease, KeySteps
<1> QED BY <1>5, <1>6, <1>7 DEF LimitInv

LEMMA LimitAcquire ==
  ASSUME LimitInv, CacheInv', NEW p \in Procs, Acquire(p)
  PROVE  LimitInv'
<1>1. /\ pc[p] = "wait" /\ pc'[p] \in {"hit", "miss"}
      /\ \A q \in Procs : q # p => pc'[q] = pc[q]
      /\ keyLock[key[p]] = None /\ keyLock' = [keyLock EXCEPT ![key[p]] = p]
      /\ UNCHANGED <<file, recency, key, queue, total, faults>>
  BY DEF Acquire, fileVars, pruneVars, LimitInv, CacheInv, CoreType
<1>2. pc' \in [Procs -> Steps] /\ key \in [Procs -> Keys]
      /\ keyLock \in [Keys -> Procs \union {None}]
  BY DEF LimitInv, CacheInv, CoreType
<1>3. Present' = Present BY <1>1 DEF Present
<1>4. PrunesAgree' /\ Fits' /\ \A q \in Procs : Pruning(q)' <=> Pruning(q)
  BY <1>1, <1>2, <1>3, QuietStepFits DEF Pruning
<1>5. Listed' BY <1>1, <1>3, <1>4, ListingKept DEF LimitInv, Listed
<1>6. HoldersLease'
  <2> SUFFICES ASSUME NEW k \in Keys, keyLock'[k] # None
               PROVE  /\ keyLock'[k] \in Procs /\ pc'[keyLock'[k]] \in KeySteps
                      /\ key[keyLock'[k]] = k
    BY <1>1 DEF HoldersLease
  <2>1. CASE k = key[p] BY <2>1, <1>1, <1>2 DEF KeySteps
  <2>2. CASE k # key[p]
    <3>1. keyLock'[k] = keyLock[k] BY <2>2, <1>1, <1>2
    <3>2. keyLock[k] \in Procs /\ pc[keyLock[k]] \in KeySteps /\ key[keyLock[k]] = k
      BY <3>1 DEF LimitInv, HoldersLease
    <3>3. keyLock[k] # p BY <3>2, <2>2
    <3> QED BY <3>1, <3>2, <3>3, <1>1
  <2> QED BY <2>1, <2>2
<1> QED BY <1>4, <1>5, <1>6 DEF LimitInv

\* Locked keys stay so while their holders stay at steps with the key locked.
LEMMA HoldersKept ==
  ASSUME HoldersLease, key' = key, keyLock' = keyLock,
         \A q \in Procs : pc[q] \in KeySteps => pc'[q] \in KeySteps
  PROVE  HoldersLease'
BY DEF HoldersLease

LEMMA LimitStartDownload ==
  ASSUME LimitInv, CacheInv', NEW p \in Procs, StartDownload(p)
  PROVE  LimitInv'
<1>1. /\ pc[p] = "miss" /\ pc'[p] = "download" /\ \A q \in Procs : q # p => pc'[q] = pc[q]
      /\ UNCHANGED <<file, recency, key, keyLock, queue, total, faults>>
  BY DEF StartDownload, fileVars, pruneVars, LimitInv, CacheInv, CoreType
<1>2. pc' \in [Procs -> Steps] /\ key \in [Procs -> Keys]
  BY DEF LimitInv, CacheInv, CoreType
<1>3. Present' = Present BY <1>1 DEF Present
<1>4. PrunesAgree' /\ Fits' /\ \A q \in Procs : Pruning(q)' <=> Pruning(q)
  BY <1>1, <1>2, <1>3, QuietStepFits DEF Pruning
<1>5. Listed' BY <1>1, <1>3, <1>4, ListingKept DEF LimitInv, Listed
<1>6. HoldersLease' BY <1>1, HoldersKept DEF LimitInv, KeySteps
<1> QED BY <1>4, <1>5, <1>6 DEF LimitInv

LEMMA LimitEndDownload ==
  ASSUME LimitInv, CacheInv', NEW p \in Procs, EndDownload(p)
  PROVE  LimitInv'
<1>1. /\ pc[p] = "download" /\ pc'[p] = "hit" /\ \A q \in Procs : q # p => pc'[q] = pc[q]
      /\ file' = [file EXCEPT ![key[p]] = "good"] /\ recency' = MostRecent(recency, key[p])
      /\ UNCHANGED <<key, keyLock, queue, total, faults>>
  BY DEF EndDownload, pruneVars, LimitInv, CacheInv, CoreType
<1>2. pc' \in [Procs -> Steps] /\ key \in [Procs -> Keys] /\ key[p] \in Keys
      /\ file \in [Keys -> {"none", "good", "bad"}]
  BY DEF LimitInv, CacheInv, CoreType
<1>3. Present' = Present \union {key[p]} BY <1>1, <1>2 DEF Present
<1>4. \A q \in Procs : ~Pruning(q)
  BY <1>1, LocksExclude DEF LimitInv, Pruning, BudgetSteps
<1>5. PrunesAgree' /\ Fits' /\ \A q \in Procs : Pruning(q)' <=> Pruning(q)
  BY <1>1, <1>2, <1>3, <1>4, QuietStepFits
<1>6. Listed' BY <1>1, <1>2, <1>3, <1>5, ListingTouched DEF LimitInv
<1>7. HoldersLease' BY <1>1, HoldersKept DEF LimitInv, KeySteps
<1> QED BY <1>5, <1>6, <1>7 DEF LimitInv

LEMMA LimitTouch ==
  ASSUME LimitInv, CacheInv', NEW p \in Procs, Touch(p)
  PROVE  LimitInv'
<1>1. /\ pc[p] = "hit" /\ pc'[p] = "prune" /\ \A q \in Procs : q # p => pc'[q] = pc[q]
      /\ recency' = MostRecent(recency, key[p])
      /\ UNCHANGED <<file, key, keyLock, queue, total, faults>>
  BY DEF Touch, lockVars, pruneVars, LimitInv, CacheInv, CoreType
<1>2. pc' \in [Procs -> Steps] /\ key \in [Procs -> Keys] /\ key[p] \in Keys
  BY DEF LimitInv, CacheInv, CoreType
<1>3. Present' = Present BY <1>1 DEF Present
<1>4. key[p] \in Present
  <2>1. file[key[p]] = "good" BY <1>1 DEF LimitInv, CacheInv, FileSteps
  <2> QED BY <2>1, <1>2 DEF Present
<1>5. PrunesAgree' /\ Fits' /\ \A q \in Procs : Pruning(q)' <=> Pruning(q)
  BY <1>1, <1>2, <1>3, QuietStepFits DEF Pruning
<1>6. Present' = Present \union {key[p]} BY <1>3, <1>4
<1>7. Listed' BY <1>1, <1>2, <1>5, <1>6, ListingTouched DEF LimitInv
<1>8. HoldersLease' BY <1>1, HoldersKept DEF LimitInv, KeySteps
<1> QED BY <1>5, <1>7, <1>8 DEF LimitInv

LEMMA LimitRelease ==
  ASSUME LimitInv, CacheInv', NEW p \in Procs, Release(p)
  PROVE  LimitInv'
<1>1. /\ pc[p] = "reading" /\ pc'[p] = "last" /\ \A q \in Procs : q # p => pc'[q] = pc[q]
      /\ keyLock' = [keyLock EXCEPT ![key[p]] = None]
      /\ UNCHANGED <<file, recency, key, queue, total, faults>>
  BY DEF Release, Released, fileVars, pruneVars, LimitInv, CacheInv, CoreType
<1>2. pc' \in [Procs -> Steps] /\ key \in [Procs -> Keys]
      /\ keyLock \in [Keys -> Procs \union {None}]
  BY DEF LimitInv, CacheInv, CoreType
<1>3. Present' = Present BY <1>1 DEF Present
<1>4. PrunesAgree' /\ Fits' /\ \A q \in Procs : Pruning(q)' <=> Pruning(q)
  BY <1>1, <1>2, <1>3, QuietStepFits DEF Pruning
<1>5. Listed' BY <1>1, <1>3, <1>4, ListingKept DEF LimitInv, Listed
<1>6. HoldersLease'
  <2> SUFFICES ASSUME NEW k \in Keys, keyLock'[k] # None
               PROVE  /\ keyLock'[k] \in Procs /\ pc'[keyLock'[k]] \in KeySteps
                      /\ key[keyLock'[k]] = k
    BY <1>1 DEF HoldersLease
  <2>1. k # key[p] /\ keyLock'[k] = keyLock[k] BY <1>1, <1>2
  <2>2. keyLock[k] \in Procs /\ pc[keyLock[k]] \in KeySteps /\ key[keyLock[k]] = k
    BY <2>1 DEF LimitInv, HoldersLease
  <2>3. keyLock[k] # p BY <2>1, <2>2
  <2> QED BY <2>1, <2>2, <2>3, <1>1
<1> QED BY <1>4, <1>5, <1>6 DEF LimitInv

\* A prune begins with every file on its list.
LEMMA LimitStartPrune ==
  ASSUME LimitInv, CacheInv', NEW p \in Procs, StartPrune(p)
  PROVE  LimitInv'
<1>1. /\ pc[p] \in {"prune", "last"} /\ pc'[p] \in {"pruning", "finishing"}
      /\ pc[p] = "prune" => pc'[p] = "pruning"
      /\ \A q \in Procs : q # p => pc'[q] = pc[q]
      /\ queue' = [queue EXCEPT ![p] = recency] /\ total' = [total EXCEPT ![p] = Bytes(Present)]
      /\ budget = None
      /\ UNCHANGED <<file, recency, key, keyLock, faults>>
  BY DEF StartPrune, BudgetFree, fileVars, LimitInv, CacheInv, CoreType
<1>2. /\ recency \in Seq(Keys) /\ Distinct(recency) /\ Elements(recency) = Present
      /\ queue \in [Procs -> Seq(Keys)] /\ total \in [Procs -> Int] /\ faults \in Nat
      /\ \A q \in Procs : ~Pruning(q) => queue[q] = <<>>
  BY DEF LimitInv, Listed
<1>3. Present' = Present BY <1>1 DEF Present
<1>4. Bytes(Present) \in Nat BY ContentFinite DEF Present
<1>5. /\ queue'[p] = recency /\ total'[p] = Bytes(Present) /\ Pruning(p)'
      /\ queue' \in [Procs -> Seq(Keys)] /\ total' \in [Procs -> Int]
      /\ \A q \in Procs : q # p => queue'[q] = queue[q]
  BY <1>1, <1>2, <1>4 DEF Pruning
<1>6. \A q \in Procs : q # p => ~Pruning(q)'
  BY <1>1, ProcsAssumption DEF Pruning, LimitInv, CacheInv, BudgetSteps
<1>7. Listed'
  <2>1. \A q \in Procs : ~Pruning(q)' => queue'[q] = <<>>
    BY <1>1, <1>2, <1>5, <1>6 DEF Pruning
  <2> QED BY <1>1, <1>2, <1>3, <1>5, <2>1 DEF Listed
<1>8. HoldersLease' BY <1>1, HoldersKept DEF LimitInv, KeySteps
<1>9. PrunesAgree'
  <2> SUFFICES ASSUME NEW q \in Procs, Pruning(q)'
               PROVE  /\ Distinct(queue'[q]) /\ Elements(queue'[q]) \subseteq Present'
                      /\ total'[q] = Bytes(Present')
    BY DEF PrunesAgree
  <2>1. q = p BY <1>6
  <2>2. Bytes(Present') = Bytes(Present) BY <1>3
  <2> QED BY <2>1, <2>2, <1>2, <1>3, <1>5
<1>10. LastPruneFits'
  <2> SUFFICES ASSUME NEW q \in Procs, pc'[q] = "finishing" PROVE LeftToOthers(q)'
    BY DEF LastPruneFits
  <2>1. q = p BY <1>6 DEF Pruning
  <2>2. Present' \ Elements(queue'[q]) = {} BY <2>1, <1>2, <1>3, <1>5
  <2> QED BY <2>2 DEF LeftToOthers
<1>11. ASSUME faults' = 0 PROVE UnusedFitBudget'
  <2>1. InUse' = InUse BY <1>1 DEF InUse
  <2>2. Bytes(Present' \ InUse') = Bytes(Present \ InUse) BY <1>3, <2>1
  <2> QED BY <1>1, <1>11, <2>2 DEF LimitInv, Fits, UnusedFitBudget
<1> QED BY <1>7, <1>8, <1>9, <1>10, <1>11 DEF LimitInv, Fits

\* A prune goes on: whoever else has the budget lock, it is not another prune.
LEMMA OnlyPrune ==
  ASSUME LimitInv, NEW p \in Procs, Pruning(p)
  PROVE  /\ \A q \in Procs : Pruning(q) => q = p
         /\ queue[p] \in Seq(Keys) /\ Distinct(queue[p]) /\ Elements(queue[p]) \subseteq Present
         /\ total[p] = Bytes(Present) /\ total[p] \in Nat
<1>1. \A q \in Procs : Pruning(q) => q = p
  BY LocksExclude DEF LimitInv, Pruning, BudgetSteps
<1>2. Bytes(Present) \in Nat BY ContentFinite DEF Present
<1> QED BY <1>1, <1>2 DEF LimitInv, Listed, PrunesAgree

LEMMA LimitPruneFile ==
  ASSUME LimitInv, CacheInv', NEW p \in Procs, PruneFile(p)
  PROVE  LimitInv'
<1> DEFINE k == Head(queue[p])
<1>1. /\ Pruning(p) /\ queue[p] # <<>> /\ queue' = [queue EXCEPT ![p] = Tail(queue[p])]
      /\ UNCHANGED <<pc, key, keyLock, faults>>
      /\ IF Evicted(p, k)
         THEN /\ file' = [file EXCEPT ![k] = "none"] /\ recency' = NotKey(recency, k)
              /\ total' = [total EXCEPT ![p] = total[p] - Size[k]]
         ELSE file' = file /\ recency' = recency /\ total' = total
  BY DEF PruneFile, Consider, lockVars, procVars, fileVars
<1>2. /\ recency \in Seq(Keys) /\ Distinct(recency) /\ Elements(recency) = Present
      /\ queue \in [Procs -> Seq(Keys)] /\ total \in [Procs -> Int] /\ faults \in Nat
      /\ \A q \in Procs : ~Pruning(q) => queue[q] = <<>>
  BY DEF LimitInv, Listed
<1>3. /\ \A q \in Procs : Pruning(q) => q = p
      /\ queue[p] \in Seq(Keys) /\ Distinct(queue[p]) /\ Elements(queue[p]) \subseteq Present
      /\ total[p] = Bytes(Present) /\ total[p] \in Nat
  BY <1>1, OnlyPrune
<1>4. /\ k \in Keys /\ k \in Elements(queue[p]) /\ Tail(queue[p]) \in Seq(Keys)
      /\ Distinct(Tail(queue[p])) /\ Elements(Tail(queue[p])) = Elements(queue[p]) \ {k}
  BY <1>1, <1>3, RestOfQueue
<1>5. /\ queue' \in [Procs -> Seq(Keys)] /\ queue'[p] = Tail(queue[p])
      /\ \A q \in Procs : q # p => queue'[q] = queue[q]
  BY <1>1, <1>2, <1>4
<1>6. \A q \in Procs : Pruning(q)' <=> Pruning(q) BY <1>1 DEF Pruning
<1>7. HoldersLease' BY <1>1, HoldersKept DEF LimitInv
<1>8. \A q \in Procs : ~Pruning(q)' => queue'[q] = <<>> BY <1>1, <1>2, <1>5, <1>6
<1>9. InUse' = InUse BY <1>1 DEF InUse
<1>10. Present \in SUBSET Keys BY DEF Present
<1>11. Size[k] \in Nat /\ MaxBytes \in Nat BY <1>4, SizeAssumption
<1>13. file \in [Keys -> {"none", "good", "bad"}] BY DEF LimitInv, CacheInv, CoreType
<1> HIDE DEF k
<1>14. CASE Evicted(p, k)
  <2>1. Present' = Present \ {k} BY <1>1, <1>4, <1>13, <1>14 DEF Present
  <2>2. Bytes(Present \ {k}) = Bytes(Present) - Size[k] BY <1>3, <1>4, <1>10, BytesRemove
  <2>3. /\ total' \in [Procs -> Int] /\ total'[p] = total[p] - Size[k]
    BY <1>1, <1>2, <1>3, <1>11, <1>14
  <2>4. Bytes(Present') = total'[p] BY <1>3, <2>1, <2>2, <2>3
  <2>5. Listed'
    <3>1. /\ recency' \in Seq(Keys) /\ Distinct(recency') /\ Elements(recency') = Present \ {k}
      BY <1>1, <1>2, <1>4, <1>14, NotKeyLeaves
    <3> QED BY <3>1, <2>1, <2>3, <1>1, <1>2, <1>5, <1>8 DEF Listed
  <2>6. PrunesAgree'
    <3> SUFFICES ASSUME NEW q \in Procs, Pruning(q)'
                 PROVE  /\ Distinct(queue'[q]) /\ Elements(queue'[q]) \subseteq Present'
                        /\ total'[q] = Bytes(Present')
      BY DEF PrunesAgree
    <3>1. q = p BY <1>3, <1>6
    <3> QED BY <3>1, <1>3, <1>4, <1>5, <2>1, <2>4
  <2>7. ASSUME faults' = 0 PROVE LastPruneFits'
    <3> SUFFICES ASSUME NEW q \in Procs, pc'[q] = "finishing"
                 PROVE  total'[q] <= MaxBytes \/ LeftToOthers(q)'
      BY DEF LastPruneFits
    <3>1. q = p /\ pc[p] = "finishing" BY <1>1, <1>3, <1>6 DEF Pruning
    <3>2. total[p] <= MaxBytes \/ LeftToOthers(p)
      BY <1>1, <2>7, <3>1 DEF LimitInv, Fits, LastPruneFits
    <3>3. CASE total[p] <= MaxBytes BY <3>1, <3>3, <2>3, <1>3, <1>11
    <3>4. CASE LeftToOthers(p)
      <4>1. Present' \ Elements(queue'[p]) \subseteq Present \ Elements(queue[p])
        BY <2>1, <1>4, <1>5
      <4> QED BY <3>1, <3>4, <4>1, <1>1 DEF LeftToOthers
    <3> QED BY <3>2, <3>3, <3>4
  <2>8. ASSUME faults' = 0 PROVE UnusedFitBudget'
    <3>1. Present' \ InUse' \in SUBSET (Present \ InUse) BY <2>1, <1>9
    <3>2. Present \ InUse \in SUBSET Keys BY <1>10
    <3>3. Bytes(Present \ InUse) <= MaxBytes
      BY <1>1, <2>8 DEF LimitInv, Fits, UnusedFitBudget
    <3>4. Bytes(Present' \ InUse') <= Bytes(Present \ InUse) BY <3>1, <3>2, BytesMonotone
    <3>5. Bytes(Present' \ InUse') \in Nat /\ Bytes(Present \ InUse) \in Nat
      BY <3>1, <3>2, ContentFinite
    <3> QED BY <3>3, <3>4, <3>5, <1>11 DEF UnusedFitBudget
  <2> QED BY <1>7, <2>5, <2>6, <2>7, <2>8 DEF LimitInv, Fits
<1>15. CASE ~Evicted(p, k)
  <2>1. file' = file /\ recency' = recency /\ total' = total BY <1>1, <1>15 DEF k
  <2>2. Present' = Present BY <2>1 DEF Present
  <2>3. Listed' BY <2>1, <2>2, <1>1, <1>2, <1>5, <1>8 DEF Listed
  <2>4. PrunesAgree'
    <3> SUFFICES ASSUME NEW q \in Procs, Pruning(q)'
                 PROVE  /\ Distinct(queue'[q]) /\ Elements(queue'[q]) \subseteq Present'
                        /\ total'[q] = Bytes(Present')
      BY DEF PrunesAgree
    <3>1. q = p BY <1>3, <1>6
    <3>2. Bytes(Present') = Bytes(Present) BY <2>2
    <3> QED BY <3>1, <3>2, <1>3, <1>4, <1>5, <2>1, <2>2
  <2>5. ASSUME faults' = 0 PROVE LastPruneFits'
    <3> SUFFICES ASSUME NEW q \in Procs, pc'[q] = "finishing", ~(total[q] <= MaxBytes)
                 PROVE  LeftToOthers(q)'
      BY <2>1 DEF LastPruneFits
    <3>1. q = p /\ pc[p] = "finishing" BY <1>1, <1>3, <1>6 DEF Pruning
    <3>2. LeftToOthers(p) BY <1>1, <2>5, <3>1 DEF LimitInv, Fits, LastPruneFits
    <3>3. total[p] > MaxBytes BY <3>1, <1>3, <1>11
    <3>4. keyLock[k] # None BY <3>3, <1>15 DEF Evicted, Prunes
    <3>5. /\ keyLock[k] \in Procs /\ pc[keyLock[k]] \in KeySteps /\ key[keyLock[k]] = k
      BY <1>4, <3>4 DEF LimitInv, HoldersLease, k
    <3>6. keyLock[k] # p /\ pc[keyLock[k]] # "idle" BY <3>1, <3>5 DEF KeySteps
    <3> SUFFICES ASSUME NEW l \in Present, l \notin Elements(queue'[p])
                 PROVE  \E r \in Procs \ {p} : pc[r] # "idle" /\ key[r] = l
      BY <3>1, <2>2, <1>1 DEF LeftToOthers
    <3>7. CASE l = k BY <3>5, <3>6, <3>7
    <3>8. CASE l # k
      <4>1. l \notin Elements(queue[p]) BY <3>8, <1>4, <1>5 DEF k
      <4> QED BY <4>1, <3>2 DEF LeftToOthers
    <3> QED BY <3>7, <3>8
  <2>6. ASSUME faults' = 0 PROVE UnusedFitBudget'
    <3>1. Bytes(Present' \ InUse') = Bytes(Present \ InUse) BY <2>2, <1>9
    <3> QED BY <1>1, <2>6, <3>1 DEF LimitInv, Fits, UnusedFitBudget
  <2> QED BY <1>7, <2>3, <2>4, <2>5, <2>6 DEF LimitInv, Fits
<1> QED BY <1>14, <1>15

\* The last prune of a lease leaves what fits, or what others lease.
LEMMA LimitEndPrune ==
  ASSUME LimitInv, CacheInv', NEW p \in Procs, EndPrune(p)
  PROVE  LimitInv'
<1>1. /\ Pruning(p) /\ queue[p] = <<>> /\ total' = [total EXCEPT ![p] = 0]
      /\ pc'[p] = IF pc[p] = "pruning" THEN "reading" ELSE "idle"
      /\ \A q \in Procs : q # p => pc'[q] = pc[q]
      /\ UNCHANGED <<file, recency, key, keyLock, queue, faults>>
  BY DEF EndPrune, fileVars, LimitInv, CacheInv, CoreType
<1>2. /\ \A q \in Procs : Pruning(q) => q = p
      /\ total[p] = Bytes(Present) /\ total[p] \in Nat
  BY <1>1, OnlyPrune
<1>3. \A q \in Procs : ~Pruning(q)' BY <1>1, <1>2 DEF Pruning
<1>4. Present' = Present BY <1>1 DEF Present
<1>5. Listed'
  <2>1. \A q \in Procs : queue[q] = <<>> BY <1>1, <1>2 DEF LimitInv, Listed
  <2>2. total' \in [Procs -> Int] BY <1>1 DEF LimitInv, Listed
  <2> QED BY <1>1, <1>4, <2>1, <2>2 DEF LimitInv, Listed
<1>6. HoldersLease'
  <2>1. pc[p] \in KeySteps => pc'[p] \in KeySteps BY <1>1 DEF Pruning, KeySteps
  <2> QED BY <2>1, <1>1, HoldersKept DEF LimitInv
<1>7. PrunesAgree' BY <1>3 DEF PrunesAgree
<1>8. LastPruneFits' BY <1>3 DEF LastPruneFits, Pruning
<1>9. ASSUME faults' = 0 PROVE UnusedFitBudget'
  <2>1. Present \in SUBSET Keys BY DEF Present
  <2>2. MaxBytes \in Nat BY SizeAssumption
  <2>3. CASE pc[p] = "pruning"
    <3>1. pc'[p] = "reading" BY <1>1, <2>3
    <3>2. \A q \in Procs : pc'[q] = "idle" <=> pc[q] = "idle" BY <1>1, <2>3, <3>1
    <3>3. InUse' = InUse BY <1>1, <3>2 DEF InUse
    <3>4. Bytes(Present' \ InUse') = Bytes(Present \ InUse) BY <1>4, <3>3
    <3> QED BY <1>1, <1>9, <3>4 DEF LimitInv, Fits, UnusedFitBudget
  <2>4. CASE pc[p] # "pruning"
    <3>1. pc[p] = "finishing" BY <1>1, <2>4 DEF Pruning
    <3>2. total[p] <= MaxBytes \/ LeftToOthers(p)
      BY <1>1, <1>9, <3>1 DEF LimitInv, Fits, LastPruneFits
    <3>3. CASE total[p] <= MaxBytes
      <4>1. Present' \ InUse' \in SUBSET Present BY <1>4
      <4>2. Bytes(Present' \ InUse') <= Bytes(Present) BY <4>1, <2>1, BytesMonotone
      <4>3. Bytes(Present' \ InUse') \in Nat BY <4>1, <2>1, ContentFinite
      <4> QED BY <1>2, <2>2, <3>3, <4>2, <4>3 DEF UnusedFitBudget
    <3>4. CASE LeftToOthers(p)
      <4>1. ASSUME NEW k \in Present PROVE k \in InUse'
        <5>1. Elements(queue[p]) = {} BY <1>1 DEF Elements
        <5>2. PICK q \in Procs \ {p} : pc[q] # "idle" /\ key[q] = k
          BY <3>4, <5>1 DEF LeftToOthers
        <5>3. pc'[q] # "idle" /\ key'[q] = k BY <1>1, <5>2
        <5> QED BY <5>3 DEF InUse
      <4>2. Present' \ InUse' = {} BY <1>4, <4>1
      <4> QED BY <2>2, <4>2, BytesEmpty DEF UnusedFitBudget
    <3> QED BY <3>2, <3>3, <3>4
  <2> QED BY <2>3, <2>4
<1> QED BY <1>5, <1>6, <1>7, <1>8, <1>9 DEF LimitInv, Fits

\* A fault spares the listing, the locks of others and their prunes.
LEMMA LimitFailDownload ==
  ASSUME LimitInv, CacheInv', NEW p \in Procs, FailDownload(p)
  PROVE  LimitInv'
<1>1. /\ pc[p] = "download" /\ pc'[p] = "idle" /\ \A q \in Procs : q # p => pc'[q] = pc[q]
      /\ keyLock' = [keyLock EXCEPT ![key[p]] = None] /\ faults' = faults + 1
      /\ UNCHANGED <<file, recency, key, queue, total>>
  BY DEF FailDownload, fileVars, pruneVars, LimitInv, CacheInv, CoreType
<1>2. faults \in Nat BY DEF LimitInv, Listed
<1>3. Present' = Present BY <1>1 DEF Present
<1>4. \A q \in Procs : Pruning(q)' <=> Pruning(q) BY <1>1 DEF Pruning
<1>5. Listed' BY <1>1, <1>2, <1>3, <1>4, ListingKept DEF LimitInv
<1>6. PrunesAgree'
  <2>1. Bytes(Present') = Bytes(Present) BY <1>3
  <2> QED BY <1>1, <1>3, <1>4, <2>1 DEF LimitInv, PrunesAgree
<1>7. HoldersLease'
  <2> SUFFICES ASSUME NEW k \in Keys, keyLock'[k] # None
               PROVE  /\ keyLock'[k] \in Procs /\ pc'[keyLock'[k]] \in KeySteps
                      /\ key[keyLock'[k]] = k
    BY <1>1 DEF HoldersLease
  <2>1. keyLock \in [Keys -> Procs \union {None}] BY DEF LimitInv, CacheInv, CoreType
  <2>2. k # key[p] /\ keyLock'[k] = keyLock[k] BY <1>1, <2>1
  <2>3. keyLock[k] \in Procs /\ pc[keyLock[k]] \in KeySteps /\ key[keyLock[k]] = k
    BY <2>2 DEF LimitInv, HoldersLease
  <2>4. keyLock[k] # p BY <2>2, <2>3
  <2> QED BY <1>1, <2>2, <2>3, <2>4
<1>8. Fits' BY <1>1, <1>2 DEF Fits
<1> QED BY <1>5, <1>6, <1>7, <1>8 DEF LimitInv

LEMMA LimitCrash ==
  ASSUME LimitInv, CacheInv', NEW p \in Procs, Crash(p)
  PROVE  LimitInv'
<1>1. /\ pc'[p] = "idle" /\ \A q \in Procs : q # p => pc'[q] = pc[q]
      /\ keyLock' = [k \in Keys |-> IF keyLock[k] = p THEN None ELSE keyLock[k]]
      /\ queue' = [queue EXCEPT ![p] = <<>>] /\ total' = [total EXCEPT ![p] = 0]
      /\ faults' = faults + 1
      /\ UNCHANGED <<file, recency, key>>
  BY DEF Crash, fileVars, LimitInv, CacheInv, CoreType
<1>2. /\ recency \in Seq(Keys) /\ Distinct(recency) /\ Elements(recency) = Present
      /\ queue \in [Procs -> Seq(Keys)] /\ total \in [Procs -> Int] /\ faults \in Nat
      /\ \A q \in Procs : ~Pruning(q) => queue[q] = <<>>
  BY DEF LimitInv, Listed
<1>3. Present' = Present BY <1>1 DEF Present
<1>4. /\ queue' \in [Procs -> Seq(Keys)] /\ queue'[p] = <<>> /\ total' \in [Procs -> Int]
      /\ \A q \in Procs : q # p => queue'[q] = queue[q] /\ total'[q] = total[q]
  BY <1>1, <1>2
<1>5. ~Pruning(p)' /\ \A q \in Procs : q # p => (Pruning(q)' <=> Pruning(q))
  BY <1>1 DEF Pruning
<1>6. Listed'
  <2>1. \A q \in Procs : ~Pruning(q)' => queue'[q] = <<>> BY <1>2, <1>4, <1>5
  <2> QED BY <1>1, <1>2, <1>3, <1>4, <2>1 DEF Listed
<1>7. PrunesAgree'
  <2> SUFFICES ASSUME NEW q \in Procs, Pruning(q)'
               PROVE  /\ Distinct(queue'[q]) /\ Elements(queue'[q]) \subseteq Present'
                      /\ total'[q] = Bytes(Present')
    BY DEF PrunesAgree
  <2>1. q # p /\ Pruning(q) BY <1>5
  <2>2. Bytes(Present') = Bytes(Present) BY <1>3
  <2> QED BY <1>3, <1>4, <2>1, <2>2 DEF LimitInv, PrunesAgree
<1>8. HoldersLease'
  <2> SUFFICES ASSUME NEW k \in Keys, keyLock'[k] # None
               PROVE  /\ keyLock'[k] \in Procs /\ pc'[keyLock'[k]] \in KeySteps
                      /\ key[keyLock'[k]] = k
    BY <1>1 DEF HoldersLease
  <2>1. keyLock'[k] = keyLock[k] /\ keyLock[k] # p BY <1>1
  <2>2. keyLock[k] \in Procs /\ pc[keyLock[k]] \in KeySteps /\ key[keyLock[k]] = k
    BY <2>1 DEF LimitInv, HoldersLease
  <2> QED BY <1>1, <2>1, <2>2
<1>9. Fits' BY <1>1, <1>2 DEF Fits
<1> QED BY <1>6, <1>7, <1>8, <1>9 DEF LimitInv

\* Neither age nor damage removes a file.
LEMMA LimitFrame ==
  ASSUME LimitInv, CacheInv', Present' = Present, faults' \in Nat, faults' = 0 => faults = 0,
         UNCHANGED <<recency, keyLock, pc, key, queue, total>>
  PROVE  LimitInv'
<1>1. \A q \in Procs : Pruning(q)' <=> Pruning(q) BY DEF Pruning
<1>2. Listed' BY <1>1, ListingKept DEF LimitInv
<1>3. HoldersLease' BY HoldersKept DEF LimitInv
<1>4. InUse' = InUse BY DEF InUse
<1>5. Bytes(Present') = Bytes(Present) /\ Bytes(Present' \ InUse') = Bytes(Present \ InUse)
  BY <1>4
<1>6. PrunesAgree' BY <1>1, <1>5 DEF LimitInv, PrunesAgree
<1>7. ASSUME faults' = 0 PROVE LastPruneFits' /\ UnusedFitBudget'
  <2>1. faults = 0 /\ LastPruneFits /\ UnusedFitBudget BY <1>7 DEF LimitInv, Fits
  <2>2. \A q \in Procs : LeftToOthers(q) => LeftToOthers(q)' BY DEF LeftToOthers
  <2>3. LastPruneFits' BY <2>1, <2>2 DEF LastPruneFits
  <2> QED BY <1>5, <2>1, <2>3 DEF UnusedFitBudget
<1> QED BY <1>2, <1>3, <1>6, <1>7 DEF LimitInv, Fits

LEMMA LimitOther ==
  ASSUME LimitInv, CacheInv',
         \/ \E k \in Keys : FileExpires(k) \/ Corrupt(k)
         \/ PartsExpire
         \/ UNCHANGED vars
  PROVE  LimitInv'
<1>1. faults \in Nat BY DEF LimitInv, Listed
<1>2. ASSUME NEW k \in Keys, FileExpires(k) PROVE LimitInv'
  <2>1. /\ file' = file /\ faults' = faults
        /\ UNCHANGED <<recency, keyLock, pc, key, queue, total>>
    BY <1>2 DEF FileExpires, lockVars, procVars, pruneVars
  <2>2. Present' = Present BY <2>1 DEF Present
  <2> QED BY <1>1, <2>1, <2>2, LimitFrame
<1>3. ASSUME NEW k \in Keys, Corrupt(k) PROVE LimitInv'
  <2>1. /\ file[k] = "good" /\ file' = [file EXCEPT ![k] = "bad"] /\ faults' = faults + 1
        /\ UNCHANGED <<recency, keyLock, pc, key, queue, total>>
    BY <1>3 DEF Corrupt, lockVars, procVars, pruneVars
  <2>2. Present' = Present BY <2>1 DEF Present, LimitInv, CacheInv, CoreType
  <2>3. faults' \in Nat /\ faults' # 0 BY <1>1, <2>1
  <2> QED BY <2>1, <2>2, <2>3, LimitFrame
<1>4. CASE PartsExpire
  <2>1. /\ file' = file /\ faults' = faults
        /\ UNCHANGED <<recency, keyLock, pc, key, queue, total>>
    BY <1>4 DEF PartsExpire, fileVars, lockVars, procVars, pruneVars
  <2>2. Present' = Present BY <2>1 DEF Present
  <2> QED BY <1>1, <2>1, <2>2, LimitFrame
<1>5. CASE UNCHANGED vars
  <2>1. /\ file' = file /\ faults' = faults
        /\ UNCHANGED <<recency, keyLock, pc, key, queue, total>>
    BY <1>5 DEF vars, fileVars, lockVars, procVars, pruneVars
  <2>2. Present' = Present BY <2>1 DEF Present
  <2> QED BY <1>1, <2>1, <2>2, LimitFrame
<1> QED BY <1>2, <1>3, <1>4, <1>5

\* LimitInv is an invariant.
LEMMA LimitInvariant == Spec => []LimitInv
<1>1. ASSUME LimitInv, CacheInv', [Next]_vars PROVE LimitInv'
  <2>1. ASSUME NEW p \in Procs, NEW k \in Keys, Request(p, k) PROVE LimitInv'
    BY <1>1, <2>1, LimitRequest
  <2>2. ASSUME NEW p \in Procs, Proceed(p) PROVE LimitInv'
    BY <1>1, <2>2, LimitAcquire, LimitStartDownload, LimitEndDownload, LimitTouch,
       LimitStartPrune, LimitPruneFile, LimitEndPrune, LimitRelease DEF Proceed
  <2>3. ASSUME NEW p \in Procs, FailDownload(p) \/ Crash(p) PROVE LimitInv'
    BY <1>1, <2>3, LimitFailDownload, LimitCrash
  <2> QED BY <1>1, <2>1, <2>2, <2>3, LimitOther DEF Next
<1> QED BY LimitInit, <1>1, CacheInvariant, PTL DEF Spec

\* Without faults, the sources nobody leases fit the limit: what a prune had to
\* leave to a reader, the prune at the end of that reader's lease makes up for.
THEOREM UnusedSourcesFit == Spec => []UnusedFitBudget
<1>1. LimitInv => UnusedFitBudget BY DEF LimitInv, Fits, UnusedFitBudget
<1> QED BY <1>1, LimitInvariant, PTL

\* What a prune has still to look at is there when it looks.
THEOREM PruneFindsFiles == Spec => []PrunedFilesExist
<1>1. ASSUME LimitInv PROVE PrunedFilesExist
  <2> SUFFICES ASSUME NEW p \in Procs, NEW i \in 1..Len(queue[p])
               PROVE  queue[p][i] \in Present
    BY DEF PrunedFilesExist
  <2>1. CASE Pruning(p)
    <3>1. queue[p][i] \in Elements(queue[p]) BY DEF Elements
    <3> QED BY <1>1, <2>1, <3>1 DEF LimitInv, PrunesAgree
  <2>2. CASE ~Pruning(p)
    <3>1. queue[p] = <<>> BY <1>1, <2>2 DEF LimitInv, Listed
    <3> QED BY <3>1
  <2> QED BY <2>1, <2>2
<1> QED BY <1>1, LimitInvariant, PTL
=============================================================================
