---------------------------- MODULE HandlersProofs ----------------------------
(***************************************************************************)
(* Theorems about the models of Processes: the files of flyers and the     *)
(* subscriptions to push notifications, for any flyers, users, endpoints   *)
(* and bounds.                                                             *)
(***************************************************************************)
EXTENDS FlyerFiles, PushDelivery, FiniteSetTheorems, TLAPS

\* One server whose handlers are fewer than one has none.
LEMMA NobodyRuns ==
  ASSUME OneServer, NEW S \in SUBSET Handlers, Cardinality(S) < Servers
  PROVE  S = {}
<1>1. IsFiniteSet(S) BY FS_Subset DEF OneServer
<1>2. Cardinality(S) = 0 BY <1>1, FS_CardinalityType DEF OneServer
<1> QED BY <1>1, <1>2, FS_EmptySet

-----------------------------------------------------------------------------
(* The files of flyers.                                                     *)

Call == [step : {"idle", "insert", "targets", "preview", "link", "delete"},
         path : Paths \union {None}, doc : Contents \union {None},
         flyer : Flyers \union {None}, asked : SUBSET Markets, want : SUBSET Markets]

\* What the tables, the bucket and handlers hold.
FileTypes ==
  /\ rows \in [Flyers -> Row \union {None}]
  /\ objects \in [Paths -> Contents \union {None}]
  /\ asked \in [Paths -> (0..MaxCompletions) \union {None}]
  /\ calls \in [Handlers -> Call]
  /\ \A c \in Handlers :
       /\ calls[c].step = "insert" => calls[c].path \in Paths /\ calls[c].doc \in Contents
       /\ calls[c].step \in {"targets", "preview", "link", "delete"} => calls[c].flyer \in Flyers

\* A row that is written keeps its source, its path and its document.
SameFile(r, q) == r.source = q.source /\ r.path = q.path /\ r.content = q.content

\* Rows go, or are written without another file.
Trimmed == \A g \in Flyers : rows'[g] # None => rows[g] # None /\ SameFile(rows'[g], rows[g])

\* A row with other targets, another preview or validity is a row for its file.
LEMMA RowSet ==
  ASSUME NEW r \in Row, NEW T \in SUBSET Markets, NEW f \in Flyers, NEW b \in BOOLEAN
  PROVE  /\ [r EXCEPT !.targets = T] \in Row /\ SameFile([r EXCEPT !.targets = T], r)
         /\ [r EXCEPT !.preview = f] \in Row /\ SameFile([r EXCEPT !.preview = f], r)
         /\ [r EXCEPT !.expired = b] \in Row /\ SameFile([r EXCEPT !.expired = b], r)
  BY DEF Row, SameFile

\* One row is written, or none.
LEMMA TrimOne ==
  ASSUME FileTypes, NEW f \in Flyers, rows[f] # None,
         NEW r \in Row, SameFile(r, rows[f]), rows' = [rows EXCEPT ![f] = r]
  PROVE  /\ rows' \in [Flyers -> Row \union {None}] /\ Trimmed
         /\ \A g \in Flyers : rows[g] # None => rows'[g] # None
<1>1. rows \in [Flyers -> Row \union {None}] /\ r # None
  BY NoneAssumption DEF FileTypes
<1> QED BY <1>1 DEF Trimmed, SameFile

\* The rows of a family go together.
LEMMA TrimFamily ==
  ASSUME FileTypes, NEW f, Cascade(f)
  PROVE  /\ rows' \in [Flyers -> Row \union {None}] /\ Trimmed
         /\ \A g \in Flyers : IF g \in Family(f) THEN rows'[g] = None ELSE rows'[g] = rows[g]
<1>1. rows \in [Flyers -> Row \union {None}]
  BY DEF FileTypes
<1> QED BY <1>1 DEF Cascade, Trimmed, SameFile

\* The steps that write rows that there are.
LEMMA TrimSteps ==
  ASSUME FileTypes
  PROVE  /\ \A c \in Handlers : InsertFlyerTargets(c) \/ LinkFlyerPreview(c) =>
              /\ rows' \in [Flyers -> Row \union {None}] /\ Trimmed
              /\ \A g \in Flyers : rows[g] # None => rows'[g] # None
         /\ \A f \in Flyers : EnsureFlyerPreview(f) \/ Expire(f) \/ Renew(f) =>
              /\ rows' \in [Flyers -> Row \union {None}] /\ Trimmed
              /\ \A g \in Flyers : rows[g] # None => rows'[g] # None
         /\ \A f \in Flyers, want \in (SUBSET Markets) \ {{}} : UpdateFlyerTargets(f, want) =>
              /\ rows' \in [Flyers -> Row \union {None}] /\ Trimmed
              /\ \A g \in Flyers : IsSource(g) => rows'[g] # None
<1>t. rows \in [Flyers -> Row \union {None}] /\ calls \in [Handlers -> Call]
  BY DEF FileTypes
<1>1. ASSUME NEW c \in Handlers, InsertFlyerTargets(c)
      PROVE  /\ rows' \in [Flyers -> Row \union {None}] /\ Trimmed
             /\ \A g \in Flyers : rows[g] # None => rows'[g] # None
  <2> DEFINE f == calls[c].flyer
             r == [rows[f] EXCEPT !.targets = calls[c].want]
  <2>1. f \in Flyers /\ calls[c].want \in SUBSET Markets
    BY <1>1, <1>t DEF InsertFlyerTargets, FileTypes, Call
  <2>2. CASE rows[f] # None
    <3>1. r \in Row /\ SameFile(r, rows[f])
      BY <1>t, <2>1, <2>2, RowSet
    <3>2. rows' = [rows EXCEPT ![f] = r]
      BY <1>1, <2>2 DEF InsertFlyerTargets
    <3> HIDE DEF r
    <3> QED BY <2>1, <2>2, <3>1, <3>2, TrimOne
  <2>3. CASE rows[f] = None
    BY <1>1, <1>t, <2>3 DEF InsertFlyerTargets, Trimmed, SameFile
  <2> QED BY <2>2, <2>3
<1>2. ASSUME NEW c \in Handlers, LinkFlyerPreview(c)
      PROVE  /\ rows' \in [Flyers -> Row \union {None}] /\ Trimmed
             /\ \A g \in Flyers : rows[g] # None => rows'[g] # None
  <2> DEFINE f == calls[c].flyer
             r == [rows[f] EXCEPT !.preview = f]
  <2>1. f \in Flyers
    BY <1>2 DEF LinkFlyerPreview, FileTypes
  <2>2. CASE rows[f] # None
    <3>1. r \in Row /\ SameFile(r, rows[f])
      BY <1>t, <2>1, <2>2, RowSet
    <3>2. rows' = [rows EXCEPT ![f] = r]
      BY <1>2, <2>2 DEF LinkFlyerPreview
    <3> HIDE DEF r
    <3> QED BY <2>1, <2>2, <3>1, <3>2, TrimOne
  <2>3. CASE rows[f] = None
    BY <1>2, <1>t, <2>3 DEF LinkFlyerPreview, Trimmed, SameFile
  <2> QED BY <2>2, <2>3
<1>3. ASSUME NEW f \in Flyers, EnsureFlyerPreview(f)
      PROVE  /\ rows' \in [Flyers -> Row \union {None}] /\ Trimmed
             /\ \A g \in Flyers : rows[g] # None => rows'[g] # None
  <2> DEFINE r == [rows[f] EXCEPT !.preview = f]
  <2>1. rows[f] # None /\ rows' = [rows EXCEPT ![f] = r]
    BY <1>3 DEF EnsureFlyerPreview
  <2>2. r \in Row /\ SameFile(r, rows[f])
    BY <1>t, <2>1, RowSet
  <2> HIDE DEF r
  <2> QED BY <2>1, <2>2, TrimOne
<1>4. ASSUME NEW f \in Flyers, NEW b \in BOOLEAN, IsSource(f),
             rows' = [g \in Flyers |->
               IF g \in Family(f) THEN [rows[g] EXCEPT !.expired = b] ELSE rows[g]]
      PROVE  /\ rows' \in [Flyers -> Row \union {None}] /\ Trimmed
             /\ \A g \in Flyers : rows[g] # None => rows'[g] # None
  <2>1. ASSUME NEW g \in Flyers
        PROVE  /\ rows'[g] \in Row \union {None}
               /\ rows[g] # None <=> rows'[g] # None
               /\ rows'[g] # None => SameFile(rows'[g], rows[g])
    <3>1. CASE g \in Family(f)
      <4> DEFINE r == [rows[g] EXCEPT !.expired = b]
      <4>1. rows[g] # None /\ rows[g] \in Row
        BY <1>4, <1>t, <3>1 DEF Family, CopiesOf, IsSource
      <4>2. r \in Row /\ SameFile(r, rows[g]) /\ rows'[g] = r
        BY <1>4, <3>1, <4>1, RowSet
      <4> HIDE DEF r
      <4> QED BY <4>1, <4>2, NoneAssumption
    <3>2. CASE g \notin Family(f)
      BY <1>4, <1>t, <3>2 DEF SameFile
    <3> QED BY <3>1, <3>2
  <2>2. rows' = [g \in Flyers |-> rows'[g]]
    BY <1>4
  <2>3. rows' \in [Flyers -> Row \union {None}]
    BY <2>1, <2>2
  <2> QED BY <2>1, <2>3 DEF Trimmed
<1>5. ASSUME NEW f \in Flyers, Expire(f) \/ Renew(f)
      PROVE  /\ rows' \in [Flyers -> Row \union {None}] /\ Trimmed
             /\ \A g \in Flyers : rows[g] # None => rows'[g] # None
  BY <1>4, <1>5 DEF Expire, Renew
<1>6. ASSUME NEW f \in Flyers, NEW want \in (SUBSET Markets) \ {{}}, UpdateFlyerTargets(f, want)
      PROVE  /\ rows' \in [Flyers -> Row \union {None}] /\ Trimmed
             /\ \A g \in Flyers : IsSource(g) => rows'[g] # None
  <2>1. PICK T \in SUBSET Markets, D \in SUBSET CopiesOf(f) :
          rows' = [g \in Flyers |-> IF g = f THEN [rows[f] EXCEPT !.targets = T]
                                    ELSE IF g \in D THEN None ELSE rows[g]]
    <3> DEFINE A == want \ Conflicts(rows[f].content, want, f, FALSE)
               C == {g \in CopiesOf(f) : rows[g].targets \intersect A = {}}
    <3>1. PICK failed \in BOOLEAN :
            rows' = [g \in Flyers |->
              IF g = f THEN [rows[f] EXCEPT !.targets = IF failed THEN {} ELSE A]
              ELSE IF g \in C /\ ~failed THEN None ELSE rows[g]]
      BY <1>6 DEF UpdateFlyerTargets
    <3>2. A \in SUBSET Markets /\ C \in SUBSET CopiesOf(f)
      OBVIOUS
    <3> HIDE DEF A, C
    <3>3. CASE failed
      <4>1. rows' = [g \in Flyers |-> IF g = f THEN [rows[f] EXCEPT !.targets = {}]
                                      ELSE IF g \in {} THEN None ELSE rows[g]]
        BY <3>1, <3>3
      <4>2. {} \in SUBSET Markets /\ {} \in SUBSET CopiesOf(f)
        OBVIOUS
      <4> QED BY <4>1, <4>2, Zenon
    <3>4. CASE ~failed
      <4>1. rows' = [g \in Flyers |-> IF g = f THEN [rows[f] EXCEPT !.targets = A]
                                      ELSE IF g \in C THEN None ELSE rows[g]]
        BY <3>1, <3>4
      <4> QED BY <3>2, <4>1
    <3> QED BY <3>3, <3>4
  <2> DEFINE r == [rows[f] EXCEPT !.targets = T]
  <2>2. IsSource(f) /\ rows[f] # None
    BY <1>6 DEF UpdateFlyerTargets, IsSource
  <2>3. r \in Row /\ SameFile(r, rows[f])
    BY <1>t, <2>2, RowSet
  <2>4. \A g \in Flyers : rows'[g] = IF g = f THEN r ELSE IF g \in D THEN None ELSE rows[g]
    BY <2>1
  <2>5. \A g \in D : ~IsSource(g)
    BY NoneAssumption DEF CopiesOf, IsSource
  <2> HIDE DEF r
  <2>6. rows' \in [Flyers -> Row \union {None}]
    BY <1>t, <2>1, <2>3, <2>4
  <2>7. Trimmed
    BY <2>2, <2>3, <2>4 DEF Trimmed, SameFile
  <2>8. \A g \in Flyers : IsSource(g) => rows'[g] # None
    BY <2>3, <2>4, <2>5, NoneAssumption DEF IsSource
  <2> QED BY <2>6, <2>7, <2>8
<1> QED BY <1>1, <1>2, <1>3, <1>5, <1>6

\* The insertion of a source flyer, and of a copy.
LEMMA NewRow ==
  ASSUME FileTypes, NEW g \in Flyers, NEW r \in Row, rows' = [rows EXCEPT ![g] = r]
  PROVE  /\ rows' \in [Flyers -> Row \union {None}] /\ rows'[g] = r /\ r # None
         /\ \A f \in Flyers \ {g} : rows'[f] = rows[f]
  BY NoneAssumption DEF FileTypes

\* What an insertion inserts, and where.
LEMMA InsertSteps ==
  ASSUME FileTypes, NEW c \in Handlers, InsertSourceFlyer(c)
  PROVE  \E g \in Free :
           /\ rows' \in [Flyers -> Row \union {None}]
           /\ rows'[g] # None /\ rows'[g].source = None /\ rows'[g].targets = {}
           /\ rows'[g].path = calls[c].path /\ rows'[g].content = calls[c].doc
           /\ \A f \in Flyers \ {g} : rows'[f] = rows[f]
           /\ calls'[c].step = "targets" /\ calls'[c].flyer = g
           /\ calls'[c].want = calls[c].want /\ calls'[c].doc = calls[c].doc
           /\ calls'[c] \in Call
           /\ calls' = [calls EXCEPT ![c] = calls'[c]]
<1>t. calls \in [Handlers -> Call] /\ calls[c].path \in Paths /\ calls[c].doc \in Contents
  BY DEF FileTypes, InsertSourceFlyer
<1>1. PICK g \in Free :
       /\ rows' = [rows EXCEPT ![g] =
            [source |-> None, path |-> calls[c].path, content |-> calls[c].doc,
             key |-> calls[c].asked, targets |-> {}, preview |-> None, expired |-> FALSE]]
       /\ calls' = [calls EXCEPT ![c].step = "targets", ![c].flyer = g]
  BY DEF InsertSourceFlyer
<1> DEFINE r == [source |-> None, path |-> calls[c].path, content |-> calls[c].doc,
                 key |-> calls[c].asked, targets |-> {}, preview |-> None, expired |-> FALSE]
           k == [calls[c] EXCEPT !.step = "targets", !.flyer = g]
<1>2. g \in Flyers
  BY DEF Free
<1>3. r \in Row /\ r.source = None /\ r.targets = {} /\ r.path = calls[c].path /\ r.content = calls[c].doc
  BY <1>t DEF Row, Call
<1>4. /\ k \in Call /\ k.step = "targets" /\ k.flyer = g
      /\ k.want = calls[c].want /\ k.doc = calls[c].doc
  BY <1>t, <1>2 DEF Call
<1>5. calls' = [calls EXCEPT ![c] = k]
  BY <1>t, <1>1
<1>6. rows' = [rows EXCEPT ![g] = r]
  BY <1>1
<1> HIDE DEF r, k
<1>7. /\ rows' \in [Flyers -> Row \union {None}] /\ rows'[g] = r /\ r # None
      /\ \A f \in Flyers \ {g} : rows'[f] = rows[f]
  BY <1>2, <1>3, <1>6, NewRow
<1>8. calls'[c] = k
  BY <1>t, <1>5
<1> QED BY <1>3, <1>4, <1>5, <1>7, <1>8

\* The copy of a source flyer has its file.
LEMMA CopySteps ==
  ASSUME FileTypes, NEW f \in Flyers, NEW m \in Markets, UpsertPublishedTargetFlyer(f, m)
  PROVE  \E g \in Free :
           /\ rows' \in [Flyers -> Row \union {None}]
           /\ rows'[g] # None /\ rows'[g].source = f
           /\ rows'[g].path = rows[f].path /\ rows'[g].content = rows[f].content
           /\ \A h \in Flyers \ {g} : rows'[h] = rows[h]
<1>1. PICK g \in Free :
        rows' = [rows EXCEPT ![g] = [rows[f] EXCEPT !.source = f, !.key = {}, !.targets = {m}]]
  BY DEF UpsertPublishedTargetFlyer
<1> DEFINE r == [rows[f] EXCEPT !.source = f, !.key = {}, !.targets = {m}]
<1>2. g \in Flyers /\ rows[f] \in Row
  BY DEF Free, UpsertPublishedTargetFlyer, IsSource, FileTypes
<1>3. r \in Row /\ r.source = f /\ r.path = rows[f].path /\ r.content = rows[f].content
  BY <1>2 DEF Row
<1>4. rows' = [rows EXCEPT ![g] = r]
  BY <1>1
<1> HIDE DEF r
<1>5. /\ rows' \in [Flyers -> Row \union {None}] /\ rows'[g] = r /\ r # None
      /\ \A h \in Flyers \ {g} : rows'[h] = rows[h]
  BY <1>2, <1>3, <1>4, NewRow
<1> QED BY <1>3, <1>5

\* A completion asks for an upload once more, and takes its object or starts a
\* handler that is about to insert a row for it.
LEMMA CompleteSteps ==
  ASSUME FileTypes, NEW c \in Handlers, NEW p \in Paths, NEW want \in (SUBSET Markets) \ {{}},
         CompleteFlyerUpload(c, p, want)
  PROVE  /\ asked[p] \in Nat /\ asked[p] < MaxCompletions
         /\ asked' = [asked EXCEPT ![p] = asked[p] + 1] /\ UNCHANGED <<rows, sweep, doomed>>
         /\ calls[c] = Idle
         /\ \/ calls' = calls /\ objects' \in {objects, [objects EXCEPT ![p] = None]}
            \/ /\ objects' = objects /\ objects[p] \in Contents
               /\ calls'[c] \in Call /\ calls' = [calls EXCEPT ![c] = calls'[c]]
               /\ calls'[c].step = "insert" /\ calls'[c].path = p /\ calls'[c].doc = objects[p]
               /\ calls'[c].want = want \ Conflicts(objects[p], want, None, FALSE)
<1>t. calls \in [Handlers -> Call] /\ asked[p] \in (0..MaxCompletions) \union {None}
  BY DEF FileTypes
<1>1. /\ asked[p] # None /\ asked[p] < MaxCompletions
      /\ asked' = [asked EXCEPT ![p] = asked[p] + 1]
      /\ UNCHANGED <<rows, sweep, doomed>> /\ calls[c] = Idle
  BY DEF CompleteFlyerUpload
<1>2. asked[p] \in Nat
  BY <1>t, <1>1, CompletionsAssumption
<1> DEFINE A == want \ Conflicts(objects[p], want, None, FALSE)
<1>3. \/ UNCHANGED calls /\ \E failed \in BOOLEAN : RemoveFlyerObject(p, failed)
      \/ /\ objects[p] \in Contents \ TooLarge
         /\ calls' = [calls EXCEPT ![c] = [Idle EXCEPT !.step = "insert", !.path = p,
                                             !.doc = objects[p], !.asked = want, !.want = A]]
         /\ UNCHANGED objects
  BY DEF CompleteFlyerUpload
<1>4. A \in SUBSET Markets
  OBVIOUS
<1>5. CASE UNCHANGED calls /\ \E failed \in BOOLEAN : RemoveFlyerObject(p, failed)
  BY <1>1, <1>2, <1>5 DEF RemoveFlyerObject
<1>6. CASE /\ objects[p] \in Contents \ TooLarge
           /\ calls' = [calls EXCEPT ![c] = [Idle EXCEPT !.step = "insert", !.path = p,
                                             !.doc = objects[p], !.asked = want, !.want = A]]
           /\ UNCHANGED objects
  <2> DEFINE k == [Idle EXCEPT !.step = "insert", !.path = p, !.doc = objects[p],
                               !.asked = want, !.want = A]
  <2> HIDE DEF A
  <2>1. /\ k \in Call /\ k.step = "insert" /\ k.path = p /\ k.doc = objects[p] /\ k.want = A
    BY <1>4, <1>6 DEF Idle, Call
  <2>2. calls' = [calls EXCEPT ![c] = k]
    BY <1>6
  <2> HIDE DEF k
  <2>3. calls'[c] = k
    BY <1>t, <2>2
  <2> QED BY <1>1, <1>2, <1>6, <2>1, <2>2, <2>3 DEF A
<1> QED BY <1>3, <1>5, <1>6

\* The other steps of handlers: a handler ends or goes on with its flyer.
LEMMA CallSteps ==
  ASSUME FileTypes, NEW c \in Handlers,
         \/ InsertFlyerTargets(c) \/ SaveFlyerPreview(c) \/ LinkFlyerPreview(c)
         \/ DeleteFlyerRow(c) \/ Stop(c)
  PROVE  /\ UNCHANGED <<objects, asked, sweep, doomed>>
         /\ calls' \in [Handlers -> Call]
         /\ calls' = [calls EXCEPT ![c] = calls'[c]]
         /\ calls'[c] = Idle \/ (/\ calls'[c].flyer = calls[c].flyer /\ calls[c].flyer \in Flyers
                                /\ calls'[c].step \in {"preview", "link"})
<1>t. calls \in [Handlers -> Call] /\ Idle \in Call
  BY DEF FileTypes, Idle, Call
<1>1. UNCHANGED <<objects, asked, sweep, doomed>>
  BY DEF InsertFlyerTargets, SaveFlyerPreview, LinkFlyerPreview, DeleteFlyerRow, Stop
<1>2. ASSUME NEW step \in {"preview", "link"}, calls[c].flyer \in Flyers,
             calls' = [calls EXCEPT ![c].step = step]
      PROVE  /\ calls' \in [Handlers -> Call] /\ calls' = [calls EXCEPT ![c] = calls'[c]]
             /\ calls'[c].flyer = calls[c].flyer /\ calls'[c].step = step
  <2> DEFINE k == [calls[c] EXCEPT !.step = step]
  <2>1. k \in Call /\ k.flyer = calls[c].flyer /\ k.step = step
    BY <1>t DEF Call
  <2>2. calls' = [calls EXCEPT ![c] = k]
    BY <1>2
  <2> HIDE DEF k
  <2> QED BY <1>t, <2>1, <2>2
<1>3. CASE calls' = [calls EXCEPT ![c] = Idle]
  BY <1>t, <1>1, <1>3
<1>4. ASSUME calls' # [calls EXCEPT ![c] = Idle]
      PROVE  /\ calls[c].flyer \in Flyers
             /\ \/ calls' = [calls EXCEPT ![c].step = "preview"]
                \/ calls' = [calls EXCEPT ![c].step = "link"]
  BY <1>4 DEF InsertFlyerTargets, SaveFlyerPreview, LinkFlyerPreview, DeleteFlyerRow, Stop, FileTypes
<1> QED BY <1>1, <1>2, <1>3, <1>4

\* A deletion takes the object of a row, or fails to, and goes on with its flyer.
LEMMA DeleteSteps ==
  ASSUME FileTypes, NEW c \in Handlers, NEW f \in Flyers, DeleteFlyerObjects(c, f)
  PROVE  /\ UNCHANGED <<rows, asked, sweep>> /\ doomed' = doomed \union {f}
         /\ rows[f] # None /\ rows[f].path \in Paths /\ (CopiesDeleted \/ IsSource(f))
         /\ objects' \in {objects, [objects EXCEPT ![rows[f].path] = None]}
         /\ calls[c] = Idle
         /\ calls'[c] \in Call /\ calls' = [calls EXCEPT ![c] = calls'[c]]
         /\ calls'[c].step = "delete" /\ calls'[c].flyer = f
<1>t. calls \in [Handlers -> Call] /\ rows \in [Flyers -> Row \union {None}]
  BY DEF FileTypes
<1> DEFINE k == [Idle EXCEPT !.step = "delete", !.flyer = f]
<1>1. k \in Call /\ k.step = "delete" /\ k.flyer = f
  BY DEF Idle, Call
<1>2. calls' = [calls EXCEPT ![c] = k]
  BY DEF DeleteFlyerObjects
<1> HIDE DEF k
<1>3. calls'[c] = k
  BY <1>t, <1>2
<1>4. rows[f] # None /\ rows[f].path \in Paths
  BY <1>t DEF DeleteFlyerObjects, Row
<1> QED BY <1>1, <1>2, <1>3, <1>4 DEF DeleteFlyerObjects, RemoveFlyerObject

\* What the cleanup does to rows and objects.
LEMMA SweepSteps ==
  ASSUME FileTypes,
         \/ StartCleanup \/ EndCleanup \/ (\E one \in sweep.todo : FlyerFamily(one))
         \/ DeleteExpiredRow \/ RemoveUnsharedImages \/ RemoveFlyerObjects \/ StopCleanup
  PROVE  /\ UNCHANGED <<asked, calls, doomed>>
         /\ rows' \in [Flyers -> Row \union {None}] /\ Trimmed
         /\ objects' \in [Paths -> Contents \union {None}]
         /\ \A p \in Paths : objects'[p] \in {objects[p], None}
<1>t. rows \in [Flyers -> Row \union {None}] /\ objects \in [Paths -> Contents \union {None}]
  BY DEF FileTypes
<1>1. UNCHANGED <<asked, calls, doomed>>
  BY DEF StartCleanup, EndCleanup, FlyerFamily, DeleteExpiredRow, RemoveUnsharedImages,
     RemoveFlyerObjects, StopCleanup
<1>2. rows' = rows \/ Cascade(sweep.flyer)
  BY DEF StartCleanup, EndCleanup, FlyerFamily, DeleteExpiredRow, RemoveUnsharedImages,
     RemoveFlyerObjects, StopCleanup
<1>3. rows' \in [Flyers -> Row \union {None}] /\ Trimmed
  <2>1. CASE rows' = rows
    BY <1>t, <2>1 DEF Trimmed, SameFile
  <2>2. CASE Cascade(sweep.flyer)
    BY <2>2, TrimFamily
  <2> QED BY <1>2, <2>1, <2>2
<1>4. CASE objects' = objects
  BY <1>t, <1>1, <1>3, <1>4
<1>5. CASE RemoveFlyerObjects
  BY <1>t, <1>1, <1>3, <1>5 DEF RemoveFlyerObjects
<1> QED
  BY <1>4, <1>5 DEF StartCleanup, EndCleanup, FlyerFamily, DeleteExpiredRow, RemoveUnsharedImages,
     StopCleanup

\* A path that an upload of h was completed for: nothing else is ever put there.
Stored(p, h) == asked[p] \notin {None, 0} /\ objects[p] \in {None, h}
StoredAfter(p, h) == asked'[p] \notin {None, 0} /\ objects'[p] \in {None, h}

\* The paths of rows, and of rows that are about to be inserted, have their
\* documents or nothing.
FileInv ==
  /\ FileTypes
  /\ \A f \in Flyers : rows[f] # None => Stored(rows[f].path, rows[f].content)
  /\ \A c \in Handlers : calls[c].step = "insert" => Stored(calls[c].path, calls[c].doc)

\* Paths are taken once, whatever the step.
LEMMA StoredStep ==
  ASSUME FileTypes, Next \/ UNCHANGED vars
  PROVE  /\ objects' \in [Paths -> Contents \union {None}]
         /\ asked' \in [Paths -> (0..MaxCompletions) \union {None}]
         /\ \A p \in Paths, h \in Contents : Stored(p, h) => StoredAfter(p, h)
<1>t. /\ objects \in [Paths -> Contents \union {None}]
      /\ asked \in [Paths -> (0..MaxCompletions) \union {None}]
  BY DEF FileTypes
<1>1. ASSUME NEW p \in Paths, NEW h \in Contents, CreateFlyerUploadUrl(p, h)
      PROVE  /\ objects' \in [Paths -> Contents \union {None}]
             /\ asked' \in [Paths -> (0..MaxCompletions) \union {None}]
             /\ \A q \in Paths, k \in Contents : Stored(q, k) => StoredAfter(q, k)
  <2>1. /\ asked[p] = None /\ asked' = [asked EXCEPT ![p] = 0]
        /\ objects' = [objects EXCEPT ![p] = h]
    BY <1>1 DEF CreateFlyerUploadUrl
  <2>2. 0 \in 0..MaxCompletions
    BY CompletionsAssumption
  <2> QED BY <1>t, <2>1, <2>2 DEF Stored, StoredAfter
<1>2. ASSUME NEW c \in Handlers, NEW p \in Paths, NEW want \in (SUBSET Markets) \ {{}},
             CompleteFlyerUpload(c, p, want)
      PROVE  /\ objects' \in [Paths -> Contents \union {None}]
             /\ asked' \in [Paths -> (0..MaxCompletions) \union {None}]
             /\ \A q \in Paths, k \in Contents : Stored(q, k) => StoredAfter(q, k)
  <2>1. /\ asked[p] \in Nat /\ asked[p] < MaxCompletions
        /\ asked' = [asked EXCEPT ![p] = asked[p] + 1]
        /\ objects' \in {objects, [objects EXCEPT ![p] = None]}
    BY <1>2, CompleteSteps
  <2>2. asked[p] + 1 \in 0..MaxCompletions /\ asked[p] + 1 # 0
    BY <2>1, CompletionsAssumption
  <2>3. asked[p] + 1 # None
    BY <2>2, NoneAssumption
  <2> QED BY <1>t, <2>1, <2>2, <2>3 DEF Stored, StoredAfter
<1>3. ASSUME NEW c \in Handlers, NEW f \in Flyers, DeleteFlyerObjects(c, f)
      PROVE  /\ objects' \in [Paths -> Contents \union {None}] /\ asked' = asked
             /\ \A q \in Paths, k \in Contents : Stored(q, k) => StoredAfter(q, k)
  <2>1. /\ asked' = asked /\ rows[f].path \in Paths
        /\ objects' \in {objects, [objects EXCEPT ![rows[f].path] = None]}
    BY <1>3, DeleteSteps
  <2> QED BY <1>t, <2>1 DEF Stored, StoredAfter
<1>4. ASSUME \/ StartCleanup \/ EndCleanup \/ (\E one \in sweep.todo : FlyerFamily(one))
             \/ DeleteExpiredRow \/ RemoveUnsharedImages \/ RemoveFlyerObjects \/ StopCleanup
      PROVE  /\ objects' \in [Paths -> Contents \union {None}] /\ asked' = asked
             /\ \A q \in Paths, k \in Contents : Stored(q, k) => StoredAfter(q, k)
  <2>1. asked' = asked /\ \A p \in Paths : objects'[p] \in {objects[p], None}
    BY <1>4, SweepSteps
  <2>2. objects' \in [Paths -> Contents \union {None}]
    BY <1>4, SweepSteps
  <2> QED BY <2>1, <2>2 DEF Stored, StoredAfter
<1>5. CASE UNCHANGED <<objects, asked>>
  BY <1>t, <1>5 DEF Stored, StoredAfter
<1>6. ASSUME NEW c \in Handlers,
             \/ InsertSourceFlyer(c) \/ InsertFlyerTargets(c) \/ SaveFlyerPreview(c)
             \/ LinkFlyerPreview(c) \/ DeleteFlyerRow(c) \/ Stop(c)
      PROVE  UNCHANGED <<objects, asked>>
  BY <1>6 DEF InsertSourceFlyer, InsertFlyerTargets, SaveFlyerPreview, LinkFlyerPreview,
     DeleteFlyerRow, Stop
<1>7. ASSUME NEW f \in Flyers,
             \/ EnsureFlyerPreview(f) \/ Expire(f) \/ Renew(f)
             \/ (\E want \in (SUBSET Markets) \ {{}} : UpdateFlyerTargets(f, want))
             \/ (\E m \in Markets : UpsertPublishedTargetFlyer(f, m))
             \/ (\E x \in Crops : Purchase(f, x))
             \/ (\E x \in Crops : \E replaced \in SUBSET images[f] :
                   UploadDraftOfferImage(f, x, replaced))
      PROVE  UNCHANGED <<objects, asked>>
  BY <1>7 DEF EnsureFlyerPreview, Expire, Renew, UpdateFlyerTargets, UpsertPublishedTargetFlyer,
     Purchase, UploadDraftOfferImage
<1> QED
  BY <1>t, <1>1, <1>2, <1>3, <1>4, <1>5, <1>6, <1>7 DEF Next, vars

\* Rows keep their paths, and handlers insert nothing but what they completed.
LEMMA StoredKept ==
  ASSUME FileInv, Next \/ UNCHANGED vars, NEW f \in Flyers, rows[f] # None, rows'[f] # None,
         SameFile(rows'[f], rows[f])
  PROVE  StoredAfter(rows'[f].path, rows'[f].content)
<1>1. rows[f].path \in Paths /\ rows[f].content \in Contents
  BY DEF FileInv, FileTypes, Row
<1>2. StoredAfter(rows[f].path, rows[f].content)
  BY <1>1, StoredStep DEF FileInv
<1> QED BY <1>2 DEF SameFile

LEMMA FileNext ==
  ASSUME FileInv, Next \/ UNCHANGED vars
  PROVE  FileInv'
<1>t. /\ rows \in [Flyers -> Row \union {None}] /\ calls \in [Handlers -> Call] /\ FileTypes
      /\ Idle \in Call /\ Idle.step = "idle"
  BY DEF FileInv, FileTypes, Idle, Call
<1>s. /\ objects' \in [Paths -> Contents \union {None}]
      /\ asked' \in [Paths -> (0..MaxCompletions) \union {None}]
      /\ \A p \in Paths, h \in Contents : Stored(p, h) => StoredAfter(p, h)
  BY <1>t, StoredStep
<1>k. ASSUME NEW c \in Handlers, calls'[c] = calls[c]
      PROVE  /\ calls'[c].step = "insert" =>
                  /\ calls'[c].path \in Paths /\ calls'[c].doc \in Contents
                  /\ StoredAfter(calls'[c].path, calls'[c].doc)
             /\ calls'[c].step \in {"targets", "preview", "link", "delete"} => calls'[c].flyer \in Flyers
  <2>1. calls[c].step = "insert" =>
          /\ calls[c].path \in Paths /\ calls[c].doc \in Contents
          /\ Stored(calls[c].path, calls[c].doc)
    BY DEF FileInv, FileTypes
  <2>2. calls[c].step \in {"targets", "preview", "link", "delete"} => calls[c].flyer \in Flyers
    BY DEF FileInv, FileTypes
  <2> QED BY <1>s, <1>k, <2>1, <2>2 DEF Stored, StoredAfter
<1>r. ASSUME rows' \in [Flyers -> Row \union {None}], Trimmed, NEW f \in Flyers, rows'[f] # None
      PROVE  StoredAfter(rows'[f].path, rows'[f].content)
  BY <1>r, StoredKept DEF Trimmed
\* One handler moves, and not to an insertion.
<1>m. ASSUME NEW c \in Handlers, NEW k \in Call, calls' = [calls EXCEPT ![c] = k],
             k.step # "insert",
             k.step \in {"targets", "preview", "link", "delete"} => k.flyer \in Flyers,
             rows' \in [Flyers -> Row \union {None}],
             \A f \in Flyers : rows'[f] # None => StoredAfter(rows'[f].path, rows'[f].content)
      PROVE  FileInv'
  <2>1. calls' \in [Handlers -> Call] /\ calls'[c] = k
    BY <1>t, <1>m
  <2>2. \A d \in Handlers \ {c} : calls'[d] = calls[d]
    BY <1>t, <1>m
  <2>3. \A d \in Handlers :
          /\ calls'[d].step = "insert" =>
               /\ calls'[d].path \in Paths /\ calls'[d].doc \in Contents
               /\ StoredAfter(calls'[d].path, calls'[d].doc)
          /\ calls'[d].step \in {"targets", "preview", "link", "delete"} => calls'[d].flyer \in Flyers
    BY <1>k, <1>m, <2>1, <2>2
  <2> QED BY <1>m, <1>s, <2>1, <2>3 DEF FileInv, FileTypes, Stored, StoredAfter
\* No handler moves.
<1>n. ASSUME calls' = calls, rows' \in [Flyers -> Row \union {None}],
             \A f \in Flyers : rows'[f] # None => StoredAfter(rows'[f].path, rows'[f].content)
      PROVE  FileInv'
  <2>1. \A d \in Handlers :
          /\ calls'[d].step = "insert" =>
               /\ calls'[d].path \in Paths /\ calls'[d].doc \in Contents
               /\ StoredAfter(calls'[d].path, calls'[d].doc)
          /\ calls'[d].step \in {"targets", "preview", "link", "delete"} => calls'[d].flyer \in Flyers
    BY <1>k, <1>n
  <2> QED BY <1>n, <1>s, <1>t, <2>1 DEF FileInv, FileTypes, Stored, StoredAfter
<1>u. rows' = rows => /\ rows' \in [Flyers -> Row \union {None}]
                      /\ \A f \in Flyers : rows'[f] # None => StoredAfter(rows'[f].path, rows'[f].content)
  <2>1. rows' = rows => rows' \in [Flyers -> Row \union {None}] /\ Trimmed
    BY <1>t DEF Trimmed, SameFile
  <2> QED BY <1>r, <2>1
<1>1. ASSUME NEW c \in Handlers, NEW p \in Paths, NEW want \in (SUBSET Markets) \ {{}},
             CompleteFlyerUpload(c, p, want)
      PROVE  FileInv'
  <2>1. UNCHANGED rows /\ asked[p] \in Nat /\ asked' = [asked EXCEPT ![p] = asked[p] + 1]
    BY <1>t, <1>1, CompleteSteps
  <2>2. CASE calls' = calls
    BY <1>n, <1>u, <2>1, <2>2
  <2>3. CASE /\ objects' = objects /\ objects[p] \in Contents
             /\ calls'[c] \in Call /\ calls' = [calls EXCEPT ![c] = calls'[c]]
             /\ calls'[c].step = "insert" /\ calls'[c].path = p /\ calls'[c].doc = objects[p]
    <3>1. calls' \in [Handlers -> Call] /\ \A d \in Handlers \ {c} : calls'[d] = calls[d]
      BY <1>t, <2>3
    <3>2. asked'[p] = asked[p] + 1 /\ asked[p] + 1 # 0 /\ asked'[p] \in (0..MaxCompletions) \union {None}
      BY <1>s, <1>t, <2>1 DEF FileTypes
    <3>3. asked[p] + 1 # None
      <4>1. asked[p] < MaxCompletions
        BY <1>t, <1>1, CompleteSteps
      <4> QED BY <2>1, <4>1, NoneAssumption, CompletionsAssumption
    <3>4. StoredAfter(p, objects[p])
      BY <2>3, <3>2, <3>3 DEF Stored, StoredAfter
    <3>5. \A d \in Handlers :
          /\ calls'[d].step = "insert" =>
               /\ calls'[d].path \in Paths /\ calls'[d].doc \in Contents
               /\ StoredAfter(calls'[d].path, calls'[d].doc)
          /\ calls'[d].step \in {"targets", "preview", "link", "delete"} => calls'[d].flyer \in Flyers
      <4> SUFFICES ASSUME NEW d \in Handlers
                   PROVE  /\ calls'[d].step = "insert" =>
                               /\ calls'[d].path \in Paths /\ calls'[d].doc \in Contents
                               /\ StoredAfter(calls'[d].path, calls'[d].doc)
                          /\ calls'[d].step \in {"targets", "preview", "link", "delete"} =>
                               calls'[d].flyer \in Flyers
        OBVIOUS
      <4>1. CASE d = c
        BY <2>3, <3>4, <4>1 DEF Stored, StoredAfter
      <4>2. CASE d # c
        BY <1>k, <3>1, <4>2
      <4> QED BY <4>1, <4>2
    <3> QED BY <1>s, <1>u, <2>1, <3>1, <3>5 DEF FileInv, FileTypes, Stored, StoredAfter
  <2> QED BY <1>t, <1>1, <2>2, <2>3, CompleteSteps
<1>2. ASSUME NEW c \in Handlers, InsertSourceFlyer(c) PROVE FileInv'
  <2>1. PICK g \in Free :
          /\ rows' \in [Flyers -> Row \union {None}]
          /\ rows'[g] # None /\ rows'[g].source = None /\ rows'[g].targets = {}
          /\ rows'[g].path = calls[c].path /\ rows'[g].content = calls[c].doc
          /\ \A f \in Flyers \ {g} : rows'[f] = rows[f]
          /\ calls'[c].step = "targets" /\ calls'[c].flyer = g
          /\ calls'[c].want = calls[c].want /\ calls'[c].doc = calls[c].doc
          /\ calls'[c] \in Call
          /\ calls' = [calls EXCEPT ![c] = calls'[c]]
    BY <1>t, <1>2, InsertSteps
  <2>2. StoredAfter(calls[c].path, calls[c].doc)
    BY <1>2, <1>s DEF InsertSourceFlyer, FileInv, FileTypes
  <2>3. ASSUME NEW f \in Flyers, rows'[f] # None PROVE StoredAfter(rows'[f].path, rows'[f].content)
    <3>1. CASE f = g
      BY <2>1, <2>2, <3>1 DEF Stored, StoredAfter
    <3>2. CASE f # g
      <4>1. rows'[f] = rows[f]
        BY <2>1, <3>2
      <4> QED BY <2>3, <4>1, StoredKept DEF SameFile
    <3> QED BY <3>1, <3>2
  <2>4. g \in Flyers
    BY DEF Free
  <2> QED BY <1>m, <2>1, <2>3, <2>4
<1>3. ASSUME NEW f \in Flyers, NEW m \in Markets, UpsertPublishedTargetFlyer(f, m) PROVE FileInv'
  <2>1. PICK g \in Free :
           /\ rows' \in [Flyers -> Row \union {None}]
           /\ rows'[g] # None /\ rows'[g].source = f
           /\ rows'[g].path = rows[f].path /\ rows'[g].content = rows[f].content
           /\ \A h \in Flyers \ {g} : rows'[h] = rows[h]
    BY <1>t, <1>3, CopySteps
  <2>2. rows[f] # None /\ rows[f].path \in Paths /\ rows[f].content \in Contents /\ calls' = calls
    BY <1>3, <1>t DEF UpsertPublishedTargetFlyer, IsSource, Row
  <2>3. StoredAfter(rows[f].path, rows[f].content)
    BY <2>2, <1>s DEF FileInv
  <2>4. ASSUME NEW h \in Flyers, rows'[h] # None PROVE StoredAfter(rows'[h].path, rows'[h].content)
    <3>1. CASE h = g
      BY <2>1, <2>3, <3>1 DEF Stored, StoredAfter
    <3>2. CASE h # g
      <4>1. rows'[h] = rows[h]
        BY <2>1, <3>2
      <4> QED BY <2>4, <4>1, StoredKept DEF SameFile
    <3> QED BY <3>1, <3>2
  <2> QED BY <1>n, <2>1, <2>2, <2>4
<1>4. ASSUME NEW c \in Handlers,
             \/ InsertFlyerTargets(c) \/ SaveFlyerPreview(c) \/ LinkFlyerPreview(c)
             \/ DeleteFlyerRow(c) \/ Stop(c)
      PROVE  FileInv'
  <2>1. /\ calls' \in [Handlers -> Call]
        /\ calls' = [calls EXCEPT ![c] = calls'[c]]
        /\ calls'[c] = Idle \/ (/\ calls'[c].flyer = calls[c].flyer /\ calls[c].flyer \in Flyers
                                /\ calls'[c].step \in {"preview", "link"})
    BY <1>t, <1>4, CallSteps
  <2>2. rows' \in [Flyers -> Row \union {None}] /\ Trimmed
    <3>1. CASE InsertFlyerTargets(c) \/ LinkFlyerPreview(c)
      BY <1>t, <3>1, TrimSteps
    <3>2. CASE DeleteFlyerRow(c)
      BY <1>t, <3>2, TrimFamily DEF DeleteFlyerRow
    <3>3. CASE rows' = rows
      BY <1>t, <3>3 DEF Trimmed, SameFile
    <3> QED BY <1>4, <3>1, <3>2, <3>3 DEF SaveFlyerPreview, Stop
  <2>3. \A f \in Flyers : rows'[f] # None => StoredAfter(rows'[f].path, rows'[f].content)
    BY <1>r, <2>2
  <2>4. calls'[c] \in Call /\ calls'[c].step # "insert"
    BY <1>t, <2>1
  <2>5. calls'[c].step \in {"targets", "preview", "link", "delete"} => calls'[c].flyer \in Flyers
    BY <1>t, <2>1
  <2> QED BY <1>m, <2>1, <2>2, <2>3, <2>4, <2>5
<1>5. ASSUME NEW c \in Handlers, NEW f \in Flyers, DeleteFlyerObjects(c, f) PROVE FileInv'
  <2>1. /\ rows' = rows
        /\ calls'[c] \in Call /\ calls' = [calls EXCEPT ![c] = calls'[c]]
        /\ calls'[c].step = "delete" /\ calls'[c].flyer = f
    BY <1>t, <1>5, DeleteSteps
  <2> QED BY <1>m, <1>u, <2>1
<1>6. ASSUME NEW f \in Flyers,
             \/ EnsureFlyerPreview(f) \/ Expire(f) \/ Renew(f)
             \/ (\E want \in (SUBSET Markets) \ {{}} : UpdateFlyerTargets(f, want))
      PROVE  FileInv'
  <2>1. rows' \in [Flyers -> Row \union {None}] /\ Trimmed
    BY <1>t, <1>6, TrimSteps
  <2>2. calls' = calls
    BY <1>6 DEF EnsureFlyerPreview, Expire, Renew, UpdateFlyerTargets
  <2> QED BY <1>n, <1>r, <2>1, <2>2
<1>7. ASSUME \/ StartCleanup \/ EndCleanup \/ (\E one \in sweep.todo : FlyerFamily(one))
             \/ DeleteExpiredRow \/ RemoveUnsharedImages \/ RemoveFlyerObjects \/ StopCleanup
      PROVE  FileInv'
  <2>1. calls' = calls /\ rows' \in [Flyers -> Row \union {None}] /\ Trimmed
    BY <1>t, <1>7, SweepSteps
  <2> QED BY <1>n, <1>r, <2>1
<1>8. CASE UNCHANGED <<rows, calls>>
  BY <1>n, <1>u, <1>8
<1>9. ASSUME NEW p \in Paths, NEW h \in Contents, CreateFlyerUploadUrl(p, h) PROVE FileInv'
  BY <1>8, <1>9 DEF CreateFlyerUploadUrl
<1>10. ASSUME NEW f \in Flyers, NEW x \in Crops,
              Purchase(f, x) \/ \E replaced \in SUBSET images[f] : UploadDraftOfferImage(f, x, replaced)
       PROVE  FileInv'
  BY <1>8, <1>10 DEF Purchase, UploadDraftOfferImage
<1> QED
  BY <1>1, <1>2, <1>3, <1>4, <1>5, <1>6, <1>7, <1>8, <1>9, <1>10 DEF Next, vars

\* Nothing is stored, and nobody is about to insert a row.
LEMMA FileInit == Init => FileInv
<1>1. Idle \in Call /\ Idle.step = "idle"
  BY DEF Idle, Call
<1> QED BY <1>1 DEF Init, FileInv, FileTypes

\* A preflight asks to upload a document for no market that has a current flyer of
\* the same period that looks the same, or that could not be compared: what is in
\* the bucket at the path of a row is the document of the row, or nothing.
THEOREM PreflightIsSafe == Spec => []NothingUploadedTwice
<1>1. FileInv => NothingUploadedTwice
  <2> SUFFICES ASSUME FileInv, NEW h \in Contents, NEW want \in SUBSET Markets,
                      NEW m \in Decide(h, want).upload,
                      NEW f \in Flyers, IsSource(f), ~rows[f].expired, m \in rows[f].targets,
                      Validity[rows[f].content] = Validity[h],
                      objects[rows[f].path] = None \/ <<h, rows[f].content>> \in Alike
               PROVE  FALSE
    BY DEF NothingUploadedTwice
  <2> DEFINE exact == Conflicts(h, want, None, TRUE)
             documents == PreflightDocuments(h, want \ exact)
  <2>1. Decide(h, want).upload =
          IF Unavailable(documents) # {} THEN {} ELSE want \ (exact \union VisualConflicts(h, documents))
    BY DEF Decide, Decision
  <2>2. Unavailable(documents) = {} /\ m \in want \ exact /\ m \notin VisualConflicts(h, documents)
    BY <2>1
  <2>3. f \in documents
    BY <2>2 DEF PreflightDocuments
  <2>4. objects[rows[f].path] # None
    BY <2>2, <2>3 DEF Unavailable
  <2>5. objects[rows[f].path] = rows[f].content
    BY <2>4 DEF FileInv, Stored, StoredAfter, IsSource
  <2>6. f \in documents \ Unavailable(documents) /\ <<h, objects[rows[f].path]>> \in Alike
    BY <2>2, <2>3, <2>4, <2>5
  <2> HIDE DEF documents
  <2>7. rows[f].targets \subseteq VisualConflicts(h, documents)
    BY <2>6 DEF VisualConflicts
  <2> QED BY <2>2, <2>7
<1>2. FileInv /\ [Next]_vars => FileInv'
  BY FileNext
<1> QED BY <1>1, <1>2, FileInit, PTL DEF Spec

-----------------------------------------------------------------------------
(* A flyer keeps its file.                                                  *)

\* What the theorem needs of clients: an upload is completed once, and the
\* deletion of published copies is not asked for.
OnceEach == MaxCompletions = 1 /\ ~CopiesDeleted

\* A copy has the file of its source, and source flyers have files of their own.
FamilyInv ==
  /\ \A g \in Flyers : rows[g] # None /\ rows[g].source # None =>
       /\ IsSource(rows[g].source)
       /\ rows[rows[g].source].path = rows[g].path
       /\ rows[rows[g].source].content = rows[g].content
  /\ \A f, g \in Flyers : IsSource(f) /\ IsSource(g) /\ rows[f].path = rows[g].path => f = g

\* Source flyers have their files until they are doomed, and only the doomed are
\* deleted by handlers.
SourcesKept ==
  /\ \A f \in Flyers : IsSource(f) => f \in doomed \/ objects[rows[f].path] = rows[f].content
  /\ \A c \in Handlers : calls[c].step = "delete" => calls[c].flyer \in doomed

\* A row that is about to be inserted has a file of its own.
InsertsKept ==
  \A c \in Handlers : calls[c].step = "insert" =>
    /\ objects[calls[c].path] = calls[c].doc
    /\ \A f \in Flyers : IsSource(f) => rows[f].path # calls[c].path
    /\ \A d \in Handlers : calls[d].step = "insert" /\ calls[d].path = calls[c].path => d = c

\* No source flyer but f has, or will have, its file at p.
Alone(p, f) ==
  /\ asked[p] \notin {None, 0}
  /\ \A c \in Handlers : calls[c].step = "insert" => calls[c].path # p
  /\ \A g \in Flyers : rows[g] # None /\ rows[g].source = None /\ rows[g].path = p => g = f
AloneAfter(p, f) ==
  /\ asked'[p] \notin {None, 0}
  /\ \A c \in Handlers : calls'[c].step = "insert" => calls'[c].path # p
  /\ \A g \in Flyers : rows'[g] # None /\ rows'[g].source = None /\ rows'[g].path = p => g = f

\* No flyer at all has, or will have, its file at p.
Vacant(p) ==
  /\ asked[p] \notin {None, 0}
  /\ \A c \in Handlers : calls[c].step = "insert" => calls[c].path # p
  /\ \A g \in Flyers : rows[g] # None => rows[g].path # p
VacantAfter(p) ==
  /\ asked'[p] \notin {None, 0}
  /\ \A c \in Handlers : calls'[c].step = "insert" => calls'[c].path # p
  /\ \A g \in Flyers : rows'[g] # None => rows'[g].path # p

\* f is the source flyer it was when the cleanup found its file at p, or it was
\* deleted and its id is not used again.
Same(p, f) ==
  /\ f \in doomed \/ rows[f] # None
  /\ rows[f] # None => rows[f].source = None /\ rows[f].path = p
SameAfter(p, f) ==
  /\ f \in doomed' \/ rows'[f] # None
  /\ rows'[f] # None => rows'[f].source = None /\ rows'[f].path = p

Found == [flyer : Flyers, path : Paths, preview : Flyers \union {None}]

\* The cleanup still has to do with the flyers it found, and with no others; the
\* files it removes are nobody's.
SweepInv ==
  /\ sweep = [step |-> sweep.step, todo |-> sweep.todo, flyer |-> sweep.flyer,
              paths |-> sweep.paths, previews |-> sweep.previews, pics |-> sweep.pics]
  /\ sweep.todo \subseteq Found /\ sweep.paths \subseteq Paths
  /\ \A one \in sweep.todo : Alone(one.path, one.flyer) /\ Same(one.path, one.flyer)
  /\ \A one, two \in sweep.todo : one.flyer = two.flyer => one = two
  /\ sweep.step = "row" =>
       /\ sweep.flyer \in Flyers
       /\ \A p \in sweep.paths : Alone(p, sweep.flyer)
       /\ \A one \in sweep.todo : one.flyer # sweep.flyer
  /\ sweep.step \in {"images", "objects"} => \A p \in sweep.paths : Vacant(p)

KeptInv == FileInv /\ FamilyInv /\ SourcesKept /\ InsertsKept /\ SweepInv

\* What the cleanup relies on survives a step.
Carried ==
  /\ \A p \in Paths, f \in Flyers : Alone(p, f) => AloneAfter(p, f)
  /\ \A p \in Paths, f \in Flyers : Alone(p, f) /\ Same(p, f) => SameAfter(p, f)
  /\ \A p \in Paths : Vacant(p) => VacantAfter(p)

LEMMA SweepSame ==
  ASSUME SweepInv, Carried, sweep' = sweep
  PROVE  SweepInv'
<1>1. \A one \in sweep.todo : one.path \in Paths /\ one.flyer \in Flyers
  BY DEF SweepInv, Found
<1>2. \A one \in sweep.todo : AloneAfter(one.path, one.flyer) /\ SameAfter(one.path, one.flyer)
  BY <1>1 DEF SweepInv, Carried
<1>3. \A one \in sweep'.todo : Alone(one.path, one.flyer)' /\ Same(one.path, one.flyer)'
  BY <1>2 DEF Alone, AloneAfter, Same, SameAfter
<1>4. ASSUME sweep.step = "row" PROVE \A p \in sweep'.paths : Alone(p, sweep.flyer)'
  <2>1. \A p \in sweep.paths : AloneAfter(p, sweep.flyer)
    BY <1>4 DEF SweepInv, Carried
  <2> QED BY <2>1 DEF Alone, AloneAfter
<1>5. ASSUME sweep.step \in {"images", "objects"} PROVE \A p \in sweep'.paths : Vacant(p)'
  <2>1. \A p \in sweep.paths : VacantAfter(p)
    BY <1>5 DEF SweepInv, Carried
  <2> QED BY <2>1 DEF Vacant, VacantAfter
<1> QED BY <1>3, <1>4, <1>5 DEF SweepInv

\* Rows that go, with the copies of source flyers, or are written without another
\* file, leave every other row its file.
LEMMA TrimKept ==
  ASSUME FileTypes, FamilyInv, SourcesKept, InsertsKept, Trimmed,
         UNCHANGED <<objects, asked>>, doomed \subseteq doomed',
         \A g, h \in Flyers : IsSource(g) /\ rows'[g] = None /\ h \in CopiesOf(g) => rows'[h] = None,
         \A c \in Handlers : calls'[c].step \in {"insert", "delete"} => calls'[c] = calls[c]
  PROVE  /\ FamilyInv' /\ SourcesKept' /\ InsertsKept'
         /\ \A p \in Paths, f \in Flyers : Alone(p, f) => AloneAfter(p, f)
         /\ \A p \in Paths : Vacant(p) => VacantAfter(p)
         /\ \A p \in Paths, f \in Flyers :
              Same(p, f) /\ (rows[f] # None /\ f \notin doomed => rows'[f] # None) => SameAfter(p, f)
<1>1. ASSUME NEW g \in Flyers, rows'[g] # None
      PROVE  /\ rows[g] # None /\ rows'[g].source = rows[g].source
             /\ rows'[g].path = rows[g].path /\ rows'[g].content = rows[g].content
  BY <1>1 DEF Trimmed, SameFile
<1>2. FamilyInv'
  <2>1. ASSUME NEW g \in Flyers, rows'[g] # None, rows'[g].source # None
        PROVE  /\ rows'[g].source \in Flyers
               /\ rows'[rows'[g].source] # None /\ rows'[rows'[g].source].source = None
               /\ rows'[rows'[g].source].path = rows'[g].path
               /\ rows'[rows'[g].source].content = rows'[g].content
    <3> DEFINE s == rows[g].source
    <3>1. rows[g] # None /\ rows'[g].source = s /\ s \in Flyers
      BY <1>1, <2>1 DEF FileTypes, Row
    <3>2. IsSource(s) /\ rows[s].path = rows[g].path /\ rows[s].content = rows[g].content
      BY <2>1, <3>1 DEF FamilyInv
    <3>3. g \in CopiesOf(s)
      BY <3>1 DEF CopiesOf
    <3>4. rows'[s] # None
      BY <2>1, <3>1, <3>2, <3>3
    <3>5. rows'[s].source = None
      BY <1>1, <3>1, <3>2, <3>4 DEF IsSource
    <3> HIDE DEF s
    <3> QED BY <1>1, <2>1, <3>1, <3>2, <3>4, <3>5
  <2>2. ASSUME NEW f \in Flyers, NEW g \in Flyers, IsSource(f)', IsSource(g)',
               rows'[f].path = rows'[g].path
        PROVE  f = g
    BY <1>1, <2>2 DEF FamilyInv, IsSource
  <2> QED BY <2>1, <2>2 DEF FamilyInv, IsSource
<1>3. SourcesKept'
  BY <1>1 DEF SourcesKept, IsSource
<1>4. InsertsKept'
  BY <1>1 DEF InsertsKept, IsSource
<1>5. ASSUME NEW p \in Paths, NEW f \in Flyers, Alone(p, f) PROVE AloneAfter(p, f)
  BY <1>1, <1>5 DEF Alone, AloneAfter
<1>6. ASSUME NEW p \in Paths, Vacant(p) PROVE VacantAfter(p)
  BY <1>1, <1>6 DEF Vacant, VacantAfter
<1>7. ASSUME NEW p \in Paths, NEW f \in Flyers, Same(p, f),
             rows[f] # None /\ f \notin doomed => rows'[f] # None
      PROVE  SameAfter(p, f)
  BY <1>1, <1>7 DEF Same, SameAfter
<1> QED BY <1>2, <1>3, <1>4, <1>5, <1>6, <1>7

\* An upload that is signed or completed for the first time is nobody's yet.
LEMMA UploadKept ==
  ASSUME KeptInv, OnceEach,
         \/ \E p \in Paths, h \in Contents : CreateFlyerUploadUrl(p, h)
         \/ \E c \in Handlers, p \in Paths, want \in (SUBSET Markets) \ {{}} :
              CompleteFlyerUpload(c, p, want)
  PROVE  FamilyInv' /\ SourcesKept' /\ InsertsKept' /\ SweepInv'
<1>t. FileTypes
  BY DEF KeptInv, FileInv
<1>1. PICK p \in Paths :
        /\ asked[p] \in {None, 0} /\ \A q \in Paths \ {p} : asked'[q] = asked[q] /\ objects'[q] = objects[q]
        /\ UNCHANGED <<rows, sweep, doomed>>
        /\ \/ calls' = calls
           \/ \E c \in Handlers :
                /\ calls[c] = Idle /\ objects' = objects /\ \A d \in Handlers \ {c} : calls'[d] = calls[d]
                /\ calls'[c].step = "insert" /\ calls'[c].path = p /\ calls'[c].doc = objects[p]
  <2>1. ASSUME NEW p \in Paths, NEW h \in Contents, CreateFlyerUploadUrl(p, h)
        PROVE  /\ asked[p] \in {None, 0}
               /\ \A q \in Paths \ {p} : asked'[q] = asked[q] /\ objects'[q] = objects[q]
               /\ UNCHANGED <<rows, sweep, doomed, calls>>
    BY <1>t, <2>1 DEF CreateFlyerUploadUrl, FileTypes
  <2>2. ASSUME NEW c \in Handlers, NEW p \in Paths, NEW want \in (SUBSET Markets) \ {{}},
               CompleteFlyerUpload(c, p, want)
        PROVE  /\ asked[p] \in {None, 0}
               /\ \A q \in Paths \ {p} : asked'[q] = asked[q] /\ objects'[q] = objects[q]
               /\ UNCHANGED <<rows, sweep, doomed>>
               /\ \/ calls' = calls
                  \/ /\ calls[c] = Idle /\ objects' = objects
                     /\ \A d \in Handlers \ {c} : calls'[d] = calls[d]
                     /\ calls'[c].step = "insert" /\ calls'[c].path = p /\ calls'[c].doc = objects[p]
    <3>1. /\ asked[p] \in Nat /\ asked[p] < MaxCompletions
          /\ asked' = [asked EXCEPT ![p] = asked[p] + 1] /\ UNCHANGED <<rows, sweep, doomed>>
          /\ calls[c] = Idle
          /\ \/ calls' = calls /\ objects' \in {objects, [objects EXCEPT ![p] = None]}
             \/ /\ objects' = objects /\ objects[p] \in Contents
                /\ calls'[c] \in Call /\ calls' = [calls EXCEPT ![c] = calls'[c]]
                /\ calls'[c].step = "insert" /\ calls'[c].path = p /\ calls'[c].doc = objects[p]
      BY <1>t, <2>2, CompleteSteps
    <3>2. asked[p] = 0
      BY <3>1 DEF OnceEach
    <3> QED BY <1>t, <3>1, <3>2 DEF FileTypes
  <2> QED BY <2>1, <2>2
<1>2. /\ \A f \in Flyers : rows[f] # None => rows[f].path # p /\ rows[f].path \in Paths
      /\ \A c \in Handlers : calls[c].step = "insert" => calls[c].path # p /\ calls[c].path \in Paths
  BY <1>1 DEF KeptInv, FileInv, FileTypes, Stored, Row
<1>3. FamilyInv'
  BY <1>1 DEF KeptInv, FamilyInv, IsSource
<1>4. ASSUME NEW c \in Handlers, calls'[c].step # "insert" PROVE calls'[c] = calls[c]
  BY <1>1, <1>4
<1>5. SourcesKept'
  <2>1. ASSUME NEW f \in Flyers, IsSource(f) PROVE f \in doomed \/ objects'[rows[f].path] = rows[f].content
    BY <1>1, <1>2, <2>1 DEF KeptInv, SourcesKept, IsSource
  <2> QED BY <1>1, <1>4, <2>1 DEF KeptInv, SourcesKept, IsSource
<1>6. InsertsKept'
  <2>1. CASE calls' = calls
    BY <1>1, <1>2, <2>1 DEF KeptInv, InsertsKept, IsSource
  <2>2. ASSUME NEW c \in Handlers, objects' = objects, \A d \in Handlers \ {c} : calls'[d] = calls[d],
               calls'[c].step = "insert", calls'[c].path = p, calls'[c].doc = objects[p]
        PROVE  InsertsKept'
    BY <1>1, <1>2, <2>2 DEF KeptInv, InsertsKept, IsSource
  <2> QED BY <1>1, <2>1, <2>2
<1>7. ASSUME NEW q \in Paths, asked[q] \notin {None, 0}
      PROVE  /\ asked'[q] \notin {None, 0} /\ q # p
             /\ (\A c \in Handlers : calls[c].step = "insert" => calls[c].path # q) =>
                  \A c \in Handlers : calls'[c].step = "insert" => calls'[c].path # q
  BY <1>1, <1>7
<1>8. Carried
  BY <1>1, <1>7 DEF Carried, Alone, AloneAfter, Same, SameAfter, Vacant, VacantAfter
<1> QED BY <1>1, <1>3, <1>5, <1>6, <1>8, SweepSame DEF KeptInv

\* A row that is inserted takes a free id, and the file it was completed with or
\* that of its source.
LEMMA NewKept ==
  ASSUME KeptInv,
         \/ \E c \in Handlers : InsertSourceFlyer(c)
         \/ \E f \in Flyers, m \in Markets : UpsertPublishedTargetFlyer(f, m)
  PROVE  FamilyInv' /\ SourcesKept' /\ InsertsKept' /\ SweepInv'
<1>t. FileTypes
  BY DEF KeptInv, FileInv
<1>0. \A g \in Free : g \in Flyers /\ rows[g] = None /\ g \notin doomed
  BY DEF Free
\* No copy refers to a free id.
<1>c. ASSUME NEW g \in Free, NEW h \in Flyers, rows[h] # None PROVE rows[h].source # g
  BY <1>0, <1>c, NoneAssumption DEF KeptInv, FamilyInv, IsSource
<1>1. ASSUME NEW c \in Handlers, InsertSourceFlyer(c)
      PROVE  FamilyInv' /\ SourcesKept' /\ InsertsKept' /\ SweepInv'
  <2>1. PICK g \in Free :
           /\ rows'[g] # None /\ rows'[g].source = None
           /\ rows'[g].path = calls[c].path /\ rows'[g].content = calls[c].doc
           /\ \A f \in Flyers \ {g} : rows'[f] = rows[f]
           /\ calls'[c].step = "targets"
           /\ calls' = [calls EXCEPT ![c] = calls'[c]]
    BY <1>t, <1>1, InsertSteps
  <2>2. UNCHANGED <<objects, asked, sweep, doomed>> /\ calls[c].step = "insert"
    BY <1>1 DEF InsertSourceFlyer
  <2>3. \A d \in Handlers \ {c} : calls'[d] = calls[d]
    BY <1>t, <2>1 DEF FileTypes
  <2>4. /\ objects[calls[c].path] = calls[c].doc
        /\ \A f \in Flyers : IsSource(f) => rows[f].path # calls[c].path
        /\ \A d \in Handlers : calls[d].step = "insert" /\ calls[d].path = calls[c].path => d = c
    BY <2>2 DEF KeptInv, InsertsKept
  <2>5. FamilyInv'
    <3>1. ASSUME NEW h \in Flyers, rows'[h] # None, rows'[h].source # None
          PROVE  /\ rows'[h].source \in Flyers
                 /\ rows'[rows'[h].source] # None /\ rows'[rows'[h].source].source = None
                 /\ rows'[rows'[h].source].path = rows'[h].path
                 /\ rows'[rows'[h].source].content = rows'[h].content
      <4>1. h # g /\ rows'[h] = rows[h]
        BY <2>1, <3>1
      <4>2. rows[h].source \in Flyers /\ rows[h].source # g
        BY <1>t, <1>c, <3>1, <4>1 DEF FileTypes, Row
      <4>3. rows'[rows[h].source] = rows[rows[h].source]
        BY <2>1, <4>2
      <4> QED BY <3>1, <4>1, <4>2, <4>3 DEF KeptInv, FamilyInv, IsSource
    <3>2. ASSUME NEW f \in Flyers, NEW h \in Flyers, IsSource(f)', IsSource(h)',
                 rows'[f].path = rows'[h].path
          PROVE  f = h
      BY <2>1, <2>4, <3>2 DEF KeptInv, FamilyInv, IsSource
    <3> QED BY <3>1, <3>2 DEF FamilyInv, IsSource
  <2>6. SourcesKept'
    BY <2>1, <2>2, <2>3, <2>4 DEF KeptInv, SourcesKept, IsSource
  <2>7. InsertsKept'
    BY <2>1, <2>2, <2>3, <2>4 DEF KeptInv, InsertsKept, IsSource
  <2>8. ASSUME NEW p \in Paths, NEW f \in Flyers, Alone(p, f) PROVE AloneAfter(p, f)
    BY <2>1, <2>2, <2>3, <2>8 DEF Alone, AloneAfter
  <2>9. ASSUME NEW p \in Paths, Vacant(p) PROVE VacantAfter(p)
    BY <2>1, <2>2, <2>3, <2>9 DEF Vacant, VacantAfter
  <2>10. ASSUME NEW p \in Paths, NEW f \in Flyers, Same(p, f) PROVE SameAfter(p, f)
    BY <1>0, <2>1, <2>2, <2>10 DEF Same, SameAfter
  <2> QED BY <2>2, <2>5, <2>6, <2>7, <2>8, <2>9, <2>10, SweepSame DEF Carried, KeptInv
<1>2. ASSUME NEW f \in Flyers, NEW m \in Markets, UpsertPublishedTargetFlyer(f, m)
      PROVE  FamilyInv' /\ SourcesKept' /\ InsertsKept' /\ SweepInv'
  <2>1. PICK g \in Free :
           /\ rows'[g] # None /\ rows'[g].source = f
           /\ rows'[g].path = rows[f].path /\ rows'[g].content = rows[f].content
           /\ \A h \in Flyers \ {g} : rows'[h] = rows[h]
    BY <1>t, <1>2, CopySteps
  <2>2. UNCHANGED <<objects, asked, calls, sweep, doomed>> /\ IsSource(f) /\ f # g /\ f # None
    BY <1>0, <1>2, NoneAssumption DEF UpsertPublishedTargetFlyer, IsSource
  <2>3. \A h \in Flyers : IsSource(h)' => h # g /\ IsSource(h) /\ rows'[h] = rows[h]
    BY <2>1, <2>2 DEF IsSource
  <2>4. FamilyInv'
    <3>1. ASSUME NEW h \in Flyers, rows'[h] # None, rows'[h].source # None
          PROVE  /\ rows'[h].source \in Flyers
                 /\ rows'[rows'[h].source] # None /\ rows'[rows'[h].source].source = None
                 /\ rows'[rows'[h].source].path = rows'[h].path
                 /\ rows'[rows'[h].source].content = rows'[h].content
      <4>1. CASE h = g
        BY <2>1, <2>2, <4>1 DEF IsSource
      <4>2. CASE h # g
        <5>1. rows'[h] = rows[h]
          BY <2>1, <4>2
        <5>2. rows[h].source \in Flyers /\ rows[h].source # g
          BY <1>t, <1>c, <3>1, <5>1 DEF FileTypes, Row
        <5>3. rows'[rows[h].source] = rows[rows[h].source]
          BY <2>1, <5>2
        <5> QED BY <3>1, <5>1, <5>2, <5>3 DEF KeptInv, FamilyInv, IsSource
      <4> QED BY <4>1, <4>2
    <3>2. ASSUME NEW d \in Flyers, NEW h \in Flyers, IsSource(d)', IsSource(h)',
                 rows'[d].path = rows'[h].path
          PROVE  d = h
      BY <2>3, <3>2 DEF KeptInv, FamilyInv
    <3> QED BY <3>1, <3>2 DEF FamilyInv, IsSource
  <2>5. SourcesKept' /\ InsertsKept'
    BY <2>2, <2>3 DEF KeptInv, SourcesKept, InsertsKept
  <2>6. ASSUME NEW p \in Paths, NEW d \in Flyers, Alone(p, d) PROVE AloneAfter(p, d)
    BY <2>1, <2>2, <2>6 DEF Alone, AloneAfter
  <2>7. ASSUME NEW p \in Paths, Vacant(p) PROVE VacantAfter(p)
    BY <2>1, <2>2, <2>7 DEF Vacant, VacantAfter, IsSource
  <2>8. ASSUME NEW p \in Paths, NEW d \in Flyers, Same(p, d) PROVE SameAfter(p, d)
    BY <1>0, <2>1, <2>2, <2>8 DEF Same, SameAfter
  <2> QED BY <2>2, <2>4, <2>5, <2>6, <2>7, <2>8, SweepSame DEF Carried, KeptInv
<1> QED BY <1>1, <1>2

\* The steps of handlers that insert nothing, and the changes of flyers.
LEMMA EditKept ==
  ASSUME KeptInv,
         \/ \E c \in Handlers : \/ InsertFlyerTargets(c) \/ SaveFlyerPreview(c) \/ LinkFlyerPreview(c)
                                \/ DeleteFlyerRow(c) \/ Stop(c)
         \/ \E f \in Flyers : EnsureFlyerPreview(f) \/ Expire(f) \/ Renew(f)
         \/ \E f \in Flyers, want \in (SUBSET Markets) \ {{}} : UpdateFlyerTargets(f, want)
         \/ \E f \in Flyers, x \in Crops : Purchase(f, x)
         \/ \E f \in Flyers, x \in Crops : \E replaced \in SUBSET images[f] :
              UploadDraftOfferImage(f, x, replaced)
         \/ UNCHANGED vars
  PROVE  FamilyInv' /\ SourcesKept' /\ InsertsKept' /\ SweepInv'
<1>t. FileTypes /\ FamilyInv /\ SourcesKept /\ InsertsKept /\ SweepInv
  BY DEF KeptInv, FileInv
\* Only the doomed go, of the flyers that have no source.
<1>k. ASSUME Trimmed, UNCHANGED <<objects, asked, sweep, doomed>>,
             \A g, h \in Flyers : IsSource(g) /\ rows'[g] = None /\ h \in CopiesOf(g) => rows'[h] = None,
             \A g \in Flyers : IsSource(g) /\ g \notin doomed => rows'[g] # None,
             \A c \in Handlers : calls'[c].step \in {"insert", "delete"} => calls'[c] = calls[c]
      PROVE  FamilyInv' /\ SourcesKept' /\ InsertsKept' /\ SweepInv'
  <2>1. /\ FamilyInv' /\ SourcesKept' /\ InsertsKept'
        /\ \A p \in Paths, f \in Flyers : Alone(p, f) => AloneAfter(p, f)
        /\ \A p \in Paths : Vacant(p) => VacantAfter(p)
        /\ \A p \in Paths, f \in Flyers :
             Same(p, f) /\ (rows[f] # None /\ f \notin doomed => rows'[f] # None) => SameAfter(p, f)
    BY <1>k, <1>t, TrimKept
  <2>2. ASSUME NEW p \in Paths, NEW f \in Flyers, Same(p, f) PROVE SameAfter(p, f)
    BY <1>k, <2>1, <2>2 DEF Same, IsSource
  <2>3. Carried
    BY <2>1, <2>2 DEF Carried
  <2> QED BY <1>k, <1>t, <2>1, <2>3, SweepSame
\* Nothing goes.
<1>n. ASSUME Trimmed, UNCHANGED <<objects, asked, sweep, doomed>>,
             \A g \in Flyers : IsSource(g) => rows'[g] # None,
             \A c \in Handlers : calls'[c].step \in {"insert", "delete"} => calls'[c] = calls[c]
      PROVE  FamilyInv' /\ SourcesKept' /\ InsertsKept' /\ SweepInv'
  BY <1>k, <1>n
<1>u. rows' = rows => Trimmed /\ \A g \in Flyers : IsSource(g) => rows'[g] # None
  BY DEF Trimmed, SameFile, IsSource
<1>1. ASSUME NEW c \in Handlers,
             \/ InsertFlyerTargets(c) \/ SaveFlyerPreview(c) \/ LinkFlyerPreview(c)
             \/ DeleteFlyerRow(c) \/ Stop(c)
      PROVE  FamilyInv' /\ SourcesKept' /\ InsertsKept' /\ SweepInv'
  <2>1. /\ UNCHANGED <<objects, asked, sweep, doomed>>
        /\ calls' = [calls EXCEPT ![c] = calls'[c]]
        /\ calls'[c] = Idle \/ calls'[c].step \in {"preview", "link"}
    BY <1>t, <1>1, CallSteps
  <2>2. \A d \in Handlers : calls'[d].step \in {"insert", "delete"} => calls'[d] = calls[d]
    <3>1. \A d \in Handlers \ {c} : calls'[d] = calls[d]
      BY <1>t, <2>1 DEF FileTypes
    <3>2. Idle.step = "idle"
      BY DEF Idle
    <3> QED BY <2>1, <3>1, <3>2
  <2>3. CASE InsertFlyerTargets(c) \/ LinkFlyerPreview(c)
    <3>1. Trimmed /\ \A g \in Flyers : rows[g] # None => rows'[g] # None
      BY <1>t, <2>3, TrimSteps
    <3> QED BY <1>n, <2>1, <2>2, <3>1 DEF IsSource
  <2>4. CASE rows' = rows
    BY <1>n, <1>u, <2>1, <2>2, <2>4
  <2>5. CASE DeleteFlyerRow(c)
    <3> DEFINE f == calls[c].flyer
    <3>1. f \in Flyers /\ f \in doomed /\ Cascade(f)
      BY <1>t, <2>5 DEF DeleteFlyerRow, FileTypes, SourcesKept
    <3> HIDE DEF f
    <3>2. Trimmed /\ \A g \in Flyers : IF g \in Family(f) THEN rows'[g] = None ELSE rows'[g] = rows[g]
      BY <1>t, <3>1, TrimFamily
    <3>3. \A g \in Flyers : IsSource(g) /\ rows'[g] = None => g = f
      BY <3>1, <3>2, NoneAssumption DEF IsSource, Family, CopiesOf
    <3>4. \A g, h \in Flyers : IsSource(g) /\ rows'[g] = None /\ h \in CopiesOf(g) => rows'[h] = None
      BY <3>2, <3>3 DEF Family
    <3>5. \A g \in Flyers : IsSource(g) /\ g \notin doomed => rows'[g] # None
      BY <3>1, <3>3
    <3> QED BY <1>k, <2>1, <2>2, <3>2, <3>4, <3>5
  <2> QED BY <1>1, <2>3, <2>4, <2>5 DEF SaveFlyerPreview, Stop
<1>2. ASSUME NEW f \in Flyers,
             \/ EnsureFlyerPreview(f) \/ Expire(f) \/ Renew(f)
             \/ \E want \in (SUBSET Markets) \ {{}} : UpdateFlyerTargets(f, want)
      PROVE  FamilyInv' /\ SourcesKept' /\ InsertsKept' /\ SweepInv'
  <2>1. Trimmed /\ \A g \in Flyers : IsSource(g) => rows'[g] # None
    BY <1>t, <1>2, TrimSteps DEF IsSource
  <2>2. UNCHANGED <<objects, asked, sweep, doomed, calls>>
    BY <1>2 DEF EnsureFlyerPreview, Expire, Renew, UpdateFlyerTargets
  <2> QED BY <1>n, <2>1, <2>2
<1>3. CASE UNCHANGED <<rows, objects, asked, sweep, doomed, calls>>
  BY <1>n, <1>u, <1>3
<1> QED BY <1>1, <1>2, <1>3 DEF Purchase, UploadDraftOfferImage, vars

\* Who deletes a flyer dooms it, and takes no file but that of its row.
LEMMA DeletionKept ==
  ASSUME KeptInv, OnceEach, NEW c \in Handlers, NEW f \in Flyers, DeleteFlyerObjects(c, f)
  PROVE  FamilyInv' /\ SourcesKept' /\ InsertsKept' /\ SweepInv'
<1>t. FileTypes /\ FamilyInv /\ SourcesKept /\ InsertsKept /\ SweepInv
  BY DEF KeptInv, FileInv
<1>1. /\ UNCHANGED <<rows, asked, sweep>> /\ doomed' = doomed \union {f} /\ IsSource(f)
      /\ \A p \in Paths \ {rows[f].path} : objects'[p] = objects[p]
      /\ calls'[c].step = "delete" /\ calls'[c].flyer = f
      /\ \A d \in Handlers \ {c} : calls'[d] = calls[d]
  <2>1. /\ UNCHANGED <<rows, asked, sweep>> /\ doomed' = doomed \union {f}
        /\ CopiesDeleted \/ IsSource(f)
        /\ objects' \in {objects, [objects EXCEPT ![rows[f].path] = None]}
        /\ calls' = [calls EXCEPT ![c] = calls'[c]]
        /\ calls'[c].step = "delete" /\ calls'[c].flyer = f
    BY <1>t, DeleteSteps
  <2> QED BY <1>t, <2>1 DEF OnceEach, FileTypes
<1>2. FamilyInv'
  BY <1>t, <1>1 DEF FamilyInv, IsSource
<1>3. SourcesKept'
  <2>1. ASSUME NEW g \in Flyers, IsSource(g), g # f
        PROVE  rows[g].path \in Paths \ {rows[f].path}
    BY <1>t, <1>1, <2>1 DEF FamilyInv, FileTypes, IsSource, Row
  <2>2. ASSUME NEW g \in Flyers, IsSource(g)
        PROVE  g \in doomed' \/ objects'[rows[g].path] = rows[g].content
    BY <1>t, <1>1, <2>1, <2>2 DEF SourcesKept
  <2> QED BY <1>t, <1>1, <2>2 DEF SourcesKept, IsSource
<1>4. InsertsKept'
  <2>1. ASSUME NEW d \in Handlers, calls'[d].step = "insert"
        PROVE  /\ calls'[d] = calls[d] /\ calls[d].path \in Paths \ {rows[f].path}
    BY <1>t, <1>1, <2>1 DEF InsertsKept, FileTypes
  <2> QED BY <1>t, <1>1, <2>1 DEF InsertsKept, IsSource
<1>5. Carried
  <2>1. \A d \in Handlers : calls'[d].step = "insert" => calls'[d] = calls[d]
    BY <1>1
  <2> QED BY <1>1, <2>1 DEF Carried, Alone, AloneAfter, Vacant, VacantAfter, Same, SameAfter
<1> QED BY <1>t, <1>1, <1>2, <1>3, <1>4, <1>5, SweepSame

\* The cleanup takes no file but those that are nobody's.
LEMMA SweepKept ==
  ASSUME KeptInv,
         \/ StartCleanup \/ EndCleanup \/ (\E one \in sweep.todo : FlyerFamily(one))
         \/ DeleteExpiredRow \/ RemoveUnsharedImages \/ RemoveFlyerObjects \/ StopCleanup
  PROVE  FamilyInv' /\ SourcesKept' /\ InsertsKept' /\ SweepInv'
<1>t. FileTypes /\ FamilyInv /\ SourcesKept /\ InsertsKept /\ SweepInv
  BY DEF KeptInv, FileInv
\* Reading changes nothing.
<1>u. ASSUME UNCHANGED <<rows, objects, asked, calls, doomed>>
      PROVE  /\ FamilyInv' /\ SourcesKept' /\ InsertsKept'
             /\ \A p \in Paths, f \in Flyers :
                  /\ Alone(p, f) => AloneAfter(p, f)
                  /\ Same(p, f) => SameAfter(p, f)
                  /\ Vacant(p) => VacantAfter(p)
  <2>1. FamilyInv' /\ SourcesKept' /\ InsertsKept'
    BY <1>t, <1>u DEF FamilyInv, SourcesKept, InsertsKept, IsSource
  <2>2. ASSUME NEW p \in Paths, NEW f \in Flyers
        PROVE  /\ Alone(p, f) => AloneAfter(p, f)
               /\ Same(p, f) => SameAfter(p, f)
               /\ Vacant(p) => VacantAfter(p)
    BY <1>u DEF Alone, AloneAfter, Same, SameAfter, Vacant, VacantAfter
  <2> QED BY <2>1, <2>2
\* The cleanup is as it should be when what is true after the step says so.
<1>s. ASSUME sweep' = [step |-> sweep'.step, todo |-> sweep'.todo, flyer |-> sweep'.flyer,
                       paths |-> sweep'.paths, previews |-> sweep'.previews, pics |-> sweep'.pics],
             sweep'.todo \subseteq Found, sweep'.paths \subseteq Paths,
             \A one \in sweep'.todo : AloneAfter(one.path, one.flyer) /\ SameAfter(one.path, one.flyer),
             \A one, two \in sweep'.todo : one.flyer = two.flyer => one = two,
             sweep'.step = "row" => /\ sweep'.flyer \in Flyers
                                    /\ \A p \in sweep'.paths : AloneAfter(p, sweep'.flyer)
                                    /\ \A one \in sweep'.todo : one.flyer # sweep'.flyer,
             sweep'.step \in {"images", "objects"} => \A p \in sweep'.paths : VacantAfter(p)
      PROVE  SweepInv'
  <2>1. \A one \in sweep'.todo : Alone(one.path, one.flyer)' /\ Same(one.path, one.flyer)'
    BY <1>s DEF Alone, AloneAfter, Same, SameAfter
  <2>2. sweep'.step = "row" => \A p \in sweep'.paths : Alone(p, sweep.flyer)'
    BY <1>s DEF Alone, AloneAfter
  <2>3. sweep'.step \in {"images", "objects"} => \A p \in sweep'.paths : Vacant(p)'
    BY <1>s DEF Vacant, VacantAfter
  <2> QED BY <1>s, <2>1, <2>2, <2>3 DEF SweepInv
<1>p. \A one \in sweep.todo : one \in Found /\ one.path \in Paths /\ one.flyer \in Flyers
  BY <1>t DEF SweepInv, Found
<1>a. /\ sweep = [step |-> sweep.step, todo |-> sweep.todo, flyer |-> sweep.flyer,
                  paths |-> sweep.paths, previews |-> sweep.previews, pics |-> sweep.pics]
      /\ sweep.todo \in SUBSET Found /\ sweep.paths \in SUBSET Paths
      /\ \A one \in sweep.todo : Alone(one.path, one.flyer) /\ Same(one.path, one.flyer)
      /\ \A one, two \in sweep.todo : one.flyer = two.flyer => one = two
  BY <1>t DEF SweepInv
\* What a cleanup in progress goes on with.
<1>g. ASSUME NEW step \in {"next", "images", "objects"},
             sweep' = [step |-> step, todo |-> sweep.todo, flyer |-> sweep.flyer, paths |-> sweep.paths,
                       previews |-> sweep.previews, pics |-> sweep.pics],
             \A one \in sweep.todo : AloneAfter(one.path, one.flyer) /\ SameAfter(one.path, one.flyer),
             step # "next" => \A p \in sweep.paths : VacantAfter(p)
      PROVE  SweepInv'
  <2>1. /\ sweep'.step = step /\ sweep'.todo = sweep.todo /\ sweep'.flyer = sweep.flyer
        /\ sweep'.paths = sweep.paths /\ sweep'.previews = sweep.previews /\ sweep'.pics = sweep.pics
    BY <1>g
  <2> QED BY <1>a, <1>g, <1>s, <2>1
<1>1. CASE EndCleanup \/ StopCleanup
  <2>1. sweep' = [step |-> "asleep", todo |-> {}, flyer |-> None, paths |-> {},
                  previews |-> {}, pics |-> {}]
    BY <1>1 DEF EndCleanup, StopCleanup, Asleep
  <2>2. sweep'.step = "asleep" /\ sweep'.todo = {} /\ sweep'.paths = {}
    BY <2>1
  <2>3. sweep' = [step |-> sweep'.step, todo |-> sweep'.todo, flyer |-> sweep'.flyer,
                  paths |-> sweep'.paths, previews |-> sweep'.previews, pics |-> sweep'.pics]
    BY <2>1
  <2>4. SweepInv'
    BY <1>s, <2>2, <2>3
  <2> QED BY <1>1, <1>u, <2>4 DEF EndCleanup, StopCleanup
<1>2. CASE StartCleanup
  <2>1. UNCHANGED <<rows, objects, asked, calls, doomed>>
    BY <1>2 DEF StartCleanup
  <2>2. sweep' = [step |-> "next", todo |-> ExpiredSourceFlyers, flyer |-> None, paths |-> {},
                  previews |-> {}, pics |-> {}]
    BY <1>2 DEF StartCleanup, Asleep
  <2>3. ASSUME NEW one \in ExpiredSourceFlyers
        PROVE  /\ one \in Found /\ one.flyer \in Flyers /\ IsSource(one.flyer)
               /\ one.path = rows[one.flyer].path
               /\ one = [flyer |-> one.flyer, path |-> rows[one.flyer].path, preview |-> rows[one.flyer].preview]
    BY <1>t, <2>3 DEF ExpiredSourceFlyers, IsSource, FileTypes, Row, Found
  <2>4. ASSUME NEW one \in ExpiredSourceFlyers
        PROVE  Alone(one.path, one.flyer) /\ Same(one.path, one.flyer)
    <3>1. one.flyer \in Flyers /\ IsSource(one.flyer) /\ one.path = rows[one.flyer].path
      BY <2>3
    <3>2. asked[one.path] \notin {None, 0}
      BY <3>1 DEF KeptInv, FileInv, Stored, IsSource
    <3> QED BY <1>t, <3>1, <3>2 DEF Alone, Same, FamilyInv, InsertsKept, IsSource
  <2>5. \A one \in ExpiredSourceFlyers : AloneAfter(one.path, one.flyer) /\ SameAfter(one.path, one.flyer)
    BY <1>u, <2>1, <2>3, <2>4 DEF Found
  <2>6. ExpiredSourceFlyers \in SUBSET Found
    BY <2>3
  <2>7. \A one, two \in ExpiredSourceFlyers : one.flyer = two.flyer => one = two
    BY <2>3
  <2> HIDE DEF ExpiredSourceFlyers
  <2>8. SweepInv'
    <3>1. sweep'.step = "next" /\ sweep'.todo = ExpiredSourceFlyers /\ sweep'.paths = {}
      BY <2>2
    <3>2. sweep' = [step |-> sweep'.step, todo |-> sweep'.todo, flyer |-> sweep'.flyer,
                    paths |-> sweep'.paths, previews |-> sweep'.previews, pics |-> sweep'.pics]
      BY <2>2
    <3> QED BY <1>s, <2>5, <2>6, <2>7, <3>1, <3>2
  <2> QED BY <1>u, <2>1, <2>8
<1>3. ASSUME NEW one \in sweep.todo, FlyerFamily(one)
      PROVE  FamilyInv' /\ SourcesKept' /\ InsertsKept' /\ SweepInv'
  <2> DEFINE f == one.flyer
             todo == sweep.todo \ {one}
             refs == sweep'.previews
             pics == sweep'.pics
  <2>1. UNCHANGED <<rows, objects, asked, calls, doomed>>
    BY <1>3 DEF FlyerFamily
  <2>2. f \in Flyers /\ one.path \in Paths /\ Alone(one.path, f) /\ Same(one.path, f)
    BY <1>a, <1>p
  \* The copies have the file of their source; without a row there are none.
  <2>3. {one.path} \union {rows[g].path : g \in CopiesOf(f)} = {one.path}
    <3>1. ASSUME NEW g \in CopiesOf(f) PROVE rows[g].path = one.path
      BY <1>t, <2>2, NoneAssumption DEF CopiesOf, FamilyInv, IsSource, Same
    <3> QED BY <3>1
  <2>4. sweep' = [step |-> "row", todo |-> todo, flyer |-> f, paths |-> {one.path},
                  previews |-> refs, pics |-> pics]
    <3> DEFINE ps == ({one.preview} \union {rows[g].preview : g \in CopiesOf(f)}) \ {None}
               xs == UNION {images[g] : g \in Family(f)}
    <3>1. sweep' = [sweep EXCEPT !.step = "row", !.todo = sweep.todo \ {one}, !.flyer = f,
                      !.paths = {one.path}, !.previews = ps, !.pics = xs]
      BY <1>3, <2>3 DEF FlyerFamily
    <3> HIDE DEF ps, xs
    <3>2. sweep' = [step |-> "row", todo |-> todo, flyer |-> f, paths |-> {one.path},
                    previews |-> ps, pics |-> xs]
      BY <1>a, <3>1
    <3> QED BY <3>2
  <2>5. \A two \in todo : two.flyer # f
    BY <1>a
  <2>6. \A two \in todo : AloneAfter(two.path, two.flyer) /\ SameAfter(two.path, two.flyer)
    BY <1>a, <1>p, <1>u, <2>1
  <2>7. AloneAfter(one.path, f)
    BY <1>u, <2>1, <2>2
  <2>8. todo \in SUBSET Found /\ {one.path} \in SUBSET Paths /\ \A a, b \in todo : a.flyer = b.flyer => a = b
    BY <1>a, <2>2
  <2> HIDE DEF f, todo, refs, pics
  <2>9. SweepInv'
    <3>1. sweep'.step = "row" /\ sweep'.todo = todo /\ sweep'.flyer = f /\ sweep'.paths = {one.path}
      BY <2>4
    <3>2. sweep' = [step |-> sweep'.step, todo |-> sweep'.todo, flyer |-> sweep'.flyer,
                    paths |-> sweep'.paths, previews |-> sweep'.previews, pics |-> sweep'.pics]
      BY <2>4, <3>1 DEF refs, pics
    <3> QED BY <1>s, <2>2, <2>5, <2>6, <2>7, <2>8, <3>1, <3>2
  <2> QED BY <1>u, <2>1, <2>9
<1>4. CASE RemoveUnsharedImages
  <2>1. UNCHANGED <<rows, objects, asked, calls, doomed>> /\ sweep.step = "images"
    BY <1>4 DEF RemoveUnsharedImages
  <2>2. sweep' = [step |-> "objects", todo |-> sweep.todo, flyer |-> sweep.flyer, paths |-> sweep.paths,
                  previews |-> sweep.previews, pics |-> sweep.pics]
    BY <1>4, <1>a DEF RemoveUnsharedImages
  <2>3. \A one \in sweep.todo : AloneAfter(one.path, one.flyer) /\ SameAfter(one.path, one.flyer)
    BY <1>a, <1>p, <1>u, <2>1
  <2>4. \A p \in sweep.paths : VacantAfter(p)
    <3>1. \A p \in sweep.paths : Vacant(p)
      BY <1>t, <2>1 DEF SweepInv
    <3> QED BY <2>1, <3>1 DEF Vacant, VacantAfter
  <2> QED BY <1>g, <1>u, <2>1, <2>2, <2>3, <2>4
<1>5. CASE DeleteExpiredRow /\ rows' = rows /\ sweep' = [sweep EXCEPT !.step = "next"]
  <2>1. UNCHANGED <<rows, objects, asked, calls, doomed>>
    BY <1>5 DEF DeleteExpiredRow
  <2>2. sweep' = [step |-> "next", todo |-> sweep.todo, flyer |-> sweep.flyer, paths |-> sweep.paths,
                  previews |-> sweep.previews, pics |-> sweep.pics]
    BY <1>5, <1>a
  <2>3. \A one \in sweep.todo : AloneAfter(one.path, one.flyer) /\ SameAfter(one.path, one.flyer)
    BY <1>a, <1>p, <1>u, <2>1
  <2> QED BY <1>g, <1>u, <2>1, <2>2, <2>3
<1>6. CASE DeleteExpiredRow /\ Cascade(sweep.flyer) /\ sweep' = [sweep EXCEPT !.step = "images"]
  <2> DEFINE f == sweep.flyer
  <2>1. UNCHANGED <<objects, asked, calls, doomed>> /\ sweep.step = "row" /\ Cascade(f)
    BY <1>6 DEF DeleteExpiredRow
  <2>2. sweep' = [step |-> "images", todo |-> sweep.todo, flyer |-> f, paths |-> sweep.paths,
                  previews |-> sweep.previews, pics |-> sweep.pics]
    BY <1>6, <1>a
  <2>3. /\ f \in Flyers /\ \A p \in sweep.paths : Alone(p, f)
        /\ \A one \in sweep.todo : one.flyer # f
    BY <1>t, <2>1 DEF SweepInv
  <2> HIDE DEF f
  <2>4. Trimmed /\ \A g \in Flyers : IF g \in Family(f) THEN rows'[g] = None ELSE rows'[g] = rows[g]
    BY <1>t, <2>1, <2>3, TrimFamily
  <2>5. \A g \in Flyers : rows[g] # None /\ rows[g].source = None /\ g # f => rows'[g] = rows[g]
    BY <2>3, <2>4, NoneAssumption DEF Family, CopiesOf
  <2>6. \A g, h \in Flyers : IsSource(g) /\ rows'[g] = None /\ h \in CopiesOf(g) => rows'[h] = None
    <3>1. \A g \in Flyers : IsSource(g) /\ rows'[g] = None => g = f
      BY <2>5 DEF IsSource
    <3> QED BY <2>4, <3>1 DEF Family
  <2>7. /\ FamilyInv' /\ SourcesKept' /\ InsertsKept'
        /\ \A p \in Paths, g \in Flyers : Alone(p, g) => AloneAfter(p, g)
        /\ \A p \in Paths, g \in Flyers :
             Same(p, g) /\ (rows[g] # None /\ g \notin doomed => rows'[g] # None) => SameAfter(p, g)
    <3>1. doomed \subseteq doomed' /\ \A c \in Handlers : calls'[c] = calls[c]
      BY <2>1
    <3> QED BY <1>t, <2>1, <2>4, <2>6, <3>1, TrimKept
  <2>8. ASSUME NEW one \in sweep.todo
        PROVE  AloneAfter(one.path, one.flyer) /\ SameAfter(one.path, one.flyer)
    <3>1. one.path \in Paths /\ one.flyer \in Flyers /\ one.flyer # f
      BY <1>p, <2>3
    <3>2. Alone(one.path, one.flyer) /\ Same(one.path, one.flyer)
      BY <1>a
    <3>3. rows[one.flyer] # None => rows'[one.flyer] # None
      BY <2>5, <3>1, <3>2 DEF Same
    <3> QED BY <2>7, <3>1, <3>2, <3>3
  \* The row and its copies were all that referred to the files.
  <2>9. ASSUME NEW p \in sweep.paths PROVE VacantAfter(p)
    <3>1. Alone(p, f)
      BY <2>3
    <3>2. ASSUME NEW g \in Flyers, rows'[g] # None, rows'[g].path = p PROVE FALSE
      <4>1. rows'[g] = rows[g] /\ g \notin Family(f)
        BY <2>4, <3>2
      <4>2. CASE rows[g].source = None
        BY <3>1, <3>2, <4>1, <4>2 DEF Alone, Family
      <4>3. CASE rows[g].source # None
        <5> DEFINE s == rows[g].source
        <5>1. s \in Flyers
          BY <1>t, <3>2, <4>1, <4>3 DEF FileTypes, Row
        <5>2. IsSource(s) /\ rows[s].path = p
          BY <1>t, <3>2, <4>1, <4>3 DEF FamilyInv
        <5>3. s = f
          BY <3>1, <5>1, <5>2 DEF Alone, IsSource
        <5>4. g \in CopiesOf(f)
          BY <3>2, <4>1, <5>3 DEF CopiesOf
        <5> QED BY <4>1, <5>4 DEF Family
      <4> QED BY <4>2, <4>3
    <3> QED BY <2>1, <3>1, <3>2 DEF Alone, VacantAfter
  <2> QED BY <1>g, <2>2, <2>7, <2>8, <2>9 DEF f
<1>7. CASE RemoveFlyerObjects
  <2>1. /\ UNCHANGED <<rows, asked, calls, doomed>> /\ sweep.step = "objects"
        /\ \A p \in Paths \ sweep.paths : objects'[p] = objects[p]
    BY <1>7 DEF RemoveFlyerObjects
  <2>2. sweep' = [step |-> "next", todo |-> sweep.todo, flyer |-> sweep.flyer, paths |-> sweep.paths,
                  previews |-> sweep.previews, pics |-> sweep.pics]
    BY <1>7, <1>a DEF RemoveFlyerObjects
  <2>3. \A p \in sweep.paths : Vacant(p)
    BY <1>t, <2>1 DEF SweepInv
  <2>4. FamilyInv'
    BY <1>t, <2>1 DEF FamilyInv, IsSource
  <2>5. SourcesKept'
    <3>1. ASSUME NEW g \in Flyers, IsSource(g) PROVE objects'[rows[g].path] = objects[rows[g].path]
      BY <1>t, <2>1, <2>3, <3>1 DEF Vacant, FileTypes, IsSource, Row
    <3> QED BY <1>t, <2>1, <3>1 DEF SourcesKept, IsSource
  <2>6. InsertsKept'
    <3>1. ASSUME NEW c \in Handlers, calls[c].step = "insert"
          PROVE  objects'[calls[c].path] = objects[calls[c].path]
      BY <1>t, <2>1, <2>3, <3>1 DEF Vacant, FileTypes
    <3> QED BY <1>t, <2>1, <3>1 DEF InsertsKept, IsSource
  <2>7. \A one \in sweep.todo : AloneAfter(one.path, one.flyer) /\ SameAfter(one.path, one.flyer)
    BY <1>a, <2>1 DEF Alone, AloneAfter, Same, SameAfter
  <2> QED BY <1>g, <2>2, <2>4, <2>5, <2>6, <2>7
<1> QED
  BY <1>1, <1>2, <1>3, <1>4, <1>5, <1>6, <1>7 DEF DeleteExpiredRow

\* Before anything is uploaded there is nothing to keep.
LEMMA KeptInit == Init => KeptInv
<1> SUFFICES ASSUME Init PROVE KeptInv
  OBVIOUS
<1>1. FileInv
  BY FileInit
<1>2. Idle.step = "idle"
  BY DEF Idle
<1>3. SweepInv
  BY DEF Init, SweepInv, Asleep
<1> QED BY <1>1, <1>2, <1>3 DEF KeptInv, Init, FamilyInv, SourcesKept, InsertsKept, IsSource

LEMMA KeptNext ==
  ASSUME KeptInv, OnceEach, Next \/ UNCHANGED vars
  PROVE  KeptInv'
<1>1. FileInv'
  BY FileNext DEF KeptInv
<1>2. FamilyInv' /\ SourcesKept' /\ InsertsKept' /\ SweepInv'
  BY UploadKept, NewKept, EditKept, DeletionKept, SweepKept DEF Next
<1> QED BY <1>1, <1>2 DEF KeptInv

\* Where uploads are completed once, and published copies deleted with their source
\* only, no interleaving of handlers and cleanup, on however many servers, takes
\* the file of a flyer whose deletion nobody asked for.
THEOREM FilesAreKept == OnceEach => (Spec => []FileKept)
<1>1. KeptInv => FileKept
  <2> SUFFICES ASSUME KeptInv, NEW f \in Flyers, rows[f] # None
               PROVE  \/ objects[rows[f].path] = rows[f].content
                      \/ f \in doomed \/ rows[f].source \in doomed
    BY DEF FileKept
  <2>1. CASE rows[f].source = None
    BY <2>1 DEF KeptInv, SourcesKept, IsSource
  <2>2. CASE rows[f].source # None
    <3> DEFINE s == rows[f].source
    <3>1. /\ s \in Flyers /\ IsSource(s)
          /\ rows[s].path = rows[f].path /\ rows[s].content = rows[f].content
      BY <2>2 DEF KeptInv, FileInv, FileTypes, FamilyInv, Row
    <3> QED BY <3>1 DEF KeptInv, SourcesKept
  <2> QED BY <2>1, <2>2
<1> SUFFICES ASSUME OnceEach PROVE Spec => []FileKept
  OBVIOUS
<1>2. KeptInv /\ [Next]_vars => KeptInv'
  BY KeptNext
<1> QED BY <1>1, <1>2, KeptInit, PTL DEF Spec

-----------------------------------------------------------------------------
(* No market gets a document from two source flyers.                        *)

\* No source flyer with document h but f has markets of T.
Apart(h, T, f) ==
  \A g \in Flyers : IsSource(g) /\ g # f /\ rows[g].content = h => T \intersect rows[g].targets = {}
ApartAfter(h, T, f) ==
  \A g \in Flyers : rows'[g] # None /\ rows'[g].source = None /\ g # f /\ rows'[g].content = h
    => T \intersect rows'[g].targets = {}

\* The markets a handler is about to write have the document from nobody else.
CallApart(c) ==
  LET f == calls[c].flyer IN
  /\ calls[c].step = "insert" => Apart(calls[c].doc, calls[c].want, None)
  /\ calls[c].step = "targets" /\ rows[f] # None =>
       IsSource(f) /\ rows[f].content = calls[c].doc /\ Apart(calls[c].doc, calls[c].want, f)

ApartInv ==
  /\ FileInv
  /\ OneFlyerPerMarket
  /\ \A c \in Handlers : CallApart(c)
  /\ \A c, d \in Handlers : calls[c] # Idle /\ calls[d] # Idle => c = d

\* Source flyers have no other document and no other markets than before, or have none.
Shrunk ==
  \A g \in Flyers : rows'[g] # None /\ rows'[g].source = None =>
    \/ rows'[g].targets = {}
    \/ IsSource(g) /\ rows'[g].content = rows[g].content /\ rows'[g].targets = rows[g].targets

\* Rows go, or keep their documents and markets.
Kept ==
  \A g \in Flyers : rows'[g] # None =>
    rows[g] # None /\ SameFile(rows'[g], rows[g]) /\ rows'[g].targets = rows[g].targets

\* A handler that may start finds none under way.
LEMMA AllIdle ==
  ASSUME OneServer, Busy < Servers
  PROVE  \A c \in Handlers : calls[c] = Idle
<1>1. {c \in Handlers : calls[c] # Idle} \in SUBSET Handlers
  OBVIOUS
<1>2. {c \in Handlers : calls[c] # Idle} = {}
  BY <1>1, NobodyRuns DEF Busy
<1> QED BY <1>2

LEMMA IdleApart ==
  ASSUME NEW c \in Handlers, calls[c].step \notin {"insert", "targets"}
  PROVE  CallApart(c)
  BY DEF CallApart

LEMMA ShrunkApart ==
  ASSUME Shrunk
  PROVE  /\ OneFlyerPerMarket => OneFlyerPerMarket'
         /\ \A h, T, f : Apart(h, T, f) => ApartAfter(h, T, f)
<1>1. OneFlyerPerMarket => OneFlyerPerMarket'
  BY DEF Shrunk, OneFlyerPerMarket, IsSource
<1>2. ASSUME NEW h, NEW T, NEW f, Apart(h, T, f) PROVE ApartAfter(h, T, f)
  BY <1>2 DEF Shrunk, Apart, ApartAfter, IsSource
<1> QED BY <1>1, <1>2

LEMMA KeptShrunk == ASSUME Kept PROVE Shrunk
  BY DEF Kept, Shrunk, SameFile, IsSource

\* The steps that write no markets.
LEMMA KeptSteps ==
  ASSUME FileTypes
  PROVE  /\ \A c \in Handlers : LinkFlyerPreview(c) => Kept
         /\ \A f \in Flyers : EnsureFlyerPreview(f) \/ Expire(f) \/ Renew(f) => Kept
         /\ \A f : Cascade(f) => Kept
<1>t. rows \in [Flyers -> Row \union {None}]
  BY DEF FileTypes
<1>1. ASSUME NEW f \in Flyers, rows[f] # None, rows' = [rows EXCEPT ![f].preview = f]
      PROVE  Kept
  <2> DEFINE r == [rows[f] EXCEPT !.preview = f]
  <2>1. SameFile(r, rows[f]) /\ r.targets = rows[f].targets
    BY <1>t, <1>1 DEF SameFile, Row
  <2>2. rows' = [rows EXCEPT ![f] = r]
    BY <1>1
  <2> HIDE DEF r
  <2> QED BY <1>t, <1>1, <2>1, <2>2 DEF Kept, SameFile
<1>2. CASE rows' = rows
  BY <1>2 DEF Kept, SameFile
<1>3. ASSUME NEW c \in Handlers, LinkFlyerPreview(c) PROVE Kept
  <2>1. calls[c].flyer \in Flyers
    BY <1>3 DEF LinkFlyerPreview, FileTypes
  <2> QED BY <1>1, <1>2, <1>3, <2>1 DEF LinkFlyerPreview
<1>4. ASSUME NEW f \in Flyers, NEW b \in BOOLEAN, IsSource(f),
             rows' = [g \in Flyers |->
               IF g \in Family(f) THEN [rows[g] EXCEPT !.expired = b] ELSE rows[g]]
      PROVE  Kept
  <2>1. ASSUME NEW g \in Flyers, rows'[g] # None
        PROVE  rows[g] # None /\ SameFile(rows'[g], rows[g]) /\ rows'[g].targets = rows[g].targets
    <3>1. CASE g \in Family(f)
      <4>1. rows[g] # None /\ rows[g] \in Row
        BY <1>4, <1>t, <3>1 DEF Family, CopiesOf, IsSource
      <4>2. rows'[g] = [rows[g] EXCEPT !.expired = b]
        BY <1>4, <3>1
      <4> QED BY <4>1, <4>2 DEF SameFile, Row
    <3>2. CASE g \notin Family(f)
      BY <1>4, <2>1, <3>2 DEF SameFile
    <3> QED BY <3>1, <3>2
  <2> QED BY <2>1 DEF Kept
<1>5. ASSUME NEW f \in Flyers, EnsureFlyerPreview(f) \/ Expire(f) \/ Renew(f) PROVE Kept
  BY <1>1, <1>4, <1>5 DEF EnsureFlyerPreview, Expire, Renew
<1>6. ASSUME NEW f, Cascade(f) PROVE Kept
  BY <1>6 DEF Cascade, Kept, SameFile
<1> QED BY <1>3, <1>5, <1>6

\* Handlers that go on as they are, and rows that are written without other markets.
LEMMA KeptApart ==
  ASSUME ApartInv, Kept, FileInv', calls' = calls
  PROVE  ApartInv'
<1>1. /\ OneFlyerPerMarket'
      /\ \A h, T, f : Apart(h, T, f) => ApartAfter(h, T, f)
  BY KeptShrunk, ShrunkApart DEF ApartInv
<1>2. ASSUME NEW c \in Handlers PROVE CallApart(c)'
  <2> DEFINE f == calls[c].flyer
             h == calls[c].doc
             T == calls[c].want
  <2>1. CallApart(c) /\ calls'[c] = calls[c]
    BY <1>2 DEF ApartInv
  <2>2. calls[c].step = "insert" => ApartAfter(h, T, None)
    BY <1>1, <2>1 DEF CallApart
  <2>3. ASSUME calls[c].step = "targets", rows'[f] # None
        PROVE  rows'[f].source = None /\ rows'[f].content = h /\ ApartAfter(h, T, f)
    <3>1. f \in Flyers
      BY <2>3 DEF ApartInv, FileInv, FileTypes
    <3>2. rows[f] # None /\ SameFile(rows'[f], rows[f])
      BY <2>3, <3>1 DEF Kept
    <3>3. IsSource(f) /\ rows[f].content = h /\ Apart(h, T, f)
      BY <2>1, <2>3, <3>2 DEF CallApart
    <3> QED BY <1>1, <3>2, <3>3 DEF IsSource, SameFile
  <2> QED BY <2>1, <2>2, <2>3 DEF CallApart, Apart, ApartAfter, IsSource
<1> QED BY <1>1, <1>2 DEF ApartInv

\* The handler that runs goes on, and has markets to write no more.
LEMMA AloneApart ==
  ASSUME ApartInv, NEW c \in Handlers, calls[c] # Idle, FileInv', OneFlyerPerMarket',
         \A d \in Handlers \ {c} : calls'[d] = calls[d],
         calls'[c].step \notin {"insert", "targets"}
  PROVE  ApartInv'
<1>1. \A d \in Handlers \ {c} : calls'[d] = Idle /\ Idle.step = "idle"
  BY DEF ApartInv, Idle
<1>2. \A d \in Handlers : calls'[d].step \notin {"insert", "targets"}
  BY <1>1
<1>3. \A d \in Handlers : CallApart(d)'
  BY <1>2 DEF CallApart
<1> QED BY <1>1, <1>3 DEF ApartInv

\* A completion takes the markets that have the document from nobody.
LEMMA CompleteApart ==
  ASSUME ApartInv, OneServer, FileInv',
         NEW c \in Handlers, NEW p \in Paths, NEW want \in (SUBSET Markets) \ {{}},
         CompleteFlyerUpload(c, p, want)
  PROVE  ApartInv'
<1>t. FileTypes
  BY DEF ApartInv, FileInv
<1>1. \A d \in Handlers : calls[d] = Idle
  BY AllIdle DEF CompleteFlyerUpload
<1>2. rows' = rows /\ Kept
  <2>1. rows' = rows
    BY <1>t, CompleteSteps
  <2> QED BY <2>1 DEF Kept, SameFile
<1>3. CASE calls' = calls
  BY <1>2, <1>3, KeptApart
<1>4. CASE /\ calls' = [calls EXCEPT ![c] = calls'[c]]
           /\ calls'[c].step = "insert" /\ calls'[c].doc = objects[p]
           /\ calls'[c].want = want \ Conflicts(objects[p], want, None, FALSE)
  <2>1. \A d \in Handlers \ {c} : calls'[d] = Idle /\ Idle.step = "idle"
    BY <1>t, <1>1, <1>4 DEF FileTypes, Idle
  <2>2. Apart(objects[p], want \ Conflicts(objects[p], want, None, FALSE), None)
    BY DEF Apart, Conflicts, IsSource
  <2>3. ASSUME NEW d \in Handlers PROVE CallApart(d)'
    <3>1. CASE d = c
      BY <1>2, <1>4, <2>2, <3>1 DEF CallApart, Apart, IsSource
    <3>2. CASE d # c
      BY <2>1, <3>2 DEF CallApart
    <3> QED BY <3>1, <3>2
  <2>4. OneFlyerPerMarket'
    BY <1>2 DEF ApartInv, OneFlyerPerMarket, IsSource
  <2> QED BY <2>1, <2>3, <2>4 DEF ApartInv
<1> QED BY <1>t, <1>3, <1>4, CompleteSteps

\* A row is inserted without markets, and by the one handler that runs.
LEMMA InsertApart ==
  ASSUME ApartInv, FileInv', NEW c \in Handlers, InsertSourceFlyer(c)
  PROVE  ApartInv'
<1>t. FileTypes
  BY DEF ApartInv, FileInv
<1>1. PICK g \in Free :
        /\ rows'[g] # None /\ rows'[g].source = None /\ rows'[g].targets = {}
        /\ rows'[g].path = calls[c].path /\ rows'[g].content = calls[c].doc
        /\ \A f \in Flyers \ {g} : rows'[f] = rows[f]
        /\ calls'[c].step = "targets" /\ calls'[c].flyer = g
        /\ calls'[c].want = calls[c].want /\ calls'[c].doc = calls[c].doc
        /\ calls' = [calls EXCEPT ![c] = calls'[c]]
  BY <1>t, InsertSteps
<1>2. calls[c].step = "insert" /\ calls[c] # Idle
  BY DEF InsertSourceFlyer, Idle
<1>3. \A d \in Handlers \ {c} : calls'[d] = Idle /\ Idle.step = "idle"
  BY <1>t, <1>1, <1>2 DEF ApartInv, FileTypes, Idle
<1>4. Shrunk
  BY <1>1 DEF Shrunk, IsSource
<1>5. OneFlyerPerMarket' /\ ApartAfter(calls[c].doc, calls[c].want, None)
  BY <1>2, <1>4, ShrunkApart DEF ApartInv, CallApart
<1>6. ASSUME NEW d \in Handlers PROVE CallApart(d)'
  <2>1. CASE d = c
    <3>1. ApartAfter(calls[c].doc, calls[c].want, g)
      BY <1>5, NoneAssumption DEF ApartAfter
    <3> QED BY <1>1, <2>1, <3>1 DEF CallApart, Apart, ApartAfter, IsSource
  <2>2. CASE d # c
    BY <1>3, <2>2 DEF CallApart
  <2> QED BY <2>1, <2>2
<1> QED BY <1>3, <1>5, <1>6 DEF ApartInv

\* A copy is no source flyer, and inserted when no handler runs.
LEMMA CopyApart ==
  ASSUME ApartInv, OneServer, FileInv', NEW f \in Flyers, NEW m \in Markets,
         UpsertPublishedTargetFlyer(f, m)
  PROVE  ApartInv'
<1>t. FileTypes
  BY DEF ApartInv, FileInv
<1>1. calls' = calls /\ f # None /\ \A d \in Handlers : calls[d] = Idle /\ Idle.step = "idle"
  BY AllIdle, NoneAssumption DEF UpsertPublishedTargetFlyer, Idle
<1>2. PICK g \in Free : rows'[g].source = f /\ \A h \in Flyers \ {g} : rows'[h] = rows[h]
  BY <1>t, CopySteps
<1>3. Shrunk
  BY <1>1, <1>2 DEF Shrunk, IsSource
<1>4. OneFlyerPerMarket'
  BY <1>3, ShrunkApart DEF ApartInv
<1>5. \A d \in Handlers : CallApart(d)'
  BY <1>1 DEF CallApart
<1> QED BY <1>1, <1>4, <1>5 DEF ApartInv

\* The markets of a flyer are changed to those that have the document from no
\* flyer but its copies, when no handler runs.
LEMMA UpdateApart ==
  ASSUME ApartInv, OneServer, FileInv', NEW f \in Flyers, NEW want \in (SUBSET Markets) \ {{}},
         UpdateFlyerTargets(f, want)
  PROVE  ApartInv'
<1> DEFINE A == want \ Conflicts(rows[f].content, want, f, FALSE)
<1>t. rows \in [Flyers -> Row \union {None}]
  BY DEF ApartInv, FileInv, FileTypes
<1>1. /\ calls' = calls /\ IsSource(f) /\ rows[f] \in Row
      /\ \A d \in Handlers : calls[d] = Idle /\ Idle.step = "idle"
  BY <1>t, AllIdle DEF UpdateFlyerTargets, Idle, IsSource
<1>2. \A g \in Flyers : IsSource(g) /\ g # f /\ rows[g].content = rows[f].content
        => A \intersect rows[g].targets = {}
  <2>1. \A g \in Flyers : IsSource(g) /\ g # f => g \notin Family(f)
    BY NoneAssumption DEF IsSource, Family, CopiesOf
  <2> QED BY <2>1 DEF Conflicts, IsSource
<1>3. /\ \A g \in Flyers \ {f} : rows'[g] \in {rows[g], None}
      /\ \/ rows'[f] = [rows[f] EXCEPT !.targets = {}]
         \/ rows'[f] = [rows[f] EXCEPT !.targets = A]
  BY DEF UpdateFlyerTargets
<1> HIDE DEF A
<1>4. rows'[f].content = rows[f].content /\ rows'[f].targets \in {{}, A}
  BY <1>1, <1>3 DEF Row
<1>5. ASSUME NEW g \in Flyers, NEW h \in Flyers, g # h, IsSource(g)', IsSource(h)',
             rows'[g].content = rows'[h].content
      PROVE  rows'[g].targets \intersect rows'[h].targets = {}
  <2>1. CASE g # f /\ h # f
    BY <1>3, <1>5, <2>1 DEF ApartInv, OneFlyerPerMarket, IsSource
  <2>2. CASE g = f
    BY <1>2, <1>3, <1>4, <1>5, <2>2 DEF IsSource
  <2>3. CASE h = f
    BY <1>2, <1>3, <1>4, <1>5, <2>3 DEF IsSource
  <2> QED BY <2>1, <2>2, <2>3
<1>6. OneFlyerPerMarket'
  BY <1>5 DEF OneFlyerPerMarket
<1>7. \A d \in Handlers : CallApart(d)'
  BY <1>1 DEF CallApart
<1> QED BY <1>1, <1>6, <1>7 DEF ApartInv

\* The markets of a new row are written as they were found free.
LEMMA TargetsApart ==
  ASSUME ApartInv, NEW c \in Handlers, InsertFlyerTargets(c)
  PROVE  OneFlyerPerMarket'
<1> DEFINE f == calls[c].flyer
           T == calls[c].want
<1>t. rows \in [Flyers -> Row \union {None}]
  BY DEF ApartInv, FileInv, FileTypes
<1>1. f \in Flyers /\ calls[c].step = "targets"
  BY DEF InsertFlyerTargets, ApartInv, FileInv, FileTypes
<1>2. CASE rows[f] = None
  BY <1>2 DEF InsertFlyerTargets, ApartInv, OneFlyerPerMarket, IsSource
<1>3. CASE rows[f] # None
  <2>1. IsSource(f) /\ Apart(rows[f].content, T, f)
    BY <1>1, <1>3 DEF ApartInv, CallApart
  <2>2. /\ \A g \in Flyers \ {f} : rows'[g] = rows[g]
        /\ rows'[f] = [rows[f] EXCEPT !.targets = T]
    BY <1>1, <1>3, <1>t DEF InsertFlyerTargets
  <2>3. rows'[f].content = rows[f].content /\ rows'[f].targets = T
    BY <1>1, <1>3, <1>t, <2>2 DEF Row
  <2> HIDE DEF f, T
  <2>4. ASSUME NEW g \in Flyers, NEW h \in Flyers, g # h, IsSource(g)', IsSource(h)',
               rows'[g].content = rows'[h].content
        PROVE  rows'[g].targets \intersect rows'[h].targets = {}
    <3>1. CASE g # f /\ h # f
      BY <2>2, <2>4, <3>1 DEF ApartInv, OneFlyerPerMarket, IsSource
    <3>2. CASE g = f
      BY <2>1, <2>2, <2>3, <2>4, <3>2 DEF Apart, IsSource
    <3>3. CASE h = f
      BY <2>1, <2>2, <2>3, <2>4, <3>3 DEF Apart, IsSource
    <3> QED BY <3>1, <3>2, <3>3
  <2> QED BY <2>4 DEF OneFlyerPerMarket
<1> QED BY <1>2, <1>3

\* The other steps of handlers.
LEMMA RunApart ==
  ASSUME ApartInv, FileInv', NEW c \in Handlers,
         \/ InsertFlyerTargets(c) \/ SaveFlyerPreview(c) \/ LinkFlyerPreview(c)
         \/ DeleteFlyerRow(c) \/ Stop(c)
  PROVE  ApartInv'
<1>t. FileTypes
  BY DEF ApartInv, FileInv
<1>1. /\ calls' = [calls EXCEPT ![c] = calls'[c]]
      /\ calls'[c] = Idle \/ calls'[c].step \in {"preview", "link"}
  BY <1>t, CallSteps
<1>2. \A d \in Handlers \ {c} : calls'[d] = calls[d]
  BY <1>t, <1>1 DEF FileTypes
<1>3. calls[c] # Idle
  BY DEF InsertFlyerTargets, SaveFlyerPreview, LinkFlyerPreview, DeleteFlyerRow, Stop, Idle
<1>4. calls'[c].step \notin {"insert", "targets"}
  BY <1>1 DEF Idle
<1>5. OneFlyerPerMarket'
  <2>1. CASE InsertFlyerTargets(c)
    BY <2>1, TargetsApart
  <2>2. CASE LinkFlyerPreview(c) \/ DeleteFlyerRow(c)
    <3>1. Kept
      BY <1>t, <2>2, KeptSteps DEF DeleteFlyerRow
    <3> QED BY <3>1, KeptShrunk, ShrunkApart DEF ApartInv
  <2>3. CASE rows' = rows
    BY <2>3 DEF ApartInv, OneFlyerPerMarket, IsSource
  <2> QED BY <2>1, <2>2, <2>3 DEF SaveFlyerPreview, Stop
<1> QED BY <1>2, <1>3, <1>4, <1>5, AloneApart

LEMMA ApartNext ==
  ASSUME ApartInv, OneServer, Next \/ UNCHANGED vars
  PROVE  ApartInv'
<1>t. FileTypes
  BY DEF ApartInv, FileInv
<1>f. FileInv'
  BY FileNext DEF ApartInv
<1>1. ASSUME NEW c \in Handlers, NEW f \in Flyers, DeleteFlyerObjects(c, f) PROVE ApartInv'
  <2>1. /\ calls[c] = Idle /\ \A d \in Handlers : calls[d] = Idle /\ Idle.step = "idle"
    BY <1>1, AllIdle DEF DeleteFlyerObjects, Idle
  <2>2. /\ rows' = rows /\ calls' = [calls EXCEPT ![c] = calls'[c]] /\ calls'[c].step = "delete"
    BY <1>t, <1>1, DeleteSteps
  <2>3. OneFlyerPerMarket'
    BY <2>2 DEF ApartInv, OneFlyerPerMarket, IsSource
  <2>4. \A d \in Handlers \ {c} : calls'[d] = Idle
    BY <1>t, <2>1, <2>2 DEF FileTypes
  <2>5. \A d \in Handlers : calls'[d].step \notin {"insert", "targets"}
    BY <2>1, <2>2, <2>4
  <2> QED BY <1>f, <2>3, <2>4, <2>5 DEF ApartInv, CallApart
<1>2. ASSUME NEW f \in Flyers, EnsureFlyerPreview(f) \/ Expire(f) \/ Renew(f) PROVE ApartInv'
  <2>1. Kept /\ calls' = calls
    BY <1>t, <1>2, KeptSteps DEF EnsureFlyerPreview, Expire, Renew
  <2> QED BY <1>f, <2>1, KeptApart
<1>3. CASE rows' = rows /\ calls' = calls
  <2>1. Kept
    BY <1>3 DEF Kept, SameFile
  <2> QED BY <1>3, <1>f, <2>1, KeptApart
<1>4. CASE DeleteExpiredRow
  <2>1. calls' = calls /\ (rows' = rows \/ Cascade(sweep.flyer))
    BY <1>4 DEF DeleteExpiredRow
  <2>2. CASE Cascade(sweep.flyer)
    BY <1>f, <1>t, <2>1, <2>2, KeptApart, KeptSteps
  <2> QED BY <1>3, <2>1, <2>2
<1> QED
  BY <1>f, <1>1, <1>2, <1>3, <1>4, CompleteApart, InsertApart, CopyApart, UpdateApart, RunApart
  DEF Next, vars, CreateFlyerUploadUrl, Purchase, UploadDraftOfferImage, StartCleanup, EndCleanup,
      FlyerFamily, RemoveUnsharedImages, RemoveFlyerObjects, StopCleanup

\* With one server no market has a document from two source flyers: between the
\* check of the duplicates and the write of the markets no other handler runs.
THEOREM OneServerOneFlyer == OneServer => (Spec => []OneFlyerPerMarket)
<1>1. Init => ApartInv
  <2> SUFFICES ASSUME Init PROVE ApartInv
    OBVIOUS
  <2>1. \A c \in Handlers : calls[c] = Idle /\ Idle.step = "idle"
    BY DEF Init, Idle
  <2>2. \A c \in Handlers : CallApart(c)
    BY <2>1, IdleApart
  <2>3. OneFlyerPerMarket
    BY DEF Init, OneFlyerPerMarket, IsSource
  <2> QED BY <2>1, <2>2, <2>3, FileInit DEF ApartInv
<1>2. ApartInv => OneFlyerPerMarket
  BY DEF ApartInv
<1> SUFFICES ASSUME OneServer PROVE Spec => []OneFlyerPerMarket
  OBVIOUS
<1>3. ApartInv /\ [Next]_vars => ApartInv'
  BY ApartNext
<1> QED BY <1>1, <1>2, <1>3, PTL DEF Spec

-----------------------------------------------------------------------------
(* Subscriptions and deliveries.                                            *)

Send == [user : Users \union {None}, todo : SUBSET Endpoints, stale : SUBSET Endpoints]

\* What deliveries and handlers hold, and that a delivery calls stale only what
\* is gone for good.
SendInv ==
  /\ subs \subseteq Users \X Endpoints
  /\ signedIn \in [Endpoints -> Users \union {None}]
  /\ joining \in [Handlers -> (Users \X Endpoints) \union {None}]
  /\ sends \in [Deliveries -> Send]
  /\ \A d \in Deliveries : sends[d].stale \subseteq gone

LEMMA SendInit == PushInit => SendInv
BY DEF PushInit, SendInv, Send, NoSend

\* The answer to one send: the endpoint is done, and stale only when it is gone.
LEMMA AttemptSteps ==
  ASSUME SendInv, NEW d \in Deliveries, NEW e \in Endpoints, Attempt(d, e)
  PROVE  /\ sends' \in [Deliveries -> Send]
         /\ \A q \in Deliveries : q # d => sends'[q] = sends[q]
         /\ sends'[d].todo = sends[d].todo \ {e}
         /\ sends'[d].stale \subseteq gone
<1>0. sends \in [Deliveries -> Send] /\ sends[d] \in Send /\ sends[d].stale \subseteq gone
  BY DEF SendInv
<1> DEFINE stale == IF e \in gone THEN sends[d].stale \union {e} ELSE sends[d].stale
           a == Answered(sends[d], e)
           f == [sends[d] EXCEPT !.todo = sends[d].todo \ {e}]
<1>1. a \in Send /\ a.todo = sends[d].todo \ {e} /\ a.stale = stale
  BY <1>0 DEF Answered, Send
<1>2. f \in Send /\ f.todo = sends[d].todo \ {e} /\ f.stale = sends[d].stale
  BY <1>0 DEF Send
<1>3. stale \subseteq gone BY <1>0
<1>4. sends' = [sends EXCEPT ![d] = a] \/ sends' = [sends EXCEPT ![d] = f]
  BY DEF Attempt
<1> HIDE DEF a, f, stale
<1> QED BY <1>0, <1>1, <1>2, <1>3, <1>4

LEMMA SendNext == SendInv /\ [PushNext]_pushVars => SendInv'
<1> SUFFICES ASSUME SendInv, [PushNext]_pushVars PROVE SendInv'
  OBVIOUS
<1>0. sends \in [Deliveries -> Send] BY DEF SendInv
<1>1. ASSUME NEW e \in Endpoints, NEW u \in Users, SignIn(e, u) PROVE SendInv'
  BY <1>1 DEF SignIn, SendInv
<1>2. ASSUME NEW e \in Endpoints, Revoke(e) PROVE SendInv'
  BY <1>2 DEF Revoke, SendInv
<1>3. ASSUME NEW e \in Endpoints, Unsubscribe(e) \/ DeleteAllSubscriptions(e) PROVE SendInv'
  BY <1>3 DEF Unsubscribe, DeleteAllSubscriptions, SendInv
<1>4. ASSUME NEW h \in Handlers, NEW e \in Endpoints, Subscribe(h, e) PROVE SendInv'
  BY <1>4 DEF Subscribe, SendInv
<1>5. ASSUME NEW h \in Handlers, Upsert(h) \/ StopSubscribe(h) PROVE SendInv'
  BY <1>5 DEF Upsert, StopSubscribe, SendInv
<1>6. ASSUME NEW d \in Deliveries, NEW u \in Users, LoadPushSubscriptions(d, u) PROVE SendInv'
  <2> DEFINE v == [user |-> u, todo |-> {e \in Endpoints : <<u, e>> \in subs}, stale |-> {}]
  <2>1. v \in Send /\ v.stale = {} BY DEF Send
  <2>2. sends' = [sends EXCEPT ![d] = v] /\ UNCHANGED <<subs, signedIn, gone, joining>>
    BY <1>6 DEF LoadPushSubscriptions
  <2> HIDE DEF v
  <2> QED BY <2>1, <2>2 DEF SendInv
<1>7. ASSUME NEW d \in Deliveries, NEW e \in Endpoints, SendWeb(d, e) \/ SendNative(d, e)
      PROVE  SendInv'
  <2>1. Attempt(d, e) /\ UNCHANGED <<subs, signedIn, gone, joining>>
    BY <1>7 DEF SendWeb, SendNative
  <2>2. /\ sends' \in [Deliveries -> Send]
        /\ \A q \in Deliveries : q # d => sends'[q] = sends[q]
        /\ sends'[d].stale \subseteq gone
    BY <2>1, AttemptSteps
  <2> QED BY <2>1, <2>2 DEF SendInv
<1>8. ASSUME NEW d \in Deliveries, NEW e \in Endpoints, DeleteStale(d, e) PROVE SendInv'
  <2> DEFINE v == [sends[d] EXCEPT !.stale = sends[d].stale \ {e}]
  <2>1. v \in Send /\ v.stale \subseteq sends[d].stale BY <1>0 DEF Send
  <2>2. sends' = [sends EXCEPT ![d] = v] /\ subs' \subseteq subs
        /\ UNCHANGED <<signedIn, gone, joining>>
    BY <1>8 DEF DeleteStale
  <2> HIDE DEF v
  <2> QED BY <2>1, <2>2 DEF SendInv
<1>9. ASSUME NEW d \in Deliveries, Delivered(d) PROVE SendInv'
  <2>1. NoSend \in Send /\ NoSend.stale = {} BY DEF NoSend, Send
  <2> QED BY <1>9, <2>1 DEF Delivered, SendInv
<1>10. CASE Tick \/ UNCHANGED pushVars
  BY <1>10 DEF Tick, pushVars, SendInv
<1> QED BY <1>1, <1>2, <1>3, <1>4, <1>5, <1>6, <1>7, <1>8, <1>9, <1>10 DEF PushNext

\* A delivery unsubscribes endpoints that are gone and no other, whatever it
\* read before and whatever handlers did meanwhile: only an endpoint that is
\* gone is ever stale, and none comes back.
THEOREM OnlyGoneAreDropped == PushSpec => DeliveriesDropGoneOnly
<1>1. ASSUME SendInv, [PushNext]_pushVars
      PROVE  [sends' # sends => subs \ subs' \subseteq Users \X gone]_pushVars
  <2> SUFFICES ASSUME sends' # sends PROVE subs \ subs' \subseteq Users \X gone
    OBVIOUS
  <2>1. ASSUME NEW d \in Deliveries, NEW e \in Endpoints, DeleteStale(d, e)
        PROVE  subs \ subs' \subseteq Users \X gone
    <3>1. e \in gone BY <1>1, <2>1 DEF DeleteStale, SendInv
    <3>2. subs' = {s \in subs : s[2] # e} \/ subs' = subs BY <2>1 DEF DeleteStale
    <3>3. subs \subseteq Users \X Endpoints BY <1>1 DEF SendInv
    <3> QED BY <3>1, <3>2, <3>3
  <2>2. CASE subs' = subs BY <2>2
  <2> QED
    BY <1>1, <2>1, <2>2
       DEF PushNext, SignIn, Revoke, Unsubscribe, DeleteAllSubscriptions, Subscribe, Upsert,
           StopSubscribe, LoadPushSubscriptions, SendWeb, SendNative, Delivered, Tick, pushVars
<1> QED BY <1>1, SendInit, SendNext, PTL DEF PushSpec, DeliveriesDropGoneOnly
-----------------------------------------------------------------------------
\* What a handler is about to write has no rival: the rows of others are
\* deleted, and no other handler is between its two requests.
JoinInv ==
  /\ OneOwner
  /\ \A h \in Handlers : joining[h] # None => \A s \in subs : s[2] = joining[h][2] => s = joining[h]
  /\ \A h, g \in Handlers : joining[h] # None /\ joining[g] # None => h = g

\* A handler that may start finds none between its two requests.
LEMMA NobodyJoins ==
  ASSUME OneServer, Joining < Servers
  PROVE  \A h \in Handlers : joining[h] = None
<1>1. {h \in Handlers : joining[h] # None} = {}
  BY NobodyRuns DEF Joining
<1> QED BY <1>1

LEMMA JoinNext ==
  OneServer /\ SendInv /\ JoinInv /\ [PushNext]_pushVars => JoinInv'
<1> SUFFICES ASSUME OneServer, SendInv, JoinInv, [PushNext]_pushVars PROVE JoinInv'
  OBVIOUS
<1>0. /\ subs \subseteq Users \X Endpoints
      /\ joining \in [Handlers -> (Users \X Endpoints) \union {None}]
  BY DEF SendInv
<1>1. ASSUME subs' \subseteq subs, joining' = joining PROVE JoinInv'
  BY <1>1 DEF JoinInv, OneOwner
<1>2. ASSUME NEW h \in Handlers, NEW e \in Endpoints, Subscribe(h, e) PROVE JoinInv'
  <2> DEFINE u == signedIn[e]
  <2>1. /\ u # None /\ u \in Users
        /\ subs' = {s \in subs : s[2] # e \/ s[1] = u}
        /\ joining' = [joining EXCEPT ![h] = <<u, e>>]
    BY <1>2 DEF Subscribe, SendInv
  <2>2. \A g \in Handlers : joining[g] = None
    BY <1>2, NobodyJoins DEF Subscribe
  <2> HIDE DEF u
  <2>3. joining'[h] = <<u, e>> /\ \A g \in Handlers : g # h => joining'[g] = None
    BY <2>1, <2>2, <1>0
  <2>4. \A s \in subs' : s[2] = e => s = <<u, e>>
    BY <2>1, <1>0
  <2>5. OneOwner' BY <2>1 DEF JoinInv, OneOwner
  <2> QED BY <2>3, <2>4, <2>5 DEF JoinInv
<1>3. ASSUME NEW h \in Handlers, Upsert(h) PROVE JoinInv'
  <2>1. /\ joining[h] # None /\ joining[h] \in Users \X Endpoints
        /\ subs' = subs \union {joining[h]}
        /\ joining' = [joining EXCEPT ![h] = None]
    BY <1>0, <1>3 DEF Upsert
  <2>2. \A g \in Handlers : joining'[g] = None BY <2>1, <1>0 DEF JoinInv
  <2>3. OneOwner' BY <2>1 DEF JoinInv, OneOwner
  <2> QED BY <2>2, <2>3 DEF JoinInv
<1>4. ASSUME NEW h \in Handlers, StopSubscribe(h) PROVE JoinInv'
  <2>1. subs' = subs /\ joining' = [joining EXCEPT ![h] = None] BY <1>4 DEF StopSubscribe
  <2>2. \A g \in Handlers : joining'[g] = joining[g] \/ joining'[g] = None BY <2>1, <1>0
  <2> QED BY <2>1, <2>2 DEF JoinInv, OneOwner
<1>5. ASSUME NEW e \in Endpoints, Unsubscribe(e) \/ DeleteAllSubscriptions(e) PROVE JoinInv'
  BY <1>1, <1>5 DEF Unsubscribe, DeleteAllSubscriptions
<1>6. ASSUME NEW d \in Deliveries, NEW e \in Endpoints, DeleteStale(d, e) PROVE JoinInv'
  BY <1>1, <1>6 DEF DeleteStale
<1>7. CASE UNCHANGED <<subs, joining>>
  BY <1>1, <1>7
<1> QED
  BY <1>2, <1>3, <1>4, <1>5, <1>6, <1>7
     DEF PushNext, SignIn, Revoke, LoadPushSubscriptions, SendWeb, SendNative, Delivered, Tick,
         pushVars

\* With one server, an endpoint is subscribed by one user at most, whenever a
\* device changes hands and wherever a handler stops: no index says so.
THEOREM OneServerOneOwner == OneServer => (PushSpec => []OneOwner)
<1> SUFFICES ASSUME OneServer PROVE PushSpec => []OneOwner
  OBVIOUS
<1>1. PushInit => JoinInv BY DEF PushInit, JoinInv, OneOwner
<1>2. JoinInv => OneOwner BY DEF JoinInv
<1>3. SendInv /\ JoinInv /\ [PushNext]_pushVars => JoinInv' BY JoinNext
<1> QED BY <1>1, <1>2, <1>3, SendInit, SendNext, PTL DEF PushSpec
-----------------------------------------------------------------------------
\* A token is reused for less long than it is valid.
ReuseIsShort ==
  Reuse \in Nat /\ Lifetime \in Nat /\ Reuse <= Lifetime /\ 0 < Lifetime

AgeInv == tokenAge \in Nat \union {None}

\* A token that is reused is younger than Reuse, and a new one is as young as
\* can be, so that no native push presents one that has run out.
THEOREM TokensAreValid == ReuseIsShort => (PushSpec => TokenIsValid)
<1> SUFFICES ASSUME ReuseIsShort PROVE PushSpec => TokenIsValid
  OBVIOUS
<1>1. PushInit => AgeInv BY DEF PushInit, AgeInv
<1>2. AgeInv => Got(tokenAge) \in Nat /\ Got(tokenAge) < Lifetime
  BY DEF AgeInv, Got, ReuseIsShort
<1>3. AgeInv /\ [PushNext]_pushVars => AgeInv'
  <2> SUFFICES ASSUME AgeInv, [PushNext]_pushVars PROVE AgeInv'
    OBVIOUS
  <2>1. ASSUME NEW d \in Deliveries, NEW e \in Endpoints, SendNative(d, e) PROVE AgeInv'
    BY <1>2, <2>1 DEF SendNative, AgeInv
  <2>2. CASE Tick BY <2>2 DEF Tick, AgeInv
  <2>3. CASE tokenAge' = tokenAge BY <2>3 DEF AgeInv
  <2> QED
    BY <2>1, <2>2, <2>3
       DEF PushNext, SignIn, Revoke, Unsubscribe, DeleteAllSubscriptions, Subscribe, Upsert,
           StopSubscribe, LoadPushSubscriptions, SendWeb, DeleteStale, Delivered, pushVars
<1>4. ASSUME AgeInv, SendInv, [PushNext]_pushVars
      PROVE  [\A d \in Deliveries, e \in Native :
                e \in sends[d].todo \ sends'[d].todo => tokenAge' < Lifetime]_pushVars
  <2> SUFFICES ASSUME NEW d \in Deliveries, NEW e \in Native,
                      e \in sends[d].todo \ sends'[d].todo, ~UNCHANGED pushVars
               PROVE  tokenAge' < Lifetime
    OBVIOUS
  <2>0. sends \in [Deliveries -> Send] BY <1>4 DEF SendInv
  <2>1. ASSUME NEW q \in Deliveries, NEW f \in Endpoints, SendNative(q, f)
        PROVE  tokenAge' < Lifetime
    BY <1>2, <1>4, <2>1 DEF SendNative
  <2>2. ASSUME NEW q \in Deliveries, NEW f \in Endpoints, SendWeb(q, f) PROVE FALSE
    <3>1. f \notin Native /\ Attempt(q, f) BY <2>2 DEF SendWeb
    <3>2. /\ \A p \in Deliveries : p # q => sends'[p] = sends[p]
          /\ sends'[q].todo = sends[q].todo \ {f}
      BY <1>4, <3>1, AttemptSteps
    <3> QED BY <3>1, <3>2
  <2>3. ASSUME NEW q \in Deliveries, NEW u \in Users, LoadPushSubscriptions(q, u) PROVE FALSE
    <3>1. sends[q].todo = {} BY <2>3 DEF LoadPushSubscriptions, NoSend
    <3>2. \A p \in Deliveries : p # q => sends'[p] = sends[p]
      BY <2>0, <2>3 DEF LoadPushSubscriptions
    <3> QED BY <3>1, <3>2
  <2>4. ASSUME NEW q \in Deliveries, NEW f \in Endpoints, DeleteStale(q, f) PROVE FALSE
    <3>1. sends[q].todo = {} BY <2>4 DEF DeleteStale
    <3>2. sends' = [sends EXCEPT ![q] = [sends[q] EXCEPT !.stale = sends[q].stale \ {f}]]
      BY <2>4 DEF DeleteStale
    <3>3. \A p \in Deliveries : p # q => sends'[p] = sends[p]
      BY <2>0, <3>2
    <3> QED BY <3>1, <3>3
  <2>5. ASSUME NEW q \in Deliveries, Delivered(q) PROVE FALSE
    <3>1. sends[q].todo = {} BY <2>5 DEF Delivered
    <3>2. \A p \in Deliveries : p # q => sends'[p] = sends[p]
      BY <2>0, <2>5 DEF Delivered
    <3> QED BY <3>1, <3>2
  <2>6. CASE sends' = sends BY <2>6
  <2> QED
    BY <1>4, <2>1, <2>2, <2>3, <2>4, <2>5, <2>6
       DEF PushNext, SignIn, Revoke, Unsubscribe, DeleteAllSubscriptions, Subscribe, Upsert,
           StopSubscribe, Tick
<1> QED BY <1>1, <1>3, <1>4, SendInit, SendNext, PTL DEF PushSpec, TokenIsValid
=============================================================================
