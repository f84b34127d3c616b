------------------------------ MODULE FlyerFiles ------------------------------
(* The files of flyers: upload, ingestion preflight, previews, deletion, and *)
(* the nightly removal of expired flyers.                                    *)
(*                                                                           *)
(* src/api/routers/flyers.py, src/services/flyer_ingestion_preflight.py and  *)
(* src/services/flyer_cleanup.py.  A client puts a file into the private     *)
(* bucket and asks for its completion, which inserts the row of a source     *)
(* flyer; rows refer to files by path, and the copies published from a       *)
(* source share its path and its preview.  Handlers do not await between     *)
(* their requests, so those of one server exclude one another; the cleanup   *)
(* runs in a thread of its own.  Any request may fail or be the last of its  *)
(* process.                                                                  *)
EXTENDS Processes

CONSTANTS
  Flyers,         \* rows there can be
  Markets,
  Paths,          \* uploads there can be: a signed upload is a path of its own
  Contents,       \* documents
  TooLarge,       \* documents over the limit of the bucket
  Alike,          \* pairs of documents whose pages look the same
  Validity,       \* the period a client states with a document
  Crops,          \* product images
  MaxCompletions, \* bound: how often the completion of an upload is asked for
  CopiesDeleted,  \* whether the deletion of published copies is asked for
  MaxRenewals     \* bound: how often a validity is moved

VARIABLES
  rows,     \* table flyers, with flyer_targets
  images,   \* the crops the offers of a flyer show
  history,  \* the crops purchases show
  objects,  \* bucket flyers: the document at a path
  previews, \* bucket flyers: the rows whose previews/{id}.webp there is
  crops,    \* bucket product-images
  asked,    \* how often an upload was completed, or None before it
  calls,    \* handlers under way
  sweep,    \* the cleanup under way
  doomed,   \* flyers whose deletion somebody asked for
  renewals,
  faults

vars == <<rows, images, history, objects, previews, crops, asked, calls, sweep,
          doomed, renewals, faults>>

\* A published copy has a source, a source flyer has none.
Row == [source : Flyers \union {None}, path : Paths, content : Contents,
        key : SUBSET Markets, targets : SUBSET Markets,
        preview : Flyers \union {None}, expired : BOOLEAN]

\* NULL is no value of a column, and no row.
ASSUME NoneAssumption ==
  None \notin Flyers /\ None \notin Row /\ None \notin 0..MaxCompletions
ASSUME CompletionsAssumption == MaxCompletions \in Nat

Idle == [step |-> "idle", path |-> None, doc |-> None, flyer |-> None, asked |-> {},
         want |-> {}]
Asleep == [step |-> "asleep", todo |-> {}, flyer |-> None, paths |-> {},
           previews |-> {}, pics |-> {}]

IsSource(f) == rows[f] # None /\ rows[f].source = None
CopiesOf(f) == {g \in Flyers : rows[g] # None /\ rows[g].source = f}
Family(f) == CopiesOf(f) \union {f}
Free == {f \in Flyers : rows[f] = None /\ f \notin previews /\ f \notin doomed}
Busy == Cardinality({c \in Handlers : calls[c] # Idle})
MayFail(failed) == failed => faults < MaxFaults
Faults(failed) == faults' = IF failed THEN faults + 1 ELSE faults

\* Deleting a row deletes its copies, and the offers of both.
Cascade(f) ==
  /\ rows' = [g \in Flyers |-> IF g \in Family(f) THEN None ELSE rows[g]]
  /\ images' = [g \in Flyers |-> IF g \in Family(f) THEN {} ELSE images[g]]

\* Mutant of Conflicts: flyers that expired do not count.
ConflictsCurrent(content, want, self, activeOnly) ==
  LET same == {f \in Flyers : /\ rows[f] # None /\ rows[f].content = content
                              /\ ~rows[f].expired
                              /\ self = None \/ f \notin Family(self)}
  IN want \intersect UNION {rows[f].targets : f \in same}

\* The markets among want that have the document already, from rows other than
\* the flyer itself and its copies.
Conflicts(content, want, self, activeOnly) ==
  LET same == {f \in Flyers : /\ rows[f] # None /\ rows[f].content = content
                              /\ activeOnly => ~rows[f].expired
                              /\ self = None \/ f \notin Family(self)}
  IN want \intersect UNION {rows[f].targets : f \in same}

Init ==
  /\ rows = [f \in Flyers |-> None]
  /\ images = [f \in Flyers |-> {}]
  /\ history = {}
  /\ objects = [p \in Paths |-> None]
  /\ previews = {}
  /\ crops = {}
  /\ asked = [p \in Paths |-> None]
  /\ calls = [c \in Handlers |-> Idle]
  /\ sweep = Asleep
  /\ doomed = {}
  /\ renewals = 0
  /\ faults = 0

(* ------------------------------- uploading ------------------------------- *)

\* A client signs an upload and puts a document there.
CreateFlyerUploadUrl(p, h) ==
  /\ asked[p] = None
  /\ asked' = [asked EXCEPT ![p] = 0]
  /\ objects' = [objects EXCEPT ![p] = h]
  /\ UNCHANGED <<rows, images, history, previews, crops, calls, sweep, doomed,
                 renewals, faults>>

\* The removal of an object is best effort.
RemoveFlyerObject(p, failed) ==
  /\ MayFail(failed)
  /\ objects' = IF failed THEN objects ELSE [objects EXCEPT ![p] = None]
  /\ Faults(failed)

\* The completion of an upload reads the object, refuses it when it is missing
\* or too large or when every market has the document, and removes it then.
CompleteFlyerUpload(c, p, want) ==
  /\ calls[c] = Idle /\ Busy < Servers
  /\ asked[p] # None /\ asked[p] < MaxCompletions
  /\ asked' = [asked EXCEPT ![p] = @ + 1]
  /\ LET accepted == want \ Conflicts(objects[p], want, None, FALSE) IN
     \/ /\ objects[p] \in TooLarge \union {None} \/ accepted = {}
        /\ \E failed \in BOOLEAN : RemoveFlyerObject(p, failed)
        /\ UNCHANGED calls
     \/ /\ objects[p] \in Contents \ TooLarge /\ accepted # {}
        /\ calls' = [calls EXCEPT ![c] = [Idle EXCEPT !.step = "insert", !.path = p,
                                                      !.doc = objects[p], !.asked = want, !.want = accepted]]
        /\ UNCHANGED <<objects, faults>>
  /\ UNCHANGED <<rows, images, history, previews, crops, sweep, doomed, renewals>>

InsertSourceFlyer(c) ==
  /\ calls[c].step = "insert"
  /\ \E f \in Free :
       /\ rows' = [rows EXCEPT ![f] =
            [source |-> None, path |-> calls[c].path, content |-> calls[c].doc,
             key |-> calls[c].asked, targets |-> {}, preview |-> None, expired |-> FALSE]]
       /\ calls' = [calls EXCEPT ![c].step = "targets", ![c].flyer = f]
  /\ UNCHANGED <<images, history, objects, previews, crops, asked, sweep, doomed,
                 renewals, faults>>

InsertFlyerTargets(c) ==
  LET f == calls[c].flyer IN
  /\ calls[c].step = "targets"
  /\ IF rows[f] # None
     THEN /\ rows' = [rows EXCEPT ![f].targets = calls[c].want]
          /\ calls' = [calls EXCEPT ![c].step = "preview"]
     ELSE UNCHANGED rows /\ calls' = [calls EXCEPT ![c] = Idle]
  /\ UNCHANGED <<images, history, objects, previews, crops, asked, sweep, doomed,
                 renewals, faults>>

\* The object of the preview is written, then the row refers to it; a document
\* that cannot be rendered gets none.
SaveFlyerPreview(c) ==
  /\ calls[c].step = "preview"
  /\ \/ /\ previews' = previews \union {calls[c].flyer}
        /\ calls' = [calls EXCEPT ![c].step = "link"]
     \/ /\ calls' = [calls EXCEPT ![c] = Idle]
        /\ UNCHANGED previews
  /\ UNCHANGED <<rows, images, history, objects, crops, asked, sweep, doomed,
                 renewals, faults>>

LinkFlyerPreview(c) ==
  LET f == calls[c].flyer IN
  /\ calls[c].step = "link"
  /\ rows' = IF rows[f] = None THEN rows ELSE [rows EXCEPT ![f].preview = f]
  /\ calls' = [calls EXCEPT ![c] = Idle]
  /\ UNCHANGED <<images, history, objects, previews, crops, asked, sweep, doomed,
                 renewals, faults>>

\* A request of the handler fails, or its process stops: nothing is undone.
Stop(c) ==
  /\ calls[c] # Idle /\ faults < MaxFaults
  /\ calls' = [calls EXCEPT ![c] = Idle]
  /\ faults' = faults + 1
  /\ UNCHANGED <<rows, images, history, objects, previews, crops, asked, sweep, doomed, renewals>>

(* ------------------------- editing and publishing ------------------------ *)

\* A preview that is asked for and missing is made from the file.
EnsureFlyerPreview(f) ==
  /\ rows[f] # None /\ rows[f].preview = None
  /\ objects[rows[f].path] # None
  /\ Busy < Servers
  /\ previews' = previews \union {f}
  /\ rows' = [rows EXCEPT ![f].preview = f]
  /\ UNCHANGED <<images, history, objects, crops, asked, calls, sweep, doomed,
                 renewals, faults>>

\* The targets are deleted and inserted again; copies of the others go.
UpdateFlyerTargets(f, want) ==
  LET accepted == want \ Conflicts(rows[f].content, want, f, FALSE)
      dropped  == {g \in CopiesOf(f) : rows[g].targets \intersect accepted = {}}
  IN
  /\ IsSource(f) /\ Busy < Servers
  /\ accepted # {}
  /\ \E failed \in BOOLEAN :
       /\ MayFail(failed) /\ Faults(failed)
       /\ rows' = [g \in Flyers |->
            IF g = f THEN [rows[f] EXCEPT !.targets = IF failed THEN {} ELSE accepted]
            ELSE IF g \in dropped /\ ~failed THEN None ELSE rows[g]]
       /\ images' = [g \in Flyers |-> IF g \in dropped /\ ~failed THEN {} ELSE images[g]]
  /\ UNCHANGED <<history, objects, previews, crops, asked, calls, sweep, doomed,
                 renewals>>

\* The copy for a market shares the file, the preview and the crops.
UpsertPublishedTargetFlyer(f, m) ==
  /\ IsSource(f) /\ Busy < Servers
  /\ m \in rows[f].targets \ UNION {rows[g].targets : g \in CopiesOf(f)}
  /\ \E g \in Free :
       /\ rows' = [rows EXCEPT ![g] = [rows[f] EXCEPT !.source = f, !.key = {},
                                                     !.targets = {m}]]
       /\ images' = [images EXCEPT ![g] = images[f]]
  /\ UNCHANGED <<history, objects, previews, crops, asked, calls, sweep, doomed,
                 renewals, faults>>

\* An extraction stores a crop, or a draft gets another image; the image it
\* replaces stays in the bucket.
UploadDraftOfferImage(f, x, replaced) ==
  /\ IsSource(f) /\ replaced \subseteq images[f]
  /\ x \notin crops \union history \union UNION {images[g] : g \in Flyers}
  /\ images' = [images EXCEPT ![f] = (@ \ replaced) \union {x}]
  /\ crops' = crops \union {x}
  /\ UNCHANGED <<rows, history, objects, previews, asked, calls, sweep, doomed,
                 renewals, faults>>

\* A purchase keeps the image of its offer.
Purchase(f, x) ==
  /\ rows[f] # None /\ ~IsSource(f) /\ x \in images[f]
  /\ history' = history \union {x}
  /\ UNCHANGED <<rows, images, objects, previews, crops, asked, calls, sweep, doomed, renewals, faults>>

Expire(f) ==
  /\ IsSource(f) /\ ~rows[f].expired
  /\ rows' = [g \in Flyers |->
       IF g \in Family(f) THEN [rows[g] EXCEPT !.expired = TRUE] ELSE rows[g]]
  /\ UNCHANGED <<images, history, objects, previews, crops, asked, calls, sweep, doomed, renewals, faults>>

\* The validity of a flyer and its copies is moved to a later day.
Renew(f) ==
  /\ IsSource(f) /\ rows[f].expired /\ renewals < MaxRenewals
  /\ rows' = [g \in Flyers |->
       IF g \in Family(f) THEN [rows[g] EXCEPT !.expired = FALSE] ELSE rows[g]]
  /\ renewals' = renewals + 1
  /\ UNCHANGED <<images, history, objects, previews, crops, asked, calls, sweep, doomed, faults>>

(* ------------------------------- preflight ------------------------------- *)

\* The current source flyers of the same period for some of the markets.
PreflightDocuments(h, markets) ==
  {f \in Flyers : /\ IsSource(f) /\ ~rows[f].expired
                  /\ Validity[rows[f].content] = Validity[h]
                  /\ rows[f].targets \intersect markets # {}}

\* The file of a flyer cannot be read when its object is missing.
Unavailable(documents) == {f \in documents : objects[rows[f].path] = None}

\* The markets of the documents that look like h.
VisualConflicts(h, documents) ==
  UNION {rows[f].targets : f \in {f \in documents \ Unavailable(documents) :
                                    <<h, objects[rows[f].path]>> \in Alike}}

\* Mutant of Decision: a document that cannot be read counts as another one.
DecisionIgnoring(want, processed, indeterminate) ==
  [processed |-> processed \intersect want, upload |-> want \ processed]

\* Nothing is to be uploaded while a document could not be compared.
Decision(want, processed, indeterminate) ==
  [processed |-> processed \intersect want,
   upload |-> IF indeterminate THEN {} ELSE want \ processed]

\* The markets that have the document, or one that looks the same, and those to
\* upload it for.
Decide(h, want) ==
  LET exact     == Conflicts(h, want, None, TRUE)
      documents == PreflightDocuments(h, want \ exact)
  IN Decision(want, exact \union VisualConflicts(h, documents), Unavailable(documents) # {})

\* Without a document only flyers asked for the same markets and period count.
DecideByMetadata(h, want) ==
  LET same  == {f \in Flyers : /\ IsSource(f) /\ rows[f].key = want
                               /\ Validity[rows[f].content] = Validity[h]}
      known == UNION {rows[f].targets : f \in same}
  IN [processed |-> known, upload |-> want \ known]

(* ----------------------- deletion by an administrator -------------------- *)

\* The objects of the row go first.  The row is selected without its kind, so
\* that the check that it is a source flyer always passes.
DeleteFlyerObjects(c, f) ==
  /\ calls[c] = Idle /\ Busy < Servers
  /\ rows[f] # None
  /\ CopiesDeleted \/ IsSource(f)
  /\ \E failed \in BOOLEAN : RemoveFlyerObject(rows[f].path, failed)
  /\ previews' = previews \ {rows[f].preview}
  /\ doomed' = doomed \union {f}
  /\ calls' = [calls EXCEPT ![c] = [Idle EXCEPT !.step = "delete", !.flyer = f]]
  /\ UNCHANGED <<rows, images, history, crops, asked, sweep, renewals>>

DeleteFlyerRow(c) ==
  /\ calls[c].step = "delete"
  /\ Cascade(calls[c].flyer)
  /\ calls' = [calls EXCEPT ![c] = Idle]
  /\ UNCHANGED <<history, objects, previews, crops, asked, sweep, doomed,
                 renewals, faults>>

(* ---------------------------- nightly cleanup ---------------------------- *)

\* The expired source flyers, with the paths their rows have now.
ExpiredSourceFlyers ==
  {[flyer |-> f, path |-> rows[f].path, preview |-> rows[f].preview] :
     f \in {f \in Flyers : IsSource(f) /\ rows[f].expired}}

StartCleanup ==
  /\ sweep.step = "asleep" /\ ExpiredSourceFlyers # {}
  /\ sweep' = [Asleep EXCEPT !.step = "next", !.todo = ExpiredSourceFlyers]
  /\ UNCHANGED <<rows, images, history, objects, previews, crops, asked, calls, doomed, renewals, faults>>

EndCleanup ==
  /\ sweep.step = "next" /\ sweep.todo = {}
  /\ sweep' = Asleep
  /\ UNCHANGED <<rows, images, history, objects, previews, crops, asked, calls, doomed, renewals, faults>>

\* The copies and the offers of the next flyer are read before its row goes.
FlyerFamily(one) ==
  /\ sweep.step = "next" /\ one \in sweep.todo
  /\ sweep' = [sweep EXCEPT !.step = "row", !.todo = @ \ {one}, !.flyer = one.flyer,
       !.paths = {one.path} \union {rows[g].path : g \in CopiesOf(one.flyer)},
       !.previews = ({one.preview} \union {rows[g].preview : g \in CopiesOf(one.flyer)})
                    \ {None},
       !.pics = UNION {images[g] : g \in Family(one.flyer)}]
  /\ UNCHANGED <<rows, images, history, objects, previews, crops, asked, calls, doomed, renewals, faults>>

\* Mutant of DeleteExpiredRow: a row that cannot be deleted loses its files.
DeleteExpiredRowAnyway ==
  /\ sweep.step = "row"
  /\ \/ Cascade(sweep.flyer) /\ UNCHANGED faults
     \/ faults < MaxFaults /\ faults' = faults + 1 /\ UNCHANGED <<rows, images>>
  /\ sweep' = [sweep EXCEPT !.step = "images"]
  /\ UNCHANGED <<history, objects, previews, crops, asked, calls, doomed, renewals>>

\* When the row cannot be deleted its files stay.
DeleteExpiredRow ==
  /\ sweep.step = "row"
  /\ \/ Cascade(sweep.flyer) /\ sweep' = [sweep EXCEPT !.step = "images"]
        /\ UNCHANGED faults
     \/ faults < MaxFaults /\ faults' = faults + 1
        /\ sweep' = [sweep EXCEPT !.step = "next"]
        /\ UNCHANGED <<rows, images>>
  /\ UNCHANGED <<history, objects, previews, crops, asked, calls, doomed, renewals>>

\* A crop an offer still shows stays.
RemoveUnsharedImages ==
  /\ sweep.step = "images"
  /\ \E failed \in BOOLEAN :
       /\ MayFail(failed) /\ Faults(failed)
       /\ crops' = IF failed THEN crops
                   ELSE crops \ (sweep.pics \ UNION {images[g] : g \in Flyers})
  /\ sweep' = [sweep EXCEPT !.step = "objects"]
  /\ UNCHANGED <<rows, images, history, objects, previews, asked, calls, doomed,
                 renewals>>

RemoveFlyerObjects ==
  /\ sweep.step = "objects"
  /\ \E failed \in BOOLEAN :
       /\ MayFail(failed) /\ Faults(failed)
       /\ objects' = [p \in Paths |-> IF p \in sweep.paths /\ ~failed THEN None ELSE objects[p]]
       /\ previews' = IF failed THEN previews ELSE previews \ sweep.previews
  /\ sweep' = [sweep EXCEPT !.step = "next"]
  /\ UNCHANGED <<rows, images, history, crops, asked, calls, doomed, renewals>>

StopCleanup ==
  /\ sweep # Asleep /\ faults < MaxFaults
  /\ sweep' = Asleep
  /\ faults' = faults + 1
  /\ UNCHANGED <<rows, images, history, objects, previews, crops, asked, calls, doomed, renewals>>

Next ==
  \/ \E p \in Paths, h \in Contents : CreateFlyerUploadUrl(p, h)
  \/ \E c \in Handlers, p \in Paths, want \in (SUBSET Markets) \ {{}} :
       CompleteFlyerUpload(c, p, want)
  \/ \E c \in Handlers : \/ InsertSourceFlyer(c) \/ InsertFlyerTargets(c)
                      \/ SaveFlyerPreview(c) \/ LinkFlyerPreview(c)
                      \/ DeleteFlyerRow(c) \/ Stop(c)
  \/ \E c \in Handlers, f \in Flyers : DeleteFlyerObjects(c, f)
  \/ \E f \in Flyers : EnsureFlyerPreview(f) \/ Expire(f) \/ Renew(f)
  \/ \E f \in Flyers, want \in (SUBSET Markets) \ {{}} : UpdateFlyerTargets(f, want)
  \/ \E f \in Flyers, m \in Markets : UpsertPublishedTargetFlyer(f, m)
  \/ \E f \in Flyers, x \in Crops : Purchase(f, x)
  \/ \E f \in Flyers, x \in Crops : \E replaced \in SUBSET images[f] :
       UploadDraftOfferImage(f, x, replaced)
  \/ \E one \in sweep.todo : FlyerFamily(one)
  \/ StartCleanup \/ EndCleanup \/ DeleteExpiredRow \/ RemoveUnsharedImages
  \/ RemoveFlyerObjects \/ StopCleanup

Spec == Init /\ [][Next]_vars

(* ------------------------------- properties ------------------------------ *)

\* Rows, buckets, handlers and the cleanup hold what their columns and names say.
FilesTypeOK ==
  /\ rows \in [Flyers -> Row \union {None}]
  /\ \A f \in Flyers : images[f] \subseteq Crops
  /\ history \subseteq Crops /\ crops \subseteq Crops
  /\ objects \in [Paths -> Contents \union {None}]
  /\ previews \subseteq Flyers /\ doomed \subseteq Flyers
  /\ asked \in [Paths -> 0..MaxCompletions \union {None}]
  /\ \A c \in Handlers : calls[c].step \in {"idle", "insert", "targets", "preview", "link", "delete"}
  /\ sweep.step \in {"asleep", "next", "row", "images", "objects"}
  /\ Busy <= Servers
  /\ renewals \in 0..MaxRenewals /\ faults \in 0..MaxFaults

\* A flyer has the file its row refers to until somebody asks for its deletion:
\* neither a refused completion, nor what is done to another flyer, nor the
\* cleanup takes it (_remove_flyer_object, delete_flyer, _remove_flyer_objects).
FileKept ==
  \A f \in Flyers : rows[f] # None =>
    \/ objects[rows[f].path] = rows[f].content
    \/ f \in doomed \/ rows[f].source \in doomed

\* No market gets the same document from two source flyers: uploads and changes
\* of targets check it and write without an index behind them, so it is the one
\* server that makes it true (_duplicate_target_conflicts).
OneFlyerPerMarket ==
  \A f, g \in Flyers : f # g /\ IsSource(f) /\ IsSource(g) /\ rows[f].content = rows[g].content
    => rows[f].targets \intersect rows[g].targets = {}

\* A preflight never asks to upload a document for a market that has a current
\* one of the same period that looks the same, or that could not be compared.
NothingUploadedTwice ==
  \A h \in Contents, want \in SUBSET Markets : \A m \in Decide(h, want).upload :
    ~\E f \in Flyers : /\ IsSource(f) /\ ~rows[f].expired /\ m \in rows[f].targets
                       /\ Validity[rows[f].content] = Validity[h]
                       /\ \/ objects[rows[f].path] = None
                          \/ <<h, rows[f].content>> \in Alike

\* A preflight by metadata asks for no market that has a current flyer of the
\* period (refuted: it compares the whole set of markets).
MetadataKnowsTargets ==
  \A h \in Contents, want \in SUBSET Markets :
    DecideByMetadata(h, want).upload \intersect
      UNION {rows[f].targets : f \in PreflightDocuments(h, want)} = {}

\* The cleanup deletes expired flyers only (refuted: the list is read once).
CleanupTakesExpiredOnly ==
  [][\A f \in Flyers : IsSource(f) /\ ~rows[f].expired /\ f \notin doomed
       => rows'[f] # None]_vars

\* The image of a purchase outlives its offer (refuted: only offers count).
HistoryKeepsImages == history \subseteq crops
=============================================================================
