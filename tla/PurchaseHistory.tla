--------------------------- MODULE PurchaseHistory ---------------------------
(* Pages of the history of purchases.                                       *)
(*                                                                          *)
(* get_history of src/api/routers/purchases.py: a page has the newest       *)
(* purchases below a cursor, which is the time and the id of the last one   *)
(* of the page before.  Purchases come and go between two pages, with the   *)
(* time the client states, and old ones leave the period that is shown.     *)
EXTENDS Naturals, FiniteSets

CONSTANTS
  Times,  \* 1..n: times of purchases, which may coincide
  Ids,    \* 1..n: ids, in the order of the database
  Limit,  \* purchases of a page
  Nil     \* no cursor, and no page yet

\* limit has ge=1 in the query of the endpoint.
ASSUME HistoryAssumption ==
  /\ Times \subseteq Nat /\ Ids \subseteq Nat /\ Limit \in Nat \ {0}
  /\ Nil \notin Times \X Ids /\ Nil \notin BOOLEAN

VARIABLES
  purchases,  \* table purchase_history, by time and id
  erased,     \* ids of purchases that were undone
  cutoff,     \* the first time that is shown
  cursor,     \* where the next page begins
  page,       \* the last page the reader got
  seen,       \* the purchases of the pages before it
  lasting,    \* the purchases that are there since the first page
  more        \* what the last page says of a next one

historyVars == <<purchases, erased, cutoff, cursor, page, seen, lasting, more>>

Purchases == Times \X Ids
Newer(a, b) == a[1] > b[1] \/ (a[1] = b[1] /\ a[2] > b[2])
Current == {p \in purchases : p[1] >= cutoff}
Below(bound) == IF bound = Nil THEN Current ELSE {p \in Current : Newer(bound, p)}

\* The first n of a set, newest first.
Newest(set, n) == {p \in set : Cardinality({q \in set : Newer(q, p)}) < n}
Oldest(set) == CHOOSE p \in set : \A q \in set : q # p => Newer(q, p)

HistoryInit ==
  /\ purchases = {}
  /\ erased = {}
  /\ cutoff = 1
  /\ cursor = Nil /\ page = {} /\ seen = {} /\ lasting = {}
  /\ more = Nil

\* An offline purchase arrives late with its own time.
PurchaseItem(p) ==
  /\ p[1] >= cutoff
  /\ p[2] \notin erased \union {q[2] : q \in purchases}
  /\ purchases' = purchases \union {p}
  /\ UNCHANGED <<erased, cutoff, cursor, page, seen, lasting, more>>

UndoPurchase(p) ==
  /\ p \in purchases
  /\ purchases' = purchases \ {p}
  /\ erased' = erased \union {p[2]}
  /\ lasting' = lasting \ {p}
  /\ UNCHANGED <<cutoff, cursor, page, seen, more>>

TimePasses ==
  /\ cutoff + 1 \in Times
  /\ cutoff' = cutoff + 1
  /\ lasting' = {p \in lasting : p[1] >= cutoff + 1}
  /\ UNCHANGED <<purchases, erased, cursor, page, seen, more>>

\* Mutant of ApplyHistoryCursor: purchases of one time are taken for one.
ApplyCursorOnTime(bound) ==
  IF bound = Nil THEN Current ELSE {p \in Current : p[1] < bound[1]}

\* Mutant of ApplyHistoryCursor: the page begins with the cursor.
ApplyCursorInclusive(bound) == Below(bound) \union ({bound} \intersect Current)

ApplyHistoryCursor(bound) == Below(bound)

\* One purchase more than the page is read, to know whether there is a next one.
GetHistory(bound) ==
  LET rows == Newest(ApplyHistoryCursor(bound), Limit + 1) IN
  /\ page' = Newest(rows, Limit)
  /\ more' = (Cardinality(rows) > Limit)
  /\ cursor' = IF Cardinality(rows) > Limit THEN Oldest(Newest(rows, Limit)) ELSE Nil

FirstPage ==
  /\ more = Nil \/ more = FALSE
  /\ GetHistory(Nil)
  /\ seen' = {}
  /\ lasting' = Current
  /\ UNCHANGED <<purchases, erased, cutoff>>

NextPage ==
  /\ more = TRUE
  /\ GetHistory(cursor)
  /\ seen' = seen \union page
  /\ UNCHANGED <<purchases, erased, cutoff, lasting>>

HistoryNext ==
  \/ \E p \in Purchases : PurchaseItem(p) \/ UndoPurchase(p)
  \/ TimePasses \/ FirstPage \/ NextPage

HistorySpec == HistoryInit /\ [][HistoryNext]_historyVars

(* ------------------------------- properties ------------------------------ *)

\* The table, the pages and the cursor hold what their names say.
HistoryTypeOK ==
  /\ purchases \subseteq Purchases /\ page \subseteq Purchases
  /\ seen \subseteq Purchases /\ lasting \subseteq purchases
  /\ erased \subseteq Ids /\ cutoff \in Times
  /\ cursor \in Purchases \union {Nil}
  /\ more \in {TRUE, FALSE, Nil}

\* Whatever comes and goes between two pages, no page repeats a purchase and
\* the last one completes those that were there all along (get_history).
PagesCoverHistory ==
  /\ page \intersect seen = {}
  /\ more = FALSE => lasting \subseteq page \union seen
=============================================================================
