---------------------------- MODULE ShoppingList ----------------------------
(* The items of one shared list and the purchases made from it.             *)
(*                                                                          *)
(* src/api/routers/lists.py and purchases.py: a handler verifies that the   *)
(* caller is a member, reads the whole array of items, decides, and writes  *)
(* with one statement: a patch of one item (update_list_item), an append, a *)
(* removal, or the whole array.  The nightly cleanup reads and writes whole *)
(* arrays from a thread of its own.  Every statement is a step, so handlers *)
(* interleave as they do around an awaited call, with the cleanup thread,   *)
(* or on two servers during a deployment.                                   *)
(*                                                                          *)
(* A client sends an item with an identifier of its own and, when it may    *)
(* have to send it again, with an operation identifier; the item stands for *)
(* both here.  Every user has one such purchase operation for each item.    *)
EXTENDS Naturals, FiniteSets

CONSTANTS
  Users,        \* accounts that are members of the list at first
  Items,        \* identifiers of items, each used for one addition
  Offers,       \* public offers
  PinOf,        \* the offer an item is added from, or None
  Sees,         \* the offers of supermarkets near a user
  Requests,     \* handlers that can run at once
  Deployments,  \* values of has_direct_postgres() that are considered
  None,
  MaxRequests,  \* bound: requests sent
  MaxFaults     \* bound: restarts of the server

ASSUME ConstantsAssumption ==
  /\ PinOf \in [Items -> Offers \union {None}]
  /\ Sees \in [Users -> SUBSET Offers]
  /\ Deployments \subseteq BOOLEAN
  /\ MaxRequests \in Nat /\ MaxFaults \in Nat
  /\ None \notin Users \union Offers \union Items

VARIABLES
  direct,    \* the server writes through its own Postgres connection
  members,   \* users in list_members
  offer,     \* state of every offer
  items,     \* shopping_lists.items, by identifier
  used,      \* how the identifier was sent: "no", "online", "offline"
  opLog,     \* list_sync_operations: items whose offline addition is recorded
  applied,   \* how many times the addition of an item took effect
  history,   \* purchase_history: rows by item, buyer and offline operation
  acked,     \* offline additions the client has an answer for
  bought,    \* offline purchases the client has an answer for
  undone,    \* purchases undone by their buyer
  req,       \* the handlers
  cleanup,   \* the array the cleanup thread is about to write, or None
  sent, faults

listVars == <<items, used, opLog, applied>>
buyVars == <<history, undone>>
ackVars == <<acked, bought>>
envVars == <<direct, members, offer, faults>>
vars == <<direct, members, offer, items, used, opLog, applied, history, acked,
          bought, undone, req, cleanup, sent, faults>>

Item == [checked: Users \union {None}, buyer: Users \union {None}, old: BOOLEAN,
         pin: Offers \union {None}]
Field == {"checked", "buyer", "pin"}
Patch == [field: Field, value: Users \union Offers \union {None}]
Array == [Items -> Item \union {None}]
NoPatch == [field |-> "pin", value |-> None]
NoItems == [i \in Items |-> None]
ASSUME ItemAssumption == None \notin Item

Live(i) == items[i] # None
IsMember(u) == u \in members

NewItem(i) == [checked |-> None, buyer |-> None, old |-> FALSE, pin |-> PinOf[i]]

\* An item of the list that still waits to be bought from the same offer.
HasOpenTwin(i) ==
  /\ PinOf[i] # None
  /\ \E j \in Items : Live(j) /\ items[j].pin = PinOf[i] /\ items[j].buyer = None

\* append_list_item: the quantity of the open twin grows, or the item is new.
Appended(i) == IF HasOpenTwin(i) THEN items ELSE [items EXCEPT ![i] = NewItem(i)]

\* Mutant of Removed: an item goes with those of its offer.
RemovedByOffer(i) ==
  [j \in Items |-> IF j = i \/ (Live(j) /\ items[j].pin = PinOf[i]) THEN None ELSE items[j]]

\* Mutant of Removed: without COALESCE the array of no items is NULL.
RemovedToNull(i) ==
  IF \A j \in Items \ {i} : items[j] = None THEN None ELSE [items EXCEPT ![i] = None]

Removed(i) == [items EXCEPT ![i] = None]

\* Mutant of Patched: a check writes the item as it was before its purchase.
PatchedWhole(x, p, old) ==
  CASE p.field = "checked" -> [x EXCEPT !.checked = p.value, !.buyer = None]
    [] p.field = "buyer" -> [x EXCEPT !.buyer = p.value, !.old = old]
    [] p.field = "pin" -> [x EXCEPT !.pin = p.value]

\* update_list_item: the fields of the patch replace those of the item.
Patched(x, p, old) ==
  CASE p.field = "checked" -> [x EXCEPT !.checked = p.value]
    [] p.field = "buyer" -> [x EXCEPT !.buyer = p.value, !.old = old]
    [] p.field = "pin" -> [x EXCEPT !.pin = p.value]
Updated(i, p, old) ==
  IF Live(i) THEN [items EXCEPT ![i] = Patched(items[i], p, old)] ELSE items

CheckPatch(u, yes) == [field |-> "checked", value |-> IF yes THEN u ELSE None]
PurchasePatch(u) == [field |-> "buyer", value |-> u]
SelectedOfferPatch(o) == [field |-> "pin", value |-> o]

\* What remove-purchased and the nightly cleanup leave of the array they read.
Remaining == [i \in Items |-> IF Live(i) /\ items[i].buyer # None THEN None ELSE items[i]]
KeepItem(x) == x.buyer # None => ~x.old
Kept == [i \in Items |-> IF Live(i) /\ ~KeepItem(items[i]) THEN None ELSE items[i]]

\* Offers of items that are at supermarkets out of the user's reach, and those
\* within reach that are over or gone.
PinnedOffers == {items[i].pin : i \in {j \in Items : Live(j)}} \ {None}
Hidden(u) == {o \in PinnedOffers : o \notin Sees[u] /\ offer[o] # "gone"}
StaleOffers(u) == {o \in PinnedOffers \ Hidden(u) : offer[o] # "current"}

\* How an item is shown: without an offer the user cannot reach, or that is over.
Shown(u, i) == IF items[i].pin \in Hidden(u) \union StaleOffers(u)
               THEN [items[i] EXCEPT !.pin = None] ELSE items[i]

\* classify_deal_freshness for one item, from the rows of offers it is given;
\* the change of a price is not modelled.
Freshness(i, rows) ==
  CASE items[i].pin \notin rows \/ offer[items[i].pin] = "gone" -> "unavailable"
    [] offer[items[i].pin] = "expired" -> "expired"
    [] OTHER -> "fresh"

\* What clear_stale_offers is about to clear.
Stale(u) ==
  {i \in Items : /\ Live(i)
                 /\ items[i].pin # None
                 /\ Freshness(i, Offers \ Hidden(u)) # "fresh"
                 /\ items[i].pin \notin Hidden(u)}

ExistingPurchase(u, i) == history[<<i, u, TRUE>>] > 0

Request == [op: {"add", "update", "remove", "rewrite", "buy", "undo", "clear"},
            user: Users, item: Items \union {None}, offline: BOOLEAN,
            pc: {"record", "append", "insert", "update", "remove", "write", "erase"},
            patch: Patch, todo: SUBSET Items, saved: Array]

New(op, u, i, pc) ==
  [op |-> op, user |-> u, item |-> i, offline |-> FALSE, pc |-> pc,
   patch |-> NoPatch, todo |-> {}, saved |-> NoItems]
-----------------------------------------------------------------------------
Init ==
  /\ direct \in Deployments
  /\ members = Users
  /\ offer = [o \in Offers |-> "current"]
  /\ items = NoItems
  /\ used = [i \in Items |-> "no"]
  /\ opLog = {}
  /\ applied = [i \in Items |-> 0]
  /\ history = [k \in Items \X Users \X BOOLEAN |-> 0]
  /\ acked = {}
  /\ bought = {}
  /\ undone = {}
  /\ req = [r \in Requests |-> None]
  /\ cleanup = None
  /\ sent = 0
  /\ faults = 0

\* A handler verifies the caller and goes on with what it read.
Start(r, q) ==
  /\ req[r] = None
  /\ sent < MaxRequests
  /\ IsMember(q.user)
  /\ req' = [req EXCEPT ![r] = q]
  /\ sent' = sent + 1
Goto(r, pc) == req' = [req EXCEPT ![r].pc = pc]
End(r) == req' = [req EXCEPT ![r] = None]
At(r, pc) == req[r] # None /\ req[r].pc = pc

StartAdd(r, u, i, offline) ==
  /\ used[i] = "no" \/ (offline /\ used[i] = "offline")
  /\ Start(r, [New("add", u, i, IF direct /\ offline THEN "record" ELSE "append")
                 EXCEPT !.offline = offline])
  /\ used' = [used EXCEPT ![i] = IF offline THEN "offline" ELSE "online"]
  /\ UNCHANGED <<envVars, items, opLog, applied, buyVars, ackVars, cleanup>>

\* toggle_item and set_item_checked.
StartToggle(r, u, i) ==
  /\ Live(i)
  /\ Start(r, [New("update", u, i, "update")
                 EXCEPT !.patch = CheckPatch(u, items[i].checked = None)])
  /\ UNCHANGED <<envVars, listVars, buyVars, ackVars, cleanup>>

StartCheck(r, u, i, yes) ==
  /\ Live(i)
  /\ Start(r, [New("update", u, i, "update") EXCEPT !.patch = CheckPatch(u, yes)])
  /\ UNCHANGED <<envVars, listVars, buyVars, ackVars, cleanup>>

\* patch_item with another offer; the offer must exist.
StartPatch(r, u, i, o) ==
  /\ Live(i)
  /\ offer[o] # "gone"
  /\ Start(r, [New("update", u, i, "update") EXCEPT !.patch = SelectedOfferPatch(o)])
  /\ UNCHANGED <<envVars, listVars, buyVars, ackVars, cleanup>>

\* A purchased item is refused: its purchase has to be undone first.
StartRemove(r, u, i) ==
  /\ ~(Live(i) /\ items[i].buyer # None)
  /\ Start(r, New("remove", u, i, "remove"))
  /\ UNCHANGED <<envVars, listVars, buyVars, ackVars, cleanup>>

StartRemovePurchased(r, u) ==
  /\ Start(r, [New("rewrite", u, None, "write") EXCEPT !.saved = Remaining])
  /\ UNCHANGED <<envVars, listVars, buyVars, ackVars, cleanup>>

StartReset(r, u) ==
  /\ Start(r, New("rewrite", u, None, "write"))
  /\ UNCHANGED <<envVars, listVars, buyVars, ackVars, cleanup>>

StartClearStale(r, u) ==
  /\ Stale(u) # {}
  /\ Start(r, [New("clear", u, None, "update") EXCEPT !.todo = Stale(u)])
  /\ UNCHANGED <<envVars, listVars, buyVars, ackVars, cleanup>>

\* A purchase that is already recorded only marks its item again.
StartPurchase(r, u, i, offline) ==
  /\ Live(i) \/ (offline /\ ExistingPurchase(u, i))
  /\ Start(r, [New("buy", u, i, IF offline /\ ExistingPurchase(u, i)
                                THEN "update" ELSE "insert")
                 EXCEPT !.offline = offline, !.patch = PurchasePatch(u)])
  /\ UNCHANGED <<envVars, listVars, buyVars, ackVars, cleanup>>

StartUndo(r, u, i) ==
  /\ Live(i)
  /\ Start(r, [New("undo", u, i, "update") EXCEPT !.patch = PurchasePatch(None)])
  /\ UNCHANGED <<envVars, listVars, buyVars, ackVars, cleanup>>
-----------------------------------------------------------------------------
\* A client that stopped waiting, or lost the answer, does not know.
Ack(set, k) == set' = set \/ set' = set \union {k}

\* Mutant of RecordOperation: whether a row was inserted is not looked at.
RecordOperationAgain(r) ==
  /\ At(r, "record")
  /\ Goto(r, "append") /\ opLog' = opLog \union {req[r].item} /\ UNCHANGED acked
  /\ UNCHANGED <<envVars, items, used, applied, buyVars, bought, cleanup, sent>>

\* With its own connection the server commits every statement by itself: the
\* operation identifier is in the table before the item is in the list.
RecordOperation(r) ==
  /\ At(r, "record")
  /\ LET i == req[r].item IN
       IF i \in opLog
       THEN End(r) /\ Ack(acked, i) /\ UNCHANGED opLog
       ELSE Goto(r, "append") /\ opLog' = opLog \union {i} /\ UNCHANGED acked
  /\ UNCHANGED <<envVars, items, used, applied, buyVars, bought, cleanup, sent>>

AppendDirectly(r) ==
  /\ direct
  /\ At(r, "append")
  /\ LET i == req[r].item IN
       /\ items' = Appended(i)
       /\ applied' = [applied EXCEPT ![i] = @ + 1]
       /\ IF req[r].offline THEN Ack(acked, i) ELSE UNCHANGED acked
  /\ End(r)
  /\ UNCHANGED <<envVars, used, opLog, buyVars, bought, cleanup, sent>>

\* Through PostgREST the function is one transaction under the caller's rights:
\* it fails, or does nothing, for a user who is no member any more.
AppendByFunction(r) ==
  /\ ~direct
  /\ At(r, "append")
  /\ LET i == req[r].item
         fresh == IF req[r].offline THEN i \notin opLog ELSE TRUE
     IN  /\ IF IsMember(req[r].user) /\ fresh
            THEN /\ items' = Appended(i)
                 /\ applied' = [applied EXCEPT ![i] = @ + 1]
                 /\ opLog' = IF req[r].offline THEN opLog \union {i} ELSE opLog
            ELSE UNCHANGED <<items, applied, opLog>>
         /\ IF req[r].offline /\ (IsMember(req[r].user) \/ i \in opLog)
            THEN Ack(acked, i) ELSE UNCHANGED acked
  /\ End(r)
  /\ UNCHANGED <<envVars, used, buyVars, bought, cleanup, sent>>

\* The rights of the caller are checked again by the function, not by the server.
MayWrite(u) == direct \/ IsMember(u)

RemoveItem(r) ==
  /\ At(r, "remove")
  /\ items' = IF MayWrite(req[r].user) THEN Removed(req[r].item) ELSE items
  /\ End(r)
  /\ UNCHANGED <<envVars, used, opLog, applied, buyVars, ackVars, cleanup, sent>>

WriteItems(r) ==
  /\ At(r, "write")
  /\ items' = req[r].saved
  /\ End(r)
  /\ UNCHANGED <<envVars, used, opLog, applied, buyVars, ackVars, cleanup, sent>>

\* The item of a patch, or the next one of clear_stale_offers.
Target(r) == IF req[r].op = "clear" THEN req[r].todo ELSE {req[r].item}
AfterUpdate(r, i) ==
  CASE req[r].op = "undo" -> Goto(r, "erase")
    [] req[r].op = "clear" /\ req[r].todo # {i} ->
         req' = [req EXCEPT ![r].todo = @ \ {i}]
    [] OTHER -> End(r)

\* The update of an empty array writes NULL, which the column refuses.
UpdateItem(r) ==
  /\ At(r, "update")
  /\ \E i \in Target(r), old \in BOOLEAN :
       /\ req[r].patch.value = None => ~old
       /\ IF MayWrite(req[r].user) THEN
            IF items = NoItems
            THEN End(r) /\ UNCHANGED <<items, bought>>
            ELSE /\ items' = Updated(i, req[r].patch, old)
                 /\ AfterUpdate(r, i)
                 /\ IF req[r].op = "buy" /\ req[r].offline
                    THEN Ack(bought, <<i, req[r].user>>) ELSE UNCHANGED bought
          ELSE AfterUpdate(r, i) /\ UNCHANGED <<items, bought>>
  /\ UNCHANGED <<envVars, used, opLog, applied, buyVars, acked, cleanup, sent>>

\* Mutant of InsertPurchase: without the index a row is inserted again.
InsertPurchaseAgain(r) ==
  /\ At(r, "insert")
  /\ Goto(r, "update")
  /\ history' = [history EXCEPT ![<<req[r].item, req[r].user, req[r].offline>>] = @ + 1]
  /\ UNCHANGED <<envVars, listVars, undone, ackVars, cleanup, sent>>

\* A second row of one operation violates the unique index.
InsertPurchase(r) ==
  /\ At(r, "insert")
  /\ LET k == <<req[r].item, req[r].user, req[r].offline>> IN
       IF req[r].offline /\ history[k] > 0
       THEN End(r) /\ UNCHANGED history
       ELSE Goto(r, "update") /\ history' = [history EXCEPT ![k] = @ + 1]
  /\ UNCHANGED <<envVars, listVars, undone, ackVars, cleanup, sent>>

\* Mutant of ErasePurchase: the rows of other buyers go as well.
ErasePurchases(r) ==
  /\ At(r, "erase")
  /\ history' = [k \in DOMAIN history |-> IF k[1] = req[r].item THEN 0 ELSE history[k]]
  /\ undone' = undone \union {<<req[r].item, req[r].user>>}
  /\ End(r)
  /\ UNCHANGED <<envVars, listVars, ackVars, cleanup, sent>>

\* Undo deletes the rows of the caller, whoever bought the item.
ErasePurchase(r) ==
  /\ At(r, "erase")
  /\ LET u == req[r].user IN
       /\ history' = [k \in DOMAIN history |->
                        IF k[1] = req[r].item /\ k[2] = u THEN 0 ELSE history[k]]
       /\ undone' = undone \union {<<req[r].item, u>>}
  /\ End(r)
  /\ UNCHANGED <<envVars, listVars, ackVars, cleanup, sent>>
-----------------------------------------------------------------------------
LoadForCleanup ==
  /\ cleanup = None
  /\ Kept # items
  /\ cleanup' = Kept
  /\ UNCHANGED <<envVars, listVars, buyVars, ackVars, req, sent>>

SaveCleanup ==
  /\ cleanup # None
  /\ items' = cleanup
  /\ cleanup' = None
  /\ UNCHANGED <<envVars, used, opLog, applied, buyVars, ackVars, req, sent>>

Midnight ==
  /\ items' = [i \in Items |-> IF Live(i) /\ items[i].buyer # None
                               THEN [items[i] EXCEPT !.old = TRUE] ELSE items[i]]
  /\ UNCHANGED <<envVars, used, opLog, applied, buyVars, ackVars, req, cleanup, sent>>

\* A member leaves or is removed while requests of theirs are running.
Leave(u) ==
  /\ IsMember(u)
  /\ members' = members \ {u}
  /\ UNCHANGED <<direct, offer, faults, listVars, buyVars, ackVars, req, cleanup, sent>>

OfferChanges(o) ==
  /\ offer[o] # "gone"
  /\ offer' = [offer EXCEPT ![o] = IF @ = "current" THEN "expired" ELSE "gone"]
  /\ UNCHANGED <<direct, members, faults, listVars, buyVars, ackVars, req, cleanup, sent>>

Restart ==
  /\ faults < MaxFaults
  /\ faults' = faults + 1
  /\ req' = [r \in Requests |-> None]
  /\ cleanup' = None
  /\ UNCHANGED <<direct, members, offer, listVars, buyVars, ackVars, sent>>

Handle(r) ==
  \/ RecordOperation(r) \/ AppendDirectly(r) \/ AppendByFunction(r)
  \/ RemoveItem(r) \/ WriteItems(r) \/ UpdateItem(r)
  \/ InsertPurchase(r) \/ ErasePurchase(r)

Receive(r, u) ==
  \/ StartRemovePurchased(r, u) \/ StartReset(r, u) \/ StartClearStale(r, u)
  \/ \E i \in Items :
       \/ StartToggle(r, u, i) \/ StartRemove(r, u, i) \/ StartUndo(r, u, i)
       \/ \E b \in BOOLEAN : StartAdd(r, u, i, b) \/ StartPurchase(r, u, i, b)
                             \/ StartCheck(r, u, i, b)
       \/ \E o \in Offers : StartPatch(r, u, i, o)

Next ==
  \/ \E r \in Requests : Handle(r) \/ \E u \in Users : Receive(r, u)
  \/ LoadForCleanup \/ SaveCleanup \/ Midnight \/ Restart
  \/ \E u \in Users : Leave(u)
  \/ \E o \in Offers : OfferChanges(o)

Spec == Init /\ [][Next]_vars
-----------------------------------------------------------------------------
TypeOK ==
  /\ direct \in BOOLEAN
  /\ members \subseteq Users
  /\ offer \in [Offers -> {"current", "expired", "gone"}]
  /\ items \in Array
  /\ used \in [Items -> {"no", "online", "offline"}]
  /\ opLog \subseteq Items
  /\ applied \in [Items -> Nat]
  /\ history \in [Items \X Users \X BOOLEAN -> Nat]
  /\ acked \subseteq Items
  /\ bought \subseteq Items \X Users
  /\ undone \subseteq Items \X Users
  /\ req \in [Requests -> Request \union {None}]
  /\ cleanup \in Array \union {None}
  /\ sent \in Nat
  /\ faults \in Nat

\* README.md:39: sending an addition again, at any moment and however many
\* attempts are running, does not add its item or its quantity twice.
AddedOnce == \A i \in Items : applied[i] <= 1

\* README.md:39: nor does sending a purchase again record it twice.
BoughtOnce == \A i \in Items, u \in Users : history[<<i, u, TRUE>>] <= 1

\* A purchase the client was told about is in the history until its buyer
\* undoes it: nothing else of the list deletes it.
AnsweredPurchaseKept ==
  \A k \in bought : history[<<k[1], k[2], TRUE>>] > 0 \/ k \in undone

\* An addition the client was told about took effect, if the server writes
\* through the functions of the database.
AnsweredAddKept == ~direct => \A i \in acked : applied[i] > 0

\* lists.py shows items by one computation and clears stale offers by another:
\* both mean the same items, and neither touches what is hidden from the user.
ViewAgrees ==
  \A u \in Users :
    Stale(u) = {i \in Items : /\ Live(i)
                              /\ Shown(u, i) # items[i]
                              /\ items[i].pin \notin Hidden(u)}

\* Whoever wrote the whole array: a handler or the cleanup thread.
WroteArray ==
  \/ cleanup # None /\ cleanup' = None /\ items' = cleanup
  \/ \E r \in Requests : At(r, "write") /\ req'[r] = None

\* A patch, however late, does not bring back an item that is no longer in the
\* list, and a removal takes no other item along.
PatchesAreLocal ==
  [][\/ WroteArray
     \/ \A i \in Items :
          /\ items[i] = None /\ items'[i] # None => applied'[i] > applied[i]
          /\ items[i] # None /\ items'[i] = None =>
               \E r \in Requests : At(r, "remove") /\ req[r].item = i]_vars

\* Migration 20260617000000_initial_schema.sql:251, "atomic per-item patch to
\* avoid concurrent overwrites": who bought an item changes only by a purchase
\* or an undo, never by a check, a new offer or a cleared one computed before.
PurchaseNotOverwritten ==
  [][\/ WroteArray
     \/ \A i \in Items :
          items[i] # None /\ items'[i] # None /\ items[i].buyer # items'[i].buyer =>
            \E r \in Requests : /\ At(r, "update")
                                /\ req[r].op \in {"buy", "undo"}
                                /\ req[r].item = i]_vars
-----------------------------------------------------------------------------
\* tests/test_lists_quantity.py:467, "forwards_client_operation_id_to_atomic_append".
AppendIsAtomic == \A i \in acked : applied[i] > 0

\* services/purchased_items_cleanup.py:1, "nightly removal of stale purchased
\* list items": the cleanup takes nothing else out of the list.
CleanupTakesPurchasedOnly ==
  [][cleanup # None /\ cleanup' = None /\ faults' = faults =>
       \A i \in Items : items[i] # None /\ items'[i] = None => items[i].buyer # None]_vars
=============================================================================
