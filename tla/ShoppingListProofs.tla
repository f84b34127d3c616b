-------------------------- MODULE ShoppingListProofs --------------------------
(***************************************************************************)
(* Theorems about ShoppingList, for any members, items, offers, requests,  *)
(* deployments and bounds.                                                 *)
(***************************************************************************)
EXTENDS ShoppingList, TLAPS

\* What a handler carries: the value of a patch is one of its field, who bought
\* an item is patched by purchases and undos, and each step has its operation.
Wellformed(q) ==
  /\ q \in Request
  /\ q.patch.value \in (IF q.patch.field = "pin" THEN Offers ELSE Users) \union {None}
  /\ q.patch.field = "buyer" => q.op \in {"buy", "undo"}
  /\ q.pc \in {"record", "append"} => q.op = "add"
  /\ q.pc = "insert" => q.op = "buy"
  /\ q.pc = "erase" => q.op = "undo"
  /\ q.op = "rewrite" => q.pc = "write"
  /\ q.op \notin {"rewrite", "clear"} => q.item \in Items

\* Requests that neither add an item nor buy one.
Plain(q) == Wellformed(q) /\ q.op \notin {"add", "buy"}

ReqInv == \A r \in Requests : req[r] # None => Wellformed(req[r])
TypeInv == TypeOK /\ ReqInv

PlainStart(r, u) ==
  \/ StartRemovePurchased(r, u) \/ StartReset(r, u) \/ StartClearStale(r, u)
  \/ \E i \in Items :
       \/ StartToggle(r, u, i) \/ StartRemove(r, u, i) \/ StartUndo(r, u, i)
       \/ \E b \in BOOLEAN : StartCheck(r, u, i, b)
       \/ \E o \in Offers : StartPatch(r, u, i, o)

\* What is left of an array is an array.
LEMMA ArraysLeft ==
  ASSUME TypeOK
  PROVE  Remaining \in Array /\ Kept \in Array /\ NoItems \in Array
  BY DEF TypeOK, Array, Remaining, Kept, NoItems

\* A new request has the type of one.
LEMMA NewRequest ==
  ASSUME NEW op \in {"add", "update", "remove", "rewrite", "buy", "undo", "clear"},
         NEW u \in Users, NEW i \in Items \union {None},
         NEW pc \in {"record", "append", "insert", "update", "remove", "write", "erase"}
  PROVE  /\ New(op, u, i, pc) \in Request
         /\ New(op, u, i, pc).op = op /\ New(op, u, i, pc).user = u
         /\ New(op, u, i, pc).item = i /\ New(op, u, i, pc).pc = pc
         /\ New(op, u, i, pc).patch = NoPatch
  BY DEF New, Request, NoPatch, NoItems, Array, Patch, Field

\* A new request with a patch of its own.
LEMMA PatchedRequest ==
  ASSUME NEW q \in Request, NEW p \in Patch
  PROVE  /\ [q EXCEPT !.patch = p] \in Request
         /\ [q EXCEPT !.patch = p].patch = p
         /\ [q EXCEPT !.patch = p].op = q.op
         /\ [q EXCEPT !.patch = p].pc = q.pc
         /\ [q EXCEPT !.patch = p].item = q.item
  BY DEF Request

\* Every other request starts as a plain one and changes nothing else.
LEMMA PlainStarts ==
  ASSUME TypeOK, NEW r \in Requests, NEW u \in Users, PlainStart(r, u)
  PROVE  \E q : Plain(q) /\ Start(r, q)
                /\ UNCHANGED <<envVars, listVars, buyVars, ackVars, cleanup>>
<1> USE DEF Plain, Wellformed
<1>1. CASE StartRemovePurchased(r, u)
  <2> DEFINE q == [New("rewrite", u, None, "write") EXCEPT !.saved = Remaining]
  <2>1. Plain(q)
    BY ArraysLeft DEF New, Request, NoPatch, NoItems, Array, Patch, Field
  <2> QED BY <1>1, <2>1 DEF StartRemovePurchased
<1>2. CASE StartReset(r, u)
  <2> DEFINE q == New("rewrite", u, None, "write")
  <2>1. Plain(q)
    BY NewRequest DEF NoPatch
  <2> QED BY <1>2, <2>1 DEF StartReset
<1>3. CASE StartClearStale(r, u)
  <2> DEFINE q == [New("clear", u, None, "update") EXCEPT !.todo = Stale(u)]
  <2>1. Stale(u) \subseteq Items
    BY DEF Stale
  <2>2. Plain(q)
    BY <2>1 DEF New, Request, NoPatch, NoItems, Array, Patch, Field
  <2> QED BY <1>3, <2>2 DEF StartClearStale
<1>4. ASSUME NEW i \in Items,
             \/ StartToggle(r, u, i)
             \/ \E b \in BOOLEAN : StartCheck(r, u, i, b)
             \/ \E o \in Offers : StartPatch(r, u, i, o)
      PROVE  \E q : Plain(q) /\ Start(r, q)
                    /\ UNCHANGED <<envVars, listVars, buyVars, ackVars, cleanup>>
  <2> DEFINE q(p) == [New("update", u, i, "update") EXCEPT !.patch = p]
  <2>1. \A b \in BOOLEAN : Plain(q(CheckPatch(u, b)))
    BY NewRequest, PatchedRequest DEF CheckPatch, Patch, Field
  <2>2. \A o \in Offers : Plain(q(SelectedOfferPatch(o)))
    BY NewRequest, PatchedRequest DEF SelectedOfferPatch, Patch, Field
  <2> QED BY <1>4, <2>1, <2>2 DEF StartToggle, StartCheck, StartPatch
<1>5. ASSUME NEW i \in Items, StartRemove(r, u, i)
      PROVE  \E q : Plain(q) /\ Start(r, q)
                    /\ UNCHANGED <<envVars, listVars, buyVars, ackVars, cleanup>>
  <2> DEFINE q == New("remove", u, i, "remove")
  <2>1. Plain(q)
    BY NewRequest DEF NoPatch
  <2> QED BY <1>5, <2>1 DEF StartRemove
<1>6. ASSUME NEW i \in Items, StartUndo(r, u, i)
      PROVE  \E q : Plain(q) /\ Start(r, q)
                    /\ UNCHANGED <<envVars, listVars, buyVars, ackVars, cleanup>>
  <2> DEFINE q == [New("undo", u, i, "update") EXCEPT !.patch = PurchasePatch(None)]
  <2>1. Plain(q)
    BY NewRequest, PatchedRequest DEF PurchasePatch, Patch, Field
  <2> QED BY <1>6, <2>1 DEF StartUndo
<1> QED BY <1>1, <1>2, <1>3, <1>4, <1>5, <1>6 DEF PlainStart

\* A purchase starts as a well-formed request, whose update holds a purchase.
LEMMA PurchaseStarts ==
  ASSUME TypeOK, NEW r \in Requests, NEW u \in Users, NEW i \in Items, NEW b \in BOOLEAN,
         StartPurchase(r, u, i, b)
  PROVE  \E q : /\ Wellformed(q) /\ Start(r, q)
                /\ q.op = "buy" /\ q.item = i /\ q.user = u /\ q.offline = b
                /\ q.pc \in {"insert", "update"}
                /\ q.pc = "update" => b /\ ExistingPurchase(u, i)
                /\ UNCHANGED <<envVars, listVars, buyVars, ackVars, cleanup>>
<1> DEFINE pc == IF b /\ ExistingPurchase(u, i) THEN "update" ELSE "insert"
           n == New("buy", u, i, pc)
           q == [n EXCEPT !.offline = b, !.patch = PurchasePatch(u)]
<1>1. n \in Request /\ n.op = "buy" /\ n.user = u /\ n.item = i /\ n.pc = pc
  BY NewRequest
<1>2. PurchasePatch(u) \in Patch /\ PurchasePatch(u).field = "buyer" /\ PurchasePatch(u).value = u
  BY DEF PurchasePatch, Patch, Field
<1>3. /\ q \in Request /\ q.op = "buy" /\ q.user = u /\ q.item = i /\ q.pc = pc
      /\ q.offline = b /\ q.patch = PurchasePatch(u)
  BY <1>1, <1>2 DEF Request
<1>4. Wellformed(q)
  BY <1>2, <1>3 DEF Wellformed
<1>5. Start(r, q) /\ UNCHANGED <<envVars, listVars, buyVars, ackVars, cleanup>>
  BY DEF StartPurchase
<1>6. pc \in {"insert", "update"} /\ (pc = "update" => b /\ ExistingPurchase(u, i))
  OBVIOUS
<1> HIDE DEF q, pc, n
<1> QED BY <1>3, <1>4, <1>5, <1>6

\* An addition starts as a well-formed request.
LEMMA AddStarts ==
  ASSUME NEW r \in Requests, NEW u \in Users, NEW i \in Items, NEW b \in BOOLEAN,
         StartAdd(r, u, i, b)
  PROVE  \E q : /\ Wellformed(q) /\ Start(r, q)
                /\ q.op = "add" /\ q.item = i /\ q.offline = b
                /\ q.pc = IF direct /\ b THEN "record" ELSE "append"
<1> DEFINE pc == IF direct /\ b THEN "record" ELSE "append"
           n == New("add", u, i, pc)
           q == [n EXCEPT !.offline = b]
<1>1. /\ n \in Request /\ n.op = "add" /\ n.user = u /\ n.item = i /\ n.pc = pc
      /\ n.patch = NoPatch
  BY NewRequest
<1>2. /\ q \in Request /\ q.op = "add" /\ q.item = i /\ q.pc = pc /\ q.offline = b
      /\ q.patch = NoPatch
  BY <1>1 DEF Request
<1>3. Wellformed(q)
  BY <1>2 DEF Wellformed, NoPatch
<1> QED BY <1>2, <1>3 DEF StartAdd
-----------------------------------------------------------------------------
StartSteps(r) ==
  \E u \in Users :
    \/ PlainStart(r, u)
    \/ \E i \in Items, b \in BOOLEAN : StartAdd(r, u, i, b) \/ StartPurchase(r, u, i, b)

\* A request that starts is well formed.
LEMMA ReqStarts ==
  ASSUME TypeInv, NEW r \in Requests, StartSteps(r)
  PROVE  /\ ReqInv' /\ req' \in [Requests -> Request \union {None}]
         /\ sent' \in Nat
<1>1. \E q : Wellformed(q) /\ Start(r, q)
  BY PlainStarts, PurchaseStarts, AddStarts DEF StartSteps, Plain, TypeInv
<1>2. PICK q : Wellformed(q) /\ Start(r, q)
  BY <1>1
<1>3. req' \in [Requests -> Request \union {None}] /\ sent' \in Nat
  BY <1>2 DEF Start, TypeInv, TypeOK, Wellformed
<1>4. ASSUME NEW s \in Requests, req'[s] # None PROVE Wellformed(req'[s])
  BY <1>2, <1>4 DEF Start, TypeInv, TypeOK, ReqInv
<1>5. ReqInv'
  BY <1>4 DEF ReqInv, Wellformed
<1> QED BY <1>3, <1>5

\* A request that goes on, or ends, stays well formed.
LEMMA ReqSteps ==
  ASSUME TypeInv, NEW r \in Requests, req[r] # None,
         \/ End(r)
         \/ \E pc \in {"append", "update", "erase"} :
              Goto(r, pc) /\ req[r].pc # "write" /\ (pc = "append" => req[r].op = "add")
                         /\ (pc = "erase" => req[r].op = "undo")
         \/ \E i \in Items : req' = [req EXCEPT ![r].todo = @ \ {i}]
  PROVE  ReqInv' /\ req' \in [Requests -> Request \union {None}]
<1>1. Wellformed(req[r]) /\ req \in [Requests -> Request \union {None}]
  BY DEF TypeInv, ReqInv, TypeOK
<1>2. ASSUME NEW q, Wellformed(q) \/ q = None, req' = [req EXCEPT ![r] = q]
      PROVE  ReqInv' /\ req' \in [Requests -> Request \union {None}]
  <2>1. req' \in [Requests -> Request \union {None}]
    BY <1>1, <1>2 DEF Wellformed
  <2>2. ASSUME NEW s \in Requests, req'[s] # None PROVE Wellformed(req'[s])
    BY <1>1, <1>2, <2>2 DEF TypeInv, ReqInv
  <2> QED BY <2>1, <2>2 DEF ReqInv, Wellformed
<1>3. CASE End(r)
  BY <1>2, <1>3 DEF End
<1>4. ASSUME NEW pc \in {"append", "update", "erase"}, Goto(r, pc), req[r].pc # "write",
             pc = "append" => req[r].op = "add", pc = "erase" => req[r].op = "undo"
      PROVE  ReqInv' /\ req' \in [Requests -> Request \union {None}]
  <2> DEFINE q == [req[r] EXCEPT !.pc = pc]
  <2>1. Wellformed(q)
    BY <1>1, <1>4 DEF Wellformed, Request
  <2>2. req' = [req EXCEPT ![r] = q]
    BY <1>4 DEF Goto
  <2> QED BY <1>2, <2>1, <2>2
<1>5. ASSUME NEW i \in Items, req' = [req EXCEPT ![r].todo = @ \ {i}]
      PROVE  ReqInv' /\ req' \in [Requests -> Request \union {None}]
  <2> DEFINE q == [req[r] EXCEPT !.todo = @ \ {i}]
  <2>1. Wellformed(q)
    BY <1>1 DEF Wellformed, Request
  <2>2. req' = [req EXCEPT ![r] = q]
    BY <1>5
  <2> QED BY <1>2, <2>1, <2>2
<1> QED BY <1>3, <1>4, <1>5

\* A well-formed patch of an item leaves an item, of an array an array.
LEMMA PatchedType ==
  ASSUME NEW x \in Item, NEW q, NEW old \in BOOLEAN, Wellformed(q)
  PROVE  Patched(x, q.patch, old) \in Item
  BY DEF Patched, Item, Wellformed, Request, Patch, Field

LEMMA UpdatedType ==
  ASSUME TypeOK, NEW q, NEW i \in Items, NEW old \in BOOLEAN, Wellformed(q)
  PROVE  Updated(i, q.patch, old) \in Array
<1> USE DEF TypeOK, Array
<1>1. CASE Live(i)
  <2>1. items[i] \in Item
    BY <1>1 DEF Live
  <2>2. Patched(items[i], q.patch, old) \in Item
    BY <2>1, PatchedType
  <2> QED BY <1>1, <2>2 DEF Updated
<1> QED BY <1>1 DEF Updated

\* So do an addition, a removal and midnight.
LEMMA ItemsChanged ==
  ASSUME TypeOK
  PROVE  /\ \A i \in Items : Appended(i) \in Array /\ Removed(i) \in Array
         /\ [i \in Items |-> IF Live(i) /\ items[i].buyer # None
                             THEN [items[i] EXCEPT !.old = TRUE] ELSE items[i]] \in Array
<1> USE DEF TypeOK, Array
<1>1. \A i \in Items : Appended(i) \in Array /\ Removed(i) \in Array
  BY ConstantsAssumption DEF Appended, Removed, NewItem, Item
<1>2. ASSUME NEW i \in Items, Live(i) PROVE [items[i] EXCEPT !.old = TRUE] \in Item
  BY <1>2 DEF Live, Item
<1> QED BY <1>1, <1>2
-----------------------------------------------------------------------------
\* The state is well typed at first.
LEMMA TypeInit == Init => TypeInv
  BY ConstantsAssumption DEF Init, TypeInv, TypeOK, ReqInv, NoItems, Array

\* A request that starts keeps the state well typed.
LEMMA TypeStarts ==
  ASSUME TypeInv, NEW r \in Requests, StartSteps(r)
  PROVE  TypeInv'
<1>1. /\ UNCHANGED <<envVars, items, opLog, applied, buyVars, ackVars, cleanup>>
      /\ used' \in [Items -> {"no", "online", "offline"}]
  <2>1. ASSUME NEW u \in Users, PlainStart(r, u)
        PROVE  UNCHANGED <<envVars, listVars, buyVars, ackVars, cleanup>>
    BY <2>1, PlainStarts DEF TypeInv
  <2>2. ASSUME NEW u \in Users, NEW i \in Items, NEW b \in BOOLEAN,
               StartAdd(r, u, i, b) \/ StartPurchase(r, u, i, b)
        PROVE  <1>1!1 /\ <1>1!2
    BY <2>2 DEF StartAdd, StartPurchase, listVars, TypeInv, TypeOK
  <2> QED BY <2>1, <2>2 DEF StartSteps, listVars, TypeInv, TypeOK
<1> QED BY <1>1, ReqStarts DEF TypeInv, TypeOK, envVars, buyVars, ackVars

\* A statement of a handler keeps the state well typed.
LEMMA TypeHandle ==
  ASSUME TypeInv, NEW r \in Requests, Handle(r)
  PROVE  TypeInv'
<1> USE DEF TypeInv, envVars, listVars, buyVars, ackVars
<1> DEFINE q == req[r]
<1>1. req[r] # None
  BY DEF Handle, At, RecordOperation, AppendDirectly, AppendByFunction, RemoveItem,
         WriteItems, UpdateItem, InsertPurchase, ErasePurchase
<1>2. Wellformed(q) /\ q.user \in Users /\ q.saved \in Array /\ q.todo \subseteq Items
      /\ q.offline \in BOOLEAN
  BY <1>1 DEF ReqInv, Wellformed, Request
<1>3. CASE RecordOperation(r)
  <2>1. q.item \in Items /\ q.op = "add"
    BY <1>2, <1>3 DEF RecordOperation, At, Wellformed
  <2>2. ReqInv' /\ req' \in [Requests -> Request \union {None}]
    BY <1>1, <1>3, <2>1, ReqSteps DEF RecordOperation, At
  <2> QED BY <1>3, <2>1, <2>2 DEF RecordOperation, Ack, TypeOK
<1>4. CASE AppendDirectly(r) \/ AppendByFunction(r)
  <2>1. q.item \in Items
    BY <1>2, <1>4 DEF AppendDirectly, AppendByFunction, At, Wellformed
  <2>2. ReqInv' /\ req' \in [Requests -> Request \union {None}]
    BY <1>1, <1>4, ReqSteps DEF AppendDirectly, AppendByFunction
  <2>3. Appended(q.item) \in Array
    BY <2>1, ItemsChanged
  <2>4. CASE AppendDirectly(r)
    BY <2>1, <2>2, <2>3, <2>4 DEF AppendDirectly, Ack, TypeOK
  <2>5. CASE AppendByFunction(r)
    BY <2>1, <2>2, <2>3, <2>5 DEF AppendByFunction, Ack, TypeOK
  <2> QED BY <1>4, <2>4, <2>5
<1>5. CASE RemoveItem(r)
  <2>1. Removed(q.item) \in Array
    BY DEF Removed, TypeOK, Array
  <2>2. ReqInv' /\ req' \in [Requests -> Request \union {None}]
    BY <1>1, <1>5, ReqSteps DEF RemoveItem
  <2> QED BY <1>5, <2>1, <2>2 DEF RemoveItem, TypeOK
<1>6. CASE WriteItems(r)
  <2>1. ReqInv' /\ req' \in [Requests -> Request \union {None}]
    BY <1>1, <1>6, ReqSteps DEF WriteItems
  <2> QED BY <1>2, <1>6, <2>1 DEF WriteItems, TypeOK
<1>7. CASE UpdateItem(r)
  <2>1. PICK i \in Target(r), old \in BOOLEAN :
          IF MayWrite(q.user) THEN
            IF items = NoItems
            THEN End(r) /\ UNCHANGED <<items, bought>>
            ELSE /\ items' = Updated(i, q.patch, old)
                 /\ AfterUpdate(r, i)
                 /\ bought' = bought \/ bought' = bought \union {<<i, q.user>>}
          ELSE AfterUpdate(r, i) /\ UNCHANGED <<items, bought>>
    BY <1>7 DEF UpdateItem, Ack
  <2>2. i \in Items
    <3>1. q.op = "clear" \/ q.item \in Items
      BY <1>2, <1>7 DEF UpdateItem, At, Wellformed
    <3> QED BY <1>2, <2>1, <3>1 DEF Target
  <2>3. ReqInv' /\ req' \in [Requests -> Request \union {None}]
    BY <1>1, <1>7, <2>1, <2>2, ReqSteps DEF AfterUpdate, UpdateItem, At
  <2>4. items' \in Array /\ bought' \subseteq Items \X Users
    <3>1. Updated(i, q.patch, old) \in Array
      BY <1>2, <2>2, UpdatedType
    <3>2. items \in Array /\ bought \subseteq Items \X Users
      BY DEF TypeOK
    <3> HIDE DEF TypeInv, q
    <3>3. items' = Updated(i, q.patch, old) \/ items' = items
      BY <2>1
    <3>4. bought' = bought \/ bought' = bought \union {<<i, q.user>>}
      BY <2>1
    <3>5. bought' \subseteq Items \X Users
      BY <1>2, <2>2, <3>2, <3>4
    <3> QED BY <3>1, <3>2, <3>3, <3>5
  <2> QED BY <1>7, <2>3, <2>4 DEF UpdateItem, TypeOK
<1>8. CASE InsertPurchase(r)
  <2>1. ReqInv' /\ req' \in [Requests -> Request \union {None}]
    BY <1>1, <1>8, ReqSteps DEF InsertPurchase, At
  <2>2. history' \in [Items \X Users \X BOOLEAN -> Nat]
    BY <1>2, <1>8 DEF InsertPurchase, TypeOK
  <2> QED BY <1>8, <2>1, <2>2 DEF InsertPurchase, TypeOK
<1>9. CASE ErasePurchase(r)
  <2>1. ReqInv' /\ req' \in [Requests -> Request \union {None}]
    BY <1>1, <1>9, ReqSteps DEF ErasePurchase
  <2>2. history' \in [Items \X Users \X BOOLEAN -> Nat]
    BY <1>9 DEF ErasePurchase, TypeOK
  <2>3. q.item \in Items
    BY <1>2, <1>9 DEF ErasePurchase, At, Wellformed
  <2>4. undone' \subseteq Items \X Users
    BY <1>2, <1>9, <2>3 DEF ErasePurchase, TypeOK
  <2> QED BY <1>9, <2>1, <2>2, <2>4 DEF ErasePurchase, TypeOK
<1> QED BY <1>3, <1>4, <1>5, <1>6, <1>7, <1>8, <1>9 DEF Handle

\* So does everything else.
Around ==
  \/ LoadForCleanup \/ SaveCleanup \/ Midnight \/ Restart
  \/ \E u \in Users : Leave(u)
  \/ \E o \in Offers : OfferChanges(o)

LEMMA TypeAround ==
  ASSUME TypeInv, Around \/ UNCHANGED vars
  PROVE  TypeInv'
<1> USE DEF TypeInv, envVars, listVars, buyVars, ackVars, TypeOK, ReqInv, Wellformed
<1>1. CASE LoadForCleanup
  BY <1>1, ArraysLeft DEF LoadForCleanup
<1>2. CASE SaveCleanup
  BY <1>2 DEF SaveCleanup
<1>3. CASE Midnight
  BY <1>3, ItemsChanged DEF Midnight
<1>4. CASE Restart
  BY <1>4 DEF Restart
<1>5. CASE \E u \in Users : Leave(u)
  BY <1>5 DEF Leave
<1>6. CASE \E o \in Offers : OfferChanges(o)
  BY <1>6 DEF OfferChanges
<1>7. CASE UNCHANGED vars
  BY <1>7 DEF vars
<1> QED BY <1>1, <1>2, <1>3, <1>4, <1>5, <1>6, <1>7 DEF Around

\* The kinds of step the proofs tell apart.
LEMMA NextCases ==
  ASSUME [Next]_vars
  PROVE  \/ \E r \in Requests : StartSteps(r) \/ Handle(r)
         \/ Around \/ UNCHANGED vars
  BY DEF Next, Receive, StartSteps, PlainStart, Around

LEMMA TypeNext == TypeInv /\ [Next]_vars => TypeInv'
  BY NextCases, TypeStarts, TypeHandle, TypeAround

\* Type correctness: items, purchases, requests and the cleanup's array hold
\* what their columns do, whatever requests interleave.
THEOREM TypeCorrect == Spec => []TypeOK
<1>1. Spec => []TypeInv
  BY TypeInit, TypeNext, PTL DEF Spec
<1>2. TypeInv => TypeOK
  BY DEF TypeInv
<1> QED BY <1>1, <1>2, PTL
-----------------------------------------------------------------------------
\* A purchase is recorded, or was undone by its buyer.
Held(i, u) == history[<<i, u, TRUE>>] > 0 \/ <<i, u>> \in undone

\* Before an offline purchase patches its item it is recorded.
BuyInv ==
  /\ BoughtOnce
  /\ \A k \in bought : Held(k[1], k[2])
  /\ \A r \in Requests : At(r, "update") /\ req[r].op = "buy" /\ req[r].offline =>
       Held(req[r].item, req[r].user)

\* Only the insertion of a purchase and its undo change the history.
LEMMA OtherSteps ==
  ASSUME TypeInv, [Next]_vars
  PROVE  \/ \E r \in Requests : InsertPurchase(r) \/ ErasePurchase(r)
         \/ UNCHANGED buyVars
<1> USE DEF buyVars
<1>1. ASSUME NEW r \in Requests, StartSteps(r) PROVE UNCHANGED buyVars
  BY <1>1, PlainStarts DEF StartSteps, StartAdd, StartPurchase, TypeInv
<1>2. ASSUME NEW r \in Requests, Handle(r)
      PROVE  InsertPurchase(r) \/ ErasePurchase(r) \/ UNCHANGED buyVars
  BY <1>2 DEF Handle, RecordOperation, AppendDirectly, AppendByFunction, RemoveItem,
              WriteItems, UpdateItem
<1>3. CASE Around \/ UNCHANGED vars
  BY <1>3 DEF Around, LoadForCleanup, SaveCleanup, Midnight, Restart, Leave, OfferChanges,
              vars
<1> QED BY <1>1, <1>2, <1>3, NextCases

LEMMA HistoryType ==
  ASSUME TypeOK
  PROVE  /\ history \in [Items \X Users \X BOOLEAN -> Nat]
         /\ \A i \in Items, u \in Users : /\ <<i, u, TRUE>> \in Items \X Users \X BOOLEAN
                                         /\ history[<<i, u, TRUE>>] \in Nat
<1>1. history \in [Items \X Users \X BOOLEAN -> Nat]
  BY DEF TypeOK
<1> QED BY <1>1

\* A row is inserted for the request's item and user, unless it is there.
LEMMA Inserted ==
  ASSUME TypeInv, NEW r \in Requests, InsertPurchase(r), NEW i \in Items, NEW u \in Users
  PROVE  /\ \/ history'[<<i, u, TRUE>>] = history[<<i, u, TRUE>>]
            \/ history'[<<i, u, TRUE>>] = 1
         /\ req'[r] # None /\ req[r].offline /\ req[r].item = i /\ req[r].user = u
              => history'[<<i, u, TRUE>>] = 1
<1> DEFINE k == <<i, u, TRUE>>
           j == <<req[r].item, req[r].user, req[r].offline>>
<1>1. req[r] # None /\ req[r].offline \in BOOLEAN
  BY DEF InsertPurchase, At, TypeInv, ReqInv, Wellformed, Request
<1>2. history \in [Items \X Users \X BOOLEAN -> Nat] /\ k \in Items \X Users \X BOOLEAN
      /\ history[k] \in Nat
  BY HistoryType DEF TypeInv
<1>3. j = k <=> req[r].offline = TRUE /\ req[r].item = i /\ req[r].user = u
  OBVIOUS
<1>4. \/ req[r].offline /\ history[j] > 0 /\ End(r) /\ history' = history
      \/ /\ ~(req[r].offline /\ history[j] > 0)
         /\ Goto(r, "update") /\ history' = [history EXCEPT ![j] = @ + 1]
  BY DEF InsertPurchase
<1>5. End(r) => req'[r] = None
  BY DEF End, TypeInv, TypeOK
<1>6. CASE ~(req[r].offline /\ history[j] > 0)
  <2>1. history' = [history EXCEPT ![j] = @ + 1]
    BY <1>4, <1>6
  <2>2. CASE j = k
    BY <1>2, <1>3, <1>6, <2>1, <2>2
  <2>3. CASE j # k
    <3>1. history'[k] = history[k]
      BY <1>2, <2>1, <2>3
    <3> QED BY <1>3, <2>3, <3>1
  <2> QED BY <2>2, <2>3
<1>7. CASE req[r].offline /\ history[j] > 0
  BY <1>4, <1>5, <1>7
<1> QED BY <1>6, <1>7

\* What is held stays held, and no second row of one operation is inserted.
LEMMA HistoryNext ==
  ASSUME TypeInv, BoughtOnce, [Next]_vars
  PROVE  /\ BoughtOnce'
         /\ \A i \in Items, u \in Users : Held(i, u) => Held(i, u)'
<1> SUFFICES ASSUME NEW i \in Items, NEW u \in Users
             PROVE  history'[<<i, u, TRUE>>] <= 1 /\ (Held(i, u) => Held(i, u)')
  BY DEF BoughtOnce
<1> DEFINE k == <<i, u, TRUE>>
<1>1. history[k] <= 1 /\ history[k] \in Nat
  BY HistoryType DEF BoughtOnce, TypeInv
<1>2. ASSUME NEW r \in Requests, InsertPurchase(r)
      PROVE  UNCHANGED undone /\ (history'[k] = history[k] \/ history'[k] = 1)
  BY <1>2, Inserted DEF InsertPurchase
<1>3. ASSUME NEW r \in Requests, ErasePurchase(r)
      PROVE  /\ undone \subseteq undone'
             /\ \/ history'[k] = history[k]
                \/ history'[k] = 0 /\ <<i, u>> \in undone'
  <2>1. history' = [x \in DOMAIN history |->
                      IF x[1] = req[r].item /\ x[2] = req[r].user THEN 0 ELSE history[x]]
        /\ undone' = undone \union {<<req[r].item, req[r].user>>}
    BY <1>3 DEF ErasePurchase
  <2>2. k \in DOMAIN history /\ k[1] = i /\ k[2] = u
    BY HistoryType DEF TypeInv
  <2> HIDE DEF k
  <2>3. history'[k] = IF i = req[r].item /\ u = req[r].user THEN 0 ELSE history[k]
    BY <2>1, <2>2
  <2>4. CASE i = req[r].item /\ u = req[r].user
    BY <2>1, <2>3, <2>4
  <2>5. CASE ~(i = req[r].item /\ u = req[r].user)
    <3>1. history'[k] = history[k]
      BY <2>3, <2>5
    <3>2. undone \subseteq undone'
      BY <2>1
    <3> QED BY <3>1, <3>2
  <2> QED BY <2>4, <2>5
<1>4. CASE UNCHANGED buyVars
  BY <1>1, <1>4 DEF buyVars, Held
<1> HIDE DEF k
<1>5. ASSUME /\ undone \subseteq undone'
             /\ \/ history'[k] = history[k] \/ history'[k] = 1
                \/ history'[k] = 0 /\ <<i, u>> \in undone'
      PROVE  history'[k] <= 1 /\ (Held(i, u) => Held(i, u)')
  BY <1>1, <1>5 DEF Held, k
<1> QED BY <1>2, <1>3, <1>4, <1>5, OtherSteps DEF k

\* A purchase the client is told about is held.
LEMMA BoughtNext ==
  ASSUME TypeInv, BuyInv, [Next]_vars, NEW k \in bought'
  PROVE  Held(k[1], k[2])'
<1>1. \/ k \in bought
      \/ \E r \in Requests : /\ At(r, "update") /\ req[r].op = "buy" /\ req[r].offline
                            /\ k = <<req[r].item, req[r].user>>
  <2>1. ASSUME NEW r \in Requests, StartSteps(r) PROVE bought' = bought
    BY <2>1, PlainStarts DEF StartSteps, StartAdd, StartPurchase, TypeInv, ackVars
  <2>2. ASSUME NEW r \in Requests, Handle(r), ~UpdateItem(r) PROVE bought' = bought
    BY <2>2 DEF Handle, RecordOperation, AppendDirectly, AppendByFunction, RemoveItem,
                WriteItems, InsertPurchase, ErasePurchase, ackVars
  <2>3. CASE Around \/ UNCHANGED vars
    BY <2>3 DEF Around, LoadForCleanup, SaveCleanup, Midnight, Restart, Leave, OfferChanges,
                vars, ackVars
  <2>4. ASSUME NEW r \in Requests, UpdateItem(r) PROVE <1>1
    BY <2>4 DEF UpdateItem, Ack, Target
  <2> QED BY <2>1, <2>2, <2>3, <2>4, NextCases
<1>2. CASE k \in bought
  BY <1>2, HistoryNext DEF BuyInv, TypeInv, TypeOK
<1>3. ASSUME NEW r \in Requests, At(r, "update"), req[r].op = "buy", req[r].offline,
             k = <<req[r].item, req[r].user>>
      PROVE  Held(k[1], k[2])'
  <2>1. req[r].item \in Items /\ req[r].user \in Users
    BY <1>3 DEF At, TypeInv, ReqInv, Wellformed, Request
  <2> QED BY <1>3, <2>1, HistoryNext DEF BuyInv
<1> QED BY <1>1, <1>2, <1>3

\* A request that patches a bought item has recorded its purchase.
LEMMA UpdatesNext ==
  ASSUME TypeInv, BuyInv, [Next]_vars, NEW s \in Requests,
         At(s, "update")', req'[s].op = "buy", req'[s].offline
  PROVE  Held(req[s].item, req[s].user)'
<1>0. req'[s].item \in Items /\ req'[s].user \in Users
  BY TypeNext DEF At, TypeInv, ReqInv, Wellformed, Request
<1> SUFFICES ASSUME NEW i \in Items, NEW u \in Users, i = req'[s].item, u = req'[s].user
             PROVE  Held(i, u)'
  BY <1>0 DEF Held
<1>2. CASE req'[s] = req[s]
  BY <1>2, HistoryNext DEF BuyInv, At
<1>3. ASSUME NEW r \in Requests, StartSteps(r), req'[s] # req[s] PROVE Held(i, u)'
  <2>1. PICK v \in Users :
          \/ PlainStart(r, v)
          \/ \E j \in Items, b \in BOOLEAN : StartAdd(r, v, j, b) \/ StartPurchase(r, v, j, b)
    BY <1>3 DEF StartSteps
  <2>2. ASSUME NEW q, Start(r, q) PROVE req'[s] = q
    BY <1>3, <2>2 DEF Start, TypeInv, TypeOK
  <2>3. CASE PlainStart(r, v)
    BY <2>2, <2>3, PlainStarts DEF Plain, TypeInv
  <2>4. ASSUME NEW j \in Items, NEW b \in BOOLEAN, StartAdd(r, v, j, b) PROVE FALSE
    BY <2>2, <2>4, AddStarts
  <2>5. ASSUME NEW j \in Items, NEW b \in BOOLEAN, StartPurchase(r, v, j, b) PROVE Held(i, u)'
    <3>1. /\ i = j /\ u = v /\ ExistingPurchase(u, i) /\ UNCHANGED buyVars
      BY <2>2, <2>5, PurchaseStarts DEF At, TypeInv
    <3>2. history' = history /\ history[<<i, u, TRUE>>] > 0
      BY <3>1 DEF ExistingPurchase, buyVars
    <3> QED BY <3>2 DEF Held
  <2> QED BY <2>1, <2>3, <2>4, <2>5
<1>4. ASSUME NEW r \in Requests, Handle(r), req'[s] # req[s] PROVE Held(i, u)'
  <2>1. CASE InsertPurchase(r)
    <3>1. s = r /\ Goto(r, "update") /\ req[r] \in Request
      BY <1>4, <2>1 DEF InsertPurchase, Goto, End, At, TypeInv, TypeOK
    <3>2. i = req[r].item /\ u = req[r].user /\ req[r].offline
      BY <3>1 DEF Goto, TypeInv, TypeOK, Request
    <3>3. history'[<<i, u, TRUE>>] = 1
      <4>1. req'[r] # None
        BY <3>1 DEF At
      <4>2. req[r].offline /\ req[r].item = i /\ req[r].user = u
        BY <3>2
      <4>3. /\ req'[r] # None /\ req[r].offline /\ req[r].item = i /\ req[r].user = u
                 => history'[<<i, u, TRUE>>] = 1
        BY <2>1, Inserted
      <4> QED BY <4>1, <4>2, <4>3, Zenon
    <3> QED BY <3>3 DEF Held
  <2>2. CASE ~InsertPurchase(r)
    BY <1>4, <2>2 DEF Handle, RecordOperation, AppendDirectly, AppendByFunction, RemoveItem,
         WriteItems, UpdateItem, ErasePurchase, AfterUpdate, Goto, End, At, TypeInv, TypeOK,
         Request
  <2> QED BY <2>1, <2>2
<1>5. ASSUME Around \/ UNCHANGED vars, req'[s] # req[s] PROVE FALSE
  BY <1>5 DEF Around, LoadForCleanup, SaveCleanup, Midnight, Restart, Leave, OfferChanges,
              vars, At
<1>6. CASE req'[s] # req[s]
  BY <1>3, <1>4, <1>5, <1>6, NextCases
<1> QED BY <1>2, <1>6

LEMMA BuyInit == Init => BuyInv
<1> SUFFICES ASSUME Init PROVE BuyInv
  OBVIOUS
<1>1. ASSUME NEW i \in Items, NEW u \in Users PROVE history[<<i, u, TRUE>>] <= 1
  <2>1. history[<<i, u, TRUE>>] = 0
    BY DEF Init
  <2> QED BY <2>1
<1>2. bought = {} /\ \A r \in Requests : req[r] = None
  BY DEF Init
<1> QED BY <1>1, <1>2 DEF BuyInv, BoughtOnce, At

LEMMA BuyNext == TypeInv /\ BuyInv /\ [Next]_vars => BuyInv'
  BY HistoryNext, BoughtNext, UpdatesNext DEF BuyInv

\* README.md:39, for any number of attempts, requests and restarts: an offline
\* purchase is in the history once (purchase_item).
THEOREM PurchasedOnce == Spec => []BoughtOnce
<1>1. Spec => [](TypeInv /\ BuyInv)
  BY TypeInit, TypeNext, BuyInit, BuyNext, PTL DEF Spec
<1>2. BuyInv => BoughtOnce
  BY DEF BuyInv
<1> QED BY <1>1, <1>2, PTL

\* A purchase whose request was answered stays in the history until its buyer
\* undoes it (purchase_item, undo_purchase).
THEOREM AnsweredPurchasesStay == Spec => []AnsweredPurchaseKept
<1>1. Spec => [](TypeInv /\ BuyInv)
  BY TypeInit, TypeNext, BuyInit, BuyNext, PTL DEF Spec
<1>2. TypeInv /\ BuyInv => AnsweredPurchaseKept
  <2> SUFFICES ASSUME TypeInv, BuyInv, NEW k \in bought
               PROVE  history[<<k[1], k[2], TRUE>>] > 0 \/ k \in undone
    BY DEF AnsweredPurchaseKept
  <2>1. k = <<k[1], k[2]>>
    BY DEF TypeInv, TypeOK
  <2> QED BY <2>1 DEF BuyInv, Held
<1> QED BY <1>1, <1>2, PTL
-----------------------------------------------------------------------------
Adding(r) == At(r, "record") \/ At(r, "append")

\* A request that appends without asking again is the only one to add its item.
OnlyWriter(r) ==
  /\ applied[req[r].item] = 0
  /\ req[r].offline => req[r].item \in opLog
  /\ \A s \in Requests \ {r} : At(s, "append") => req[s].item # req[r].item

\* An item is added under one kind of identifier, and a recorded operation is
\* what tells a second attempt that the first one has appended or is about to.
ItemOnce(i) ==
  /\ applied[i] <= 1
  /\ used[i] = "no" => applied[i] = 0
  /\ used[i] = "offline" /\ i \notin opLog => applied[i] = 0
RequestOnce(r) ==
  /\ Adding(r) => used[req[r].item] = IF req[r].offline THEN "offline" ELSE "online"
  /\ At(r, "record") => direct /\ req[r].offline
  /\ At(r, "append") /\ (direct \/ ~req[r].offline) => OnlyWriter(r)
OnceInv == (\A i \in Items : ItemOnce(i)) /\ (\A r \in Requests : RequestOnce(r))

\* Steps that add nothing: whoever adds an item afterwards did so before.
Quiet ==
  /\ UNCHANGED <<direct, used, opLog, applied>>
  /\ \A r \in Requests : Adding(r)' => req'[r] = req[r]

LEMMA OnceQuiet ==
  ASSUME OnceInv, Quiet
  PROVE  OnceInv'
<1>1. ASSUME NEW r \in Requests, At(r, "append")' PROVE At(r, "append") /\ req'[r] = req[r]
  BY <1>1 DEF Quiet, Adding, At
<1>2. ASSUME NEW r \in Requests, At(r, "record")' PROVE At(r, "record") /\ req'[r] = req[r]
  BY <1>2 DEF Quiet, Adding, At
<1>3. ASSUME NEW r \in Requests PROVE RequestOnce(r)'
  <2>1. RequestOnce(r)
    BY DEF OnceInv
  <2>2. ASSUME At(r, "append")', OnlyWriter(r) PROVE OnlyWriter(r)'
    BY <1>1, <2>2 DEF OnlyWriter, Quiet
  <2> QED BY <1>1, <1>2, <2>1, <2>2 DEF RequestOnce, Adding, Quiet
<1>4. \A i \in Items : ItemOnce(i)'
  BY DEF OnceInv, ItemOnce, Quiet
<1> QED BY <1>3, <1>4 DEF OnceInv

\* Requests that add nothing start quietly.
LEMMA StartsQuiet ==
  ASSUME TypeInv, NEW r \in Requests, StartSteps(r)
  PROVE  \/ Quiet
         \/ \E u \in Users, i \in Items, b \in BOOLEAN : StartAdd(r, u, i, b)
<1>1. ASSUME NEW q, Start(r, q), q.pc \notin {"record", "append"},
             UNCHANGED <<envVars, listVars, buyVars, ackVars, cleanup>>
      PROVE  Quiet
  <2>1. ASSUME NEW s \in Requests, Adding(s)' PROVE req'[s] = req[s]
    BY <1>1, <2>1 DEF Start, Adding, At, TypeInv, TypeOK
  <2> QED BY <1>1, <2>1 DEF Quiet, envVars, listVars
<1>2. ASSUME NEW u \in Users, PlainStart(r, u) PROVE Quiet
  <2>1. PICK q : /\ Plain(q) /\ Start(r, q)
                 /\ UNCHANGED <<envVars, listVars, buyVars, ackVars, cleanup>>
    BY <1>2, PlainStarts DEF TypeInv
  <2> QED BY <1>1, <2>1 DEF Plain, Wellformed
<1>3. ASSUME NEW u \in Users, NEW i \in Items, NEW b \in BOOLEAN, StartPurchase(r, u, i, b)
      PROVE  Quiet
  <2>1. PICK q : /\ Start(r, q) /\ q.pc \in {"insert", "update"}
                 /\ UNCHANGED <<envVars, listVars, buyVars, ackVars, cleanup>>
    BY <1>3, PurchaseStarts DEF TypeInv
  <2> QED BY <1>1, <2>1
<1> QED BY <1>2, <1>3 DEF StartSteps

\* So do the statements of handlers that add nothing.
LEMMA HandlesQuiet ==
  ASSUME TypeInv, NEW r \in Requests, Handle(r)
  PROVE  \/ Quiet
         \/ RecordOperation(r) \/ AppendDirectly(r) \/ AppendByFunction(r)
<1>1. CASE RemoveItem(r) \/ WriteItems(r) \/ UpdateItem(r) \/ InsertPurchase(r)
           \/ ErasePurchase(r)
  <2>1. UNCHANGED <<direct, used, opLog, applied>>
    BY <1>1 DEF RemoveItem, WriteItems, UpdateItem, InsertPurchase, ErasePurchase, envVars,
                listVars
  <2>2. req[r] # None /\ req \in [Requests -> Request \union {None}]
    BY <1>1 DEF RemoveItem, WriteItems, UpdateItem, InsertPurchase, ErasePurchase, At,
                TypeInv, TypeOK
  <2>3. \/ End(r)
        \/ \E pc \in {"update", "erase"} : Goto(r, pc)
        \/ req[r].pc = "update" /\ \E i : req' = [req EXCEPT ![r].todo = @ \ {i}]
    BY <1>1 DEF RemoveItem, WriteItems, UpdateItem, AfterUpdate, InsertPurchase,
                ErasePurchase, At
  <2>4. ASSUME NEW s \in Requests, Adding(s)' PROVE req'[s] = req[s]
    BY <2>2, <2>3, <2>4 DEF End, Goto, Adding, At, Request
  <2> QED BY <2>1, <2>4 DEF Quiet
<1> QED BY <1>1 DEF Handle

LEMMA AroundQuiet ==
  ASSUME Around \/ UNCHANGED vars
  PROVE  Quiet
  BY DEF Around, LoadForCleanup, SaveCleanup, Midnight, Restart, Leave, OfferChanges, vars,
         Quiet, Adding, At, envVars, listVars

\* An addition starts under an identifier nobody adds under in another way.
LEMMA OnceStarts ==
  ASSUME TypeInv, OnceInv, NEW r \in Requests, NEW u \in Users, NEW i \in Items,
         NEW b \in BOOLEAN, StartAdd(r, u, i, b)
  PROVE  OnceInv'
<1>1. PICK q : /\ Wellformed(q) /\ Start(r, q) /\ q.item = i /\ q.offline = b
               /\ q.pc = IF direct /\ b THEN "record" ELSE "append"
  BY AddStarts
<1>2. /\ req[r] = None /\ req' = [req EXCEPT ![r] = q]
      /\ UNCHANGED <<direct, opLog, applied>>
      /\ used[i] = "no" \/ (b /\ used[i] = "offline")
      /\ used' = [used EXCEPT ![i] = IF b THEN "offline" ELSE "online"]
  BY <1>1 DEF Start, StartAdd, envVars
<1>3. req \in [Requests -> Request \union {None}] /\ used \in [Items -> {"no", "online", "offline"}]
  BY DEF TypeInv, TypeOK
<1>4. req'[r] = q /\ \A s \in Requests \ {r} : req'[s] = req[s]
  BY <1>2, <1>3
<1>5. ASSUME NEW s \in Requests \ {r}, At(s, "append")', ~b PROVE req[s].item # i
  <2>1. At(s, "append") /\ req[s].offline \in BOOLEAN
    BY <1>3, <1>4, <1>5 DEF At, Request
  <2> QED BY <1>2, <1>5, <2>1 DEF OnceInv, RequestOnce, Adding
<1>6. ASSUME NEW j \in Items PROVE ItemOnce(j)'
  <2>1. ItemOnce(j) /\ ItemOnce(i)
    BY DEF OnceInv
  <2> QED BY <1>2, <1>3, <2>1 DEF ItemOnce
<1>7. ASSUME NEW s \in Requests \ {r} PROVE RequestOnce(s)'
  <2>1. RequestOnce(s) /\ req'[s] = req[s] /\ (At(s, "append")' <=> At(s, "append"))
        /\ (At(s, "record")' <=> At(s, "record"))
    BY <1>4 DEF OnceInv, At
  <2>2. ASSUME Adding(s)
        PROVE  used'[req[s].item] = IF req[s].offline THEN "offline" ELSE "online"
    <3>1. req[s].item \in Items /\ req[s].offline \in BOOLEAN
      BY <2>2 DEF Adding, At, TypeInv, ReqInv, Wellformed, Request
    <3> QED BY <1>2, <1>3, <2>1, <2>2, <3>1 DEF RequestOnce
  <2>3. ASSUME At(s, "append"), direct \/ ~req[s].offline PROVE OnlyWriter(s)'
    <3>1. OnlyWriter(s)
      BY <2>1, <2>3 DEF RequestOnce
    <3>2. ASSUME At(r, "append")' PROVE req'[r].item # req[s].item
      <4>1. ~direct \/ ~b
        BY <1>1, <1>4, <3>2 DEF At
      <4>2. Adding(s)
        BY <2>3 DEF Adding
      <4>3. used[req[s].item] = IF req[s].offline THEN "offline" ELSE "online"
        BY <2>1, <4>2 DEF RequestOnce
      <4>4. req[s].offline \in BOOLEAN
        BY <2>3 DEF At, TypeInv, TypeOK, Request
      <4> QED BY <1>1, <1>2, <1>4, <2>3, <4>1, <4>3, <4>4
    <3> QED BY <1>2, <1>4, <2>1, <3>1, <3>2 DEF OnlyWriter, At
  <2> QED BY <1>2, <2>1, <2>2, <2>3 DEF RequestOnce, Adding
<1>8. RequestOnce(r)'
  <2>1. used'[i] = IF b THEN "offline" ELSE "online"
    BY <1>2, <1>3
  <2>2. At(r, "record")' => direct /\ b
    BY <1>1, <1>4 DEF At
  <2>3. ASSUME At(r, "append")', direct \/ ~b PROVE OnlyWriter(r)'
    <3>1. ~b
      BY <1>1, <1>4, <2>3 DEF At
    <3>2. applied[i] = 0
      BY <1>2, <3>1 DEF OnceInv, ItemOnce
    <3> QED BY <1>1, <1>2, <1>4, <1>5, <3>1, <3>2 DEF OnlyWriter, At
  <2> QED BY <1>1, <1>2, <1>4, <2>1, <2>2, <2>3 DEF RequestOnce, Adding
<1> QED BY <1>6, <1>7, <1>8 DEF OnceInv

\* Recording an operation lets its request append, unless it was recorded.
LEMMA OnceRecord ==
  ASSUME TypeInv, OnceInv, NEW r \in Requests, RecordOperation(r)
  PROVE  OnceInv'
<1> DEFINE i == req[r].item
<1>1. /\ req[r] # None /\ req[r].pc = "record" /\ UNCHANGED <<direct, used, applied>>
      /\ req \in [Requests -> Request \union {None}]
  BY DEF RecordOperation, At, envVars, TypeInv, TypeOK
<1>2. direct /\ req[r].offline /\ i \in Items /\ used[i] = "offline"
  BY <1>1 DEF OnceInv, RequestOnce, Adding, At, TypeInv, ReqInv, Wellformed, Request
<1>3. CASE i \in opLog
  <2>1. End(r) /\ opLog' = opLog
    BY <1>3 DEF RecordOperation
  <2>2. Quiet
    BY <1>1, <2>1 DEF Quiet, End, Adding, At
  <2> QED BY <2>2, OnceQuiet
<1>4. CASE i \notin opLog
  <2>1. opLog' = opLog \union {i} /\ req' = [req EXCEPT ![r].pc = "append"]
    BY <1>4 DEF RecordOperation, Goto
  <2>2. \A s \in Requests \ {r} : req'[s] = req[s]
    BY <1>1, <2>1
  <2>3. /\ req'[r].pc = "append" /\ req'[r].item = i /\ req'[r].offline = req[r].offline
        /\ req[r] \in Request
    <3>1. req'[r] = [req[r] EXCEPT !.pc = "append"] /\ req[r] \in Request
      BY <1>1, <2>1
    <3>2. req'[r].pc = "append" /\ req'[r].item = i /\ req'[r].offline = req[r].offline
      BY <3>1 DEF Request
    <3> QED BY <3>1, <3>2 DEF Request
  <2>4. ASSUME NEW s \in Requests, At(s, "append") PROVE req[s].item # i
    <3>1. CASE req[s].item = i
      <4>1. req[s].offline = TRUE
        <5>1. req[s].offline \in BOOLEAN
          BY <2>4 DEF At, TypeInv, TypeOK, Request
        <5> QED BY <1>2, <2>4, <3>1, <5>1 DEF OnceInv, RequestOnce, Adding
      <4> QED BY <1>2, <1>4, <2>4, <3>1, <4>1 DEF OnceInv, RequestOnce, OnlyWriter
    <3> QED BY <3>1
  <2>5. applied[i] = 0
    BY <1>2, <1>4 DEF OnceInv, ItemOnce
  <2>6. RequestOnce(r)'
    <3>1. ASSUME NEW s \in Requests \ {r}, At(s, "append")' PROVE req'[s].item # i
      BY <2>2, <2>4, <3>1 DEF At
    <3>2. OnlyWriter(r)'
      BY <1>1, <2>1, <2>3, <2>5, <3>1 DEF OnlyWriter, At
    <3> QED BY <1>1, <1>2, <2>3, <3>2 DEF RequestOnce, Adding, At
  <2>7. ASSUME NEW s \in Requests \ {r} PROVE RequestOnce(s)'
    <3>1. RequestOnce(s) /\ req'[s] = req[s] /\ (At(s, "append")' <=> At(s, "append"))
          /\ (At(s, "record")' <=> At(s, "record"))
      BY <2>2 DEF OnceInv, At
    <3>2. ASSUME At(s, "append"), OnlyWriter(s) PROVE OnlyWriter(s)'
      BY <1>1, <2>1, <2>2, <2>3, <2>4, <3>1, <3>2 DEF OnlyWriter, At
    <3> QED BY <1>1, <3>1, <3>2 DEF RequestOnce, Adding
  <2>8. ASSUME NEW j \in Items PROVE ItemOnce(j)'
    BY <1>1, <2>1 DEF OnceInv, ItemOnce
  <2> QED BY <2>6, <2>7, <2>8 DEF OnceInv
<1> QED BY <1>3, <1>4

\* An append that takes effect is the first of its item.
LEMMA OnceAppend ==
  ASSUME TypeInv, OnceInv, NEW r \in Requests, AppendDirectly(r) \/ AppendByFunction(r)
  PROVE  OnceInv'
<1> DEFINE i == req[r].item
<1>1. /\ At(r, "append") /\ End(r) /\ UNCHANGED <<direct, used>>
      /\ req \in [Requests -> Request \union {None}] /\ applied \in [Items -> Nat]
  BY DEF AppendDirectly, AppendByFunction, At, envVars, TypeInv, TypeOK
<1>2. i \in Items /\ req[r].offline \in BOOLEAN
      /\ used[i] = IF req[r].offline THEN "offline" ELSE "online"
  BY <1>1 DEF OnceInv, RequestOnce, Adding, At, TypeInv, ReqInv, Wellformed, Request
<1>3. \A s \in Requests : s # r => req'[s] = req[s]
  BY <1>1 DEF End
<1>4. req'[r] = None
  BY <1>1 DEF End
<1>5. CASE UNCHANGED <<applied, opLog>>
  <2>1. Quiet
    BY <1>1, <1>3, <1>4, <1>5 DEF Quiet, Adding, At
  <2> QED BY <2>1, OnceQuiet
<1>6. CASE ~UNCHANGED <<applied, opLog>>
  <2>1. /\ applied' = [applied EXCEPT ![i] = @ + 1]
        /\ opLog' = opLog \/ (opLog' = opLog \union {i} /\ i \notin opLog /\ ~direct)
        /\ req[r].offline => i \in opLog'
        /\ req[r].offline /\ ~direct => i \notin opLog
    BY <1>1, <1>6 DEF AppendDirectly, AppendByFunction, OnceInv, RequestOnce, OnlyWriter
  <2>2. applied[i] = 0
    BY <1>1, <1>2, <2>1 DEF OnceInv, RequestOnce, ItemOnce, OnlyWriter
  <2>3. applied'[i] = 1 /\ \A j \in Items : j # i => applied'[j] = applied[j]
    BY <1>1, <1>2, <2>1, <2>2
  <2>4. ASSUME NEW s \in Requests, s # r, At(s, "append"), direct \/ ~req[s].offline,
               req[s].item = i
        PROVE  FALSE
    <3>1. req[s].offline \in BOOLEAN
      BY <2>4 DEF At, TypeInv, TypeOK, Request
    <3>2. req[s].offline = req[r].offline
      BY <1>2, <2>4, <3>1 DEF OnceInv, RequestOnce, Adding
    <3>3. OnlyWriter(s)
      BY <2>4 DEF OnceInv, RequestOnce
    <3> QED BY <1>1, <2>4, <3>3 DEF OnlyWriter
  <2>5. ASSUME NEW j \in Items PROVE ItemOnce(j)'
    <3>1. CASE j = i
      BY <1>1, <1>2, <2>1, <2>3, <3>1 DEF ItemOnce
    <3>2. CASE j # i
      BY <1>1, <2>1, <2>3, <3>2 DEF ItemOnce, OnceInv
    <3> QED BY <3>1, <3>2
  <2>6. ASSUME NEW s \in Requests PROVE RequestOnce(s)'
    <3>1. CASE s = r
      BY <1>4, <3>1 DEF RequestOnce, Adding, At, OnlyWriter
    <3>2. CASE s # r
      <4>1. /\ RequestOnce(s) /\ req'[s] = req[s] /\ (At(s, "append")' <=> At(s, "append"))
            /\ (At(s, "record")' <=> At(s, "record"))
        BY <1>3, <3>2 DEF OnceInv, At
      <4>2. ASSUME At(s, "append"), direct \/ ~req[s].offline PROVE OnlyWriter(s)'
        <5>1. OnlyWriter(s) /\ req[s].item # i /\ req[s].item \in Items
          BY <2>4, <3>2, <4>1, <4>2
             DEF RequestOnce, At, TypeInv, ReqInv, Wellformed, Request
        <5>2. ASSUME NEW q \in Requests \ {s}, At(q, "append")'
              PROVE  req'[q].item # req[s].item
          BY <1>3, <1>4, <5>1, <5>2 DEF OnlyWriter, At
        <5> QED BY <2>1, <2>3, <4>1, <5>1, <5>2 DEF OnlyWriter
      <4> QED BY <1>1, <4>1, <4>2 DEF RequestOnce, Adding
    <3> QED BY <3>1, <3>2
  <2> QED BY <2>5, <2>6 DEF OnceInv
<1> QED BY <1>5, <1>6

LEMMA OnceInit == Init => OnceInv
  BY DEF Init, OnceInv, ItemOnce, RequestOnce, Adding, At

LEMMA OnceNext == TypeInv /\ OnceInv /\ [Next]_vars => OnceInv'
  BY NextCases, StartsQuiet, HandlesQuiet, AroundQuiet, OnceQuiet, OnceStarts, OnceRecord,
     OnceAppend

\* README.md:39, for any number of attempts, requests and restarts and in both
\* deployments: an addition sent again is not applied twice (add_item).
THEOREM AdditionsApplyOnce == Spec => []AddedOnce
<1>1. Spec => [](TypeInv /\ OnceInv)
  BY TypeInit, TypeNext, OnceInit, OnceNext, PTL DEF Spec
<1>2. OnceInv => AddedOnce
  BY DEF OnceInv, ItemOnce, AddedOnce
<1> QED BY <1>1, <1>2, PTL
-----------------------------------------------------------------------------
\* Behind the functions of the database an operation is recorded together with
\* its addition: what is recorded, or answered, took effect.
AnswersInv == ~direct => \A i \in Items : i \in opLog \union acked => applied[i] > 0

\* No other step of such a server records, answers or applies an addition.
LEMMA OtherAnswers ==
  ASSUME TypeInv, OnceInv, ~direct, [Next]_vars
  PROVE  \/ \E r \in Requests : AppendByFunction(r)
         \/ UNCHANGED <<direct, opLog, applied, acked>>
<1> USE DEF envVars, listVars, ackVars
<1>1. ASSUME NEW r \in Requests, StartSteps(r)
      PROVE  UNCHANGED <<direct, opLog, applied, acked>>
  BY <1>1, PlainStarts DEF StartSteps, StartAdd, StartPurchase, TypeInv
<1>2. ASSUME NEW r \in Requests, Handle(r)
      PROVE  AppendByFunction(r) \/ UNCHANGED <<direct, opLog, applied, acked>>
  <2>1. ~RecordOperation(r) /\ ~AppendDirectly(r)
    BY DEF OnceInv, RequestOnce, RecordOperation, AppendDirectly
  <2> QED BY <1>2, <2>1 DEF Handle, RemoveItem, WriteItems, UpdateItem, InsertPurchase,
                            ErasePurchase
<1>3. CASE Around \/ UNCHANGED vars
  BY <1>3 DEF Around, LoadForCleanup, SaveCleanup, Midnight, Restart, Leave, OfferChanges,
              vars
<1> QED BY <1>1, <1>2, <1>3, NextCases

\* An append that is answered took effect, or met the record of one that did.
LEMMA AnswersAppend ==
  ASSUME TypeInv, OnceInv, AnswersInv, ~direct, NEW r \in Requests, AppendByFunction(r)
  PROVE  AnswersInv'
<1> DEFINE i == req[r].item
<1>1. At(r, "append") /\ applied \in [Items -> Nat]
  BY DEF AppendByFunction, TypeInv, TypeOK
<1>2. i \in Items
  BY <1>1 DEF At, TypeInv, ReqInv, Wellformed, Request
<1>3. \A j \in Items : j \in opLog \union acked => applied[j] > 0
  BY DEF AnswersInv
<1>4. acked' = acked \/ (acked' = acked \union {i} /\ req[r].offline
                        /\ (IsMember(req[r].user) \/ i \in opLog))
  BY DEF AppendByFunction, Ack
<1>5. CASE IsMember(req[r].user) /\ (req[r].offline => i \notin opLog)
  <2>1. applied' = [applied EXCEPT ![i] = @ + 1] /\ opLog' \subseteq opLog \union {i}
    BY <1>5 DEF AppendByFunction
  <2>2. applied'[i] > 0 /\ \A j \in Items : applied[j] > 0 => applied'[j] > 0
    BY <1>1, <1>2, <2>1
  <2> QED BY <1>3, <1>4, <2>1, <2>2 DEF AnswersInv
<1>6. CASE ~(IsMember(req[r].user) /\ (req[r].offline => i \notin opLog))
  <2>1. UNCHANGED <<applied, opLog>>
    BY <1>6 DEF AppendByFunction
  <2>2. acked' \subseteq acked \union opLog
    BY <1>4, <1>6
  <2> QED BY <1>3, <2>1, <2>2 DEF AnswersInv
<1> QED BY <1>5, <1>6

LEMMA AnswersNext == TypeInv /\ OnceInv /\ AnswersInv /\ [Next]_vars => AnswersInv'
<1> SUFFICES ASSUME TypeInv, OnceInv, AnswersInv, [Next]_vars PROVE AnswersInv'
  OBVIOUS
<1>1. UNCHANGED direct
  <2>1. ASSUME NEW r \in Requests, StartSteps(r) PROVE UNCHANGED direct
    BY <2>1, PlainStarts DEF StartSteps, StartAdd, StartPurchase, TypeInv, envVars
  <2>2. ASSUME NEW r \in Requests, Handle(r) PROVE UNCHANGED direct
    BY <2>2 DEF Handle, RecordOperation, AppendDirectly, AppendByFunction, RemoveItem,
                WriteItems, UpdateItem, InsertPurchase, ErasePurchase, envVars
  <2> QED BY <2>1, <2>2, AroundQuiet, NextCases DEF Quiet
<1>2. CASE direct
  BY <1>1, <1>2 DEF AnswersInv
<1>3. CASE ~direct
  BY <1>3, OtherAnswers, AnswersAppend DEF AnswersInv
<1> QED BY <1>2, <1>3

\* README.md:39, for a server that writes through the functions of the database:
\* an offline addition that was answered took effect, however many attempts and
\* restarts there were (append_list_item).
THEOREM AnsweredAdditionsStay == Spec => []AnsweredAddKept
<1>1. Spec => [](TypeInv /\ OnceInv)
  BY TypeInit, TypeNext, OnceInit, OnceNext, PTL DEF Spec
<1>2. Init => AnswersInv
  BY DEF Init, AnswersInv
<1>3. Spec => []AnswersInv
  BY <1>1, <1>2, AnswersNext, PTL DEF Spec
<1>4. TypeInv /\ AnswersInv => AnsweredAddKept
  BY DEF AnswersInv, AnsweredAddKept, TypeInv, TypeOK
<1> QED BY <1>1, <1>3, <1>4, PTL
-----------------------------------------------------------------------------
\* An item shown without its offer that is in the user's reach has an offer that
\* is over, and so does one that is cleared.
LEMMA SameComputation ==
  ASSUME TypeInv, NEW u \in Users, NEW i \in Items, Live(i), items[i].pin \notin Hidden(u)
  PROVE  Shown(u, i) # items[i] <=> i \in Stale(u)
<1> DEFINE o == items[i].pin
<1>1. items[i] \in Item /\ o \in Offers \union {None}
  BY DEF Live, TypeInv, TypeOK, Array, Item
<1>2. o # None => o \in Offers \ Hidden(u) /\ offer[o] \in {"current", "expired", "gone"}
  BY <1>1 DEF TypeInv, TypeOK
<1>3. o \in StaleOffers(u) <=> o # None /\ offer[o] # "current"
  BY <1>1 DEF StaleOffers, PinnedOffers
<1>4. Shown(u, i) # items[i] <=> o # None /\ offer[o] # "current"
  <2>1. [items[i] EXCEPT !.pin = None].pin = None
    BY <1>1 DEF Item
  <2> QED BY <1>3, <2>1 DEF Shown
<1>5. i \in Stale(u) <=> o # None /\ offer[o] # "current"
  BY <1>2 DEF Stale, Freshness
<1> QED BY <1>4, <1>5

\* _project_list_items_for_viewer and clear_stale_offers mean the same items, for
\* any offers, users and reach, and whatever the handlers did to the list before.
THEOREM ViewsAgree == Spec => []ViewAgrees
<1>1. Spec => []TypeInv
  BY TypeInit, TypeNext, PTL DEF Spec
<1>2. TypeInv => ViewAgrees
  <2> SUFFICES ASSUME TypeInv, NEW u \in Users, NEW i \in Items
               PROVE  i \in Stale(u) <=> /\ Live(i)
                                        /\ Shown(u, i) # items[i]
                                        /\ items[i].pin \notin Hidden(u)
    BY DEF ViewAgrees, Stale
  <2>1. i \in Stale(u) => Live(i) /\ items[i].pin \notin Hidden(u)
    BY DEF Stale
  <2> QED BY <2>1, SameComputation
<1> QED BY <1>1, <1>2, PTL
-----------------------------------------------------------------------------
\* An array that was read holds no item that was never added.
Added(a) == \A i \in Items : applied[i] = 0 => a[i] = None
LiveInv ==
  /\ Added(items)
  /\ cleanup # None => Added(cleanup)
  /\ \A r \in Requests : req[r] # None => Added(req[r].saved)

\* A handler starts with an array that was read from the list, or without one.
LEMMA SavedStarts ==
  ASSUME TypeInv, LiveInv, NEW r \in Requests, StartSteps(r)
  PROVE  /\ \E q : Added(q.saved) /\ Start(r, q)
         /\ UNCHANGED <<items, applied, cleanup>>
<1>1. Added(NoItems) /\ Added(Remaining)
  BY DEF Added, NoItems, Remaining, LiveInv, Live
<1>2. PICK u \in Users :
        \/ PlainStart(r, u)
        \/ \E i \in Items, b \in BOOLEAN : StartAdd(r, u, i, b) \/ StartPurchase(r, u, i, b)
  BY DEF StartSteps
<1>3. ASSUME NEW i \in Items, NEW b \in BOOLEAN, StartAdd(r, u, i, b) \/ StartPurchase(r, u, i, b)
      PROVE  /\ \E q : q.saved = NoItems /\ Start(r, q)
             /\ UNCHANGED <<items, applied, cleanup>>
  BY <1>3 DEF StartAdd, StartPurchase, New, listVars
<1>4. ASSUME PlainStart(r, u)
      PROVE  /\ \E q : (q.saved = NoItems \/ q.saved = Remaining) /\ Start(r, q)
             /\ UNCHANGED <<items, applied, cleanup>>
  <2> USE DEF New, listVars
  <2>1. CASE StartRemovePurchased(r, u) \/ StartReset(r, u) \/ StartClearStale(r, u)
    BY <2>1 DEF StartRemovePurchased, StartReset, StartClearStale
  <2>2. ASSUME NEW i \in Items, StartToggle(r, u, i) \/ StartRemove(r, u, i) \/ StartUndo(r, u, i)
        PROVE  <1>4!2
    BY <2>2 DEF StartToggle, StartRemove, StartUndo
  <2>3. ASSUME NEW i \in Items, NEW b \in BOOLEAN, StartCheck(r, u, i, b)
        PROVE  <1>4!2
    BY <2>3 DEF StartCheck
  <2>4. ASSUME NEW i \in Items, NEW o \in Offers, StartPatch(r, u, i, o)
        PROVE  <1>4!2
    BY <2>4 DEF StartPatch
  <2> QED BY <1>4, <2>1, <2>2, <2>3, <2>4 DEF PlainStart
<1> QED BY <1>1, <1>2, <1>3, <1>4

\* What a step does to the items of the list.
ItemStep ==
  \/ UNCHANGED <<items, applied>>
  \/ WroteArray /\ UNCHANGED applied /\ Added(items')
  \/ \E r \in Requests : /\ At(r, "append")
                         /\ req[r].item \in Items /\ applied[req[r].item] = 0
                         /\ items' = Appended(req[r].item)
                         /\ applied' = [applied EXCEPT ![req[r].item] = @ + 1]
  \/ \E r \in Requests : /\ At(r, "remove")
                         /\ items' = Removed(req[r].item) /\ UNCHANGED applied
  \/ \E r \in Requests : \E i \in Target(r), old \in BOOLEAN :
       /\ At(r, "update")
       /\ items' = Updated(i, req[r].patch, old) /\ UNCHANGED applied
  \/ Midnight /\ UNCHANGED applied

LEMMA ItemSteps ==
  ASSUME TypeInv, OnceInv, LiveInv, [Next]_vars
  PROVE  ItemStep
<1> USE DEF listVars, ItemStep
<1>1. ASSUME NEW r \in Requests, StartSteps(r) PROVE ItemStep
  BY <1>1, SavedStarts
<1>2. ASSUME NEW r \in Requests, Handle(r) PROVE ItemStep
  <2>1. CASE AppendDirectly(r) \/ AppendByFunction(r)
    <3>1. At(r, "append") /\ req[r].item \in Items /\ req[r].offline \in BOOLEAN
      BY <2>1 DEF AppendDirectly, AppendByFunction, At, TypeInv, ReqInv, Wellformed, Request
    <3>2. \/ UNCHANGED <<items, applied>>
          \/ /\ items' = Appended(req[r].item)
             /\ applied' = [applied EXCEPT ![req[r].item] = @ + 1]
             /\ direct \/ ~req[r].offline \/ req[r].item \notin opLog
      BY <2>1 DEF AppendDirectly, AppendByFunction
    <3>3. \/ UNCHANGED <<items, applied>>
          \/ applied[req[r].item] = 0
      BY <3>1, <3>2 DEF OnceInv, RequestOnce, ItemOnce, OnlyWriter, Adding
    <3> QED BY <3>1, <3>2, <3>3
  <2>2. CASE WriteItems(r)
    <3>1. req'[r] = None
      BY <2>2 DEF WriteItems, End, TypeInv, TypeOK
    <3> QED BY <2>2, <3>1 DEF WriteItems, WroteArray, LiveInv, At
  <2>3. CASE RemoveItem(r)
    BY <2>3 DEF RemoveItem
  <2>4. CASE UpdateItem(r)
    BY <2>4 DEF UpdateItem
  <2>5. CASE RecordOperation(r) \/ InsertPurchase(r) \/ ErasePurchase(r)
    BY <2>5 DEF RecordOperation, InsertPurchase, ErasePurchase
  <2> QED BY <1>2, <2>1, <2>2, <2>3, <2>4, <2>5 DEF Handle
<1>3. CASE Around
  <2>1. CASE SaveCleanup
    BY <2>1 DEF SaveCleanup, WroteArray, LiveInv
  <2> QED BY <1>3, <2>1 DEF Around, LoadForCleanup, Midnight, Restart, Leave, OfferChanges
<1>4. CASE UNCHANGED vars
  BY <1>4 DEF vars
<1> QED BY <1>1, <1>2, <1>3, <1>4, NextCases

\* An item that is still in the list after a step was there, or is new.
LEMMA ItemsStayAdded ==
  ASSUME TypeInv, OnceInv, LiveInv, [Next]_vars
  PROVE  /\ Added(items)'
         /\ \A i \in Items : applied'[i] = 0 => applied[i] = 0
<1>1. ItemStep
  BY ItemSteps
<1>2. applied \in [Items -> Nat] /\ items \in [Items -> Item \union {None}] /\ Added(items)
  BY DEF TypeInv, TypeOK, LiveInv, Array
<1>3. CASE UNCHANGED <<items, applied>>
  BY <1>2, <1>3 DEF Added
<1>4. CASE UNCHANGED applied /\ Added(items')
  BY <1>4 DEF Added
<1>5. ASSUME NEW r \in Requests, req[r].item \in Items, items' = Appended(req[r].item),
             applied' = [applied EXCEPT ![req[r].item] = @ + 1]
      PROVE  Added(items)' /\ \A i \in Items : applied'[i] = 0 => applied[i] = 0
  BY <1>2, <1>5 DEF Appended, Added
<1>6. ASSUME NEW i, items' = Removed(i), UNCHANGED applied
      PROVE  Added(items)' /\ \A j \in Items : applied'[j] = 0 => applied[j] = 0
  BY <1>2, <1>6 DEF Removed, Added
<1>7. ASSUME NEW i, NEW p, NEW old, items' = Updated(i, p, old), UNCHANGED applied
      PROVE  Added(items)' /\ \A j \in Items : applied'[j] = 0 => applied[j] = 0
  BY <1>2, <1>7 DEF Updated, Live, Added
<1>8. CASE Midnight /\ UNCHANGED applied
  BY <1>2, <1>8 DEF Midnight, Live, Added
<1> QED BY <1>1, <1>3, <1>4, <1>5, <1>6, <1>7, <1>8 DEF ItemStep

LEMMA LiveInit == Init => LiveInv
  BY DEF Init, LiveInv, Added, NoItems

LEMMA LiveNext ==
  ASSUME TypeInv, OnceInv, LiveInv, [Next]_vars
  PROVE  LiveInv'
<1>1. /\ Added(items)'
      /\ \A i \in Items : applied'[i] = 0 => applied[i] = 0
  BY ItemsStayAdded
<1>2. ASSUME NEW a, Added(a) PROVE \A i \in Items : applied'[i] = 0 => a[i] = None
  BY <1>1, <1>2 DEF Added
<1>3. cleanup' = cleanup \/ cleanup' = None \/ cleanup' = Kept
  <2>1. ASSUME NEW r \in Requests, StartSteps(r) PROVE cleanup' = cleanup
    BY <2>1, SavedStarts
  <2>2. ASSUME NEW r \in Requests, Handle(r) PROVE cleanup' = cleanup
    BY <2>2 DEF Handle, RecordOperation, AppendDirectly, AppendByFunction, RemoveItem,
                WriteItems, UpdateItem, InsertPurchase, ErasePurchase
  <2>3. CASE Around \/ UNCHANGED vars
    BY <2>3 DEF Around, LoadForCleanup, SaveCleanup, Midnight, Restart, Leave, OfferChanges,
                vars
  <2> QED BY <2>1, <2>2, <2>3, NextCases
<1>4. cleanup' # None => \A i \in Items : applied'[i] = 0 => cleanup'[i] = None
  <2>1. Added(Kept)
    BY DEF Added, Kept, LiveInv, Live
  <2> QED BY <1>2, <1>3, <2>1 DEF LiveInv
<1>5. ASSUME NEW s \in Requests, req'[s] # None
      PROVE  \E a : Added(a) /\ a = req'[s].saved
  <2>1. ASSUME NEW r \in Requests, NEW q, Added(q.saved), Start(r, q)
        PROVE  Added(req'[s].saved)
    BY <1>5, <2>1 DEF Start, LiveInv, TypeInv, TypeOK
  <2>2. ASSUME NEW r \in Requests, Handle(r) PROVE req[s] # None /\ req'[s].saved = req[s].saved
    <3>1. req[r] # None /\ req \in [Requests -> Request \union {None}]
      BY <2>2 DEF Handle, At, RecordOperation, AppendDirectly, AppendByFunction, RemoveItem,
                  WriteItems, UpdateItem, InsertPurchase, ErasePurchase, TypeInv, TypeOK
    <3>2. \/ End(r) \/ \E pc : Goto(r, pc)
          \/ \E i : req' = [req EXCEPT ![r].todo = @ \ {i}]
      BY <2>2 DEF Handle, RecordOperation, AppendDirectly, AppendByFunction, RemoveItem,
                  WriteItems, UpdateItem, AfterUpdate, InsertPurchase, ErasePurchase
    <3> QED BY <1>5, <3>1, <3>2 DEF End, Goto, Request
  <2>3. CASE Around \/ UNCHANGED vars
    BY <1>5, <2>3 DEF Around, LoadForCleanup, SaveCleanup, Midnight, Restart, Leave,
                      OfferChanges, vars, LiveInv
  <2> QED BY <1>5, <2>1, <2>2, <2>3, NextCases, SavedStarts DEF LiveInv
<1>6. ASSUME NEW s \in Requests, req'[s] # None
      PROVE  \A i \in Items : applied'[i] = 0 => req'[s].saved[i] = None
  BY <1>2, <1>5, <1>6
<1> QED BY <1>1, <1>4, <1>6 DEF LiveInv, Added

\* Whatever runs at once, patches touch the item they name: none comes back by
\* a late patch and none goes with another (update_list_item, remove_item).
THEOREM PatchesStayLocal == Spec => PatchesAreLocal
<1>1. Spec => [](TypeInv /\ OnceInv /\ LiveInv)
  BY TypeInit, TypeNext, OnceInit, OnceNext, LiveInit, LiveNext, PTL DEF Spec
<1> DEFINE Local == \A i \in Items :
             /\ items[i] = None /\ items'[i] # None => applied'[i] > applied[i]
             /\ items[i] # None /\ items'[i] = None =>
                  \E r \in Requests : At(r, "remove") /\ req[r].item = i
<1>2. ASSUME TypeInv, OnceInv, LiveInv, [Next]_vars PROVE WroteArray \/ Local
  <2>1. ItemStep
    BY <1>2, ItemSteps
  <2>2. applied \in [Items -> Nat] /\ items \in [Items -> Item \union {None}]
        /\ None \notin Item
    BY <1>2, ItemAssumption DEF TypeInv, TypeOK, Array
  <2>3. CASE UNCHANGED <<items, applied>>
    BY <2>2, <2>3
  <2>4. ASSUME NEW r \in Requests, req[r].item \in Items, items' = Appended(req[r].item),
               applied' = [applied EXCEPT ![req[r].item] = @ + 1]
        PROVE  Local
    <3>1. NewItem(req[r].item) # None
      <4>1. NewItem(req[r].item) \in Item
        BY <2>4, ConstantsAssumption DEF NewItem, Item
      <4> QED BY <2>2, <4>1
    <3> QED BY <2>2, <2>4, <3>1 DEF Appended
  <2>5. ASSUME NEW r \in Requests, At(r, "remove"), items' = Removed(req[r].item)
        PROVE  Local
    BY <2>2, <2>5 DEF Removed
  <2>6. ASSUME NEW r \in Requests, NEW i \in Target(r), NEW old \in BOOLEAN, At(r, "update"),
               items' = Updated(i, req[r].patch, old)
        PROVE  Local
    <3>1. Wellformed(req[r]) /\ i \in Items
      BY <1>2, <2>6 DEF At, Target, TypeInv, ReqInv, Wellformed, Request
    <3>2. Updated(i, req[r].patch, old) \in Array
      BY <1>2, <3>1, UpdatedType DEF TypeInv
    <3>3. items[i] # None => items'[i] # None
      <4>1. items[i] # None => Patched(items[i], req[r].patch, old) \in Item
        BY <2>2, <2>6, <3>1, PatchedType
      <4> QED BY <2>2, <2>6, <3>1, <4>1 DEF Updated, Live
    <3>4. \A j \in Items : j # i => items'[j] = items[j]
      BY <2>2, <2>6 DEF Updated
    <3>5. items[i] = None => items' = items
      BY <2>6 DEF Updated, Live
    <3> QED BY <3>3, <3>4, <3>5
  <2>7. CASE Midnight
    <3>1. ASSUME NEW i \in Items, items[i] # None PROVE [items[i] EXCEPT !.old = TRUE] # None
      BY <2>2, <3>1 DEF Item
    <3> QED BY <2>2, <2>7, <3>1 DEF Midnight, Live
  <2> QED BY <2>1, <2>3, <2>4, <2>5, <2>6, <2>7 DEF ItemStep
<1> QED BY <1>1, <1>2, PTL DEF Spec, PatchesAreLocal

\* Nor does a check, an offer chosen or cleared, an addition or midnight change
\* who bought an item, however old what it was computed from.
THEOREM PurchasesSurvivePatches == Spec => PurchaseNotOverwritten
<1>1. Spec => [](TypeInv /\ OnceInv /\ LiveInv)
  BY TypeInit, TypeNext, OnceInit, OnceNext, LiveInit, LiveNext, PTL DEF Spec
<1> DEFINE Kind == \A i \in Items :
             items[i] # None /\ items'[i] # None /\ items[i].buyer # items'[i].buyer =>
               \E r \in Requests : /\ At(r, "update")
                                   /\ req[r].op \in {"buy", "undo"}
                                   /\ req[r].item = i
<1>2. ASSUME TypeInv, OnceInv, LiveInv, [Next]_vars PROVE WroteArray \/ Kind
  <2>1. ItemStep
    BY <1>2, ItemSteps
  <2>2. applied \in [Items -> Nat] /\ items \in [Items -> Item \union {None}] /\ Added(items)
    BY <1>2 DEF TypeInv, TypeOK, Array, LiveInv
  <2>3. CASE UNCHANGED items
    BY <2>3
  <2>4. ASSUME NEW r \in Requests, req[r].item \in Items, applied[req[r].item] = 0,
               items' = Appended(req[r].item)
        PROVE  Kind
    <3>1. items[req[r].item] = None
      BY <2>2, <2>4 DEF Added
    <3> QED BY <2>2, <2>4, <3>1 DEF Appended
  <2>5. ASSUME NEW r \in Requests, items' = Removed(req[r].item) PROVE Kind
    BY <2>2, <2>5 DEF Removed
  <2>6. ASSUME NEW r \in Requests, NEW i \in Target(r), NEW old \in BOOLEAN, At(r, "update"),
               items' = Updated(i, req[r].patch, old)
        PROVE  Kind
    <3>1. Wellformed(req[r]) /\ i \in Items
      BY <1>2, <2>6 DEF At, Target, TypeInv, ReqInv, Wellformed, Request
    <3>2. \A j \in Items : j # i => items'[j] = items[j]
      BY <2>2, <2>6 DEF Updated
    <3>3. CASE items[i] = None
      BY <2>6, <3>3 DEF Updated, Live
    <3>4. CASE items[i] # None /\ req[r].patch.field # "buyer"
      <4>1. items'[i] = Patched(items[i], req[r].patch, old) /\ items[i] \in Item
        BY <2>2, <2>6, <3>1, <3>4 DEF Updated, Live
      <4>2. req[r].patch.field \in {"checked", "pin"}
        BY <3>1, <3>4 DEF Wellformed, Request, Patch, Field
      <4>3. items'[i].buyer = items[i].buyer
        BY <4>1, <4>2 DEF Patched, Item
      <4> QED BY <3>2, <4>3
    <3>5. CASE req[r].patch.field = "buyer"
      <4>1. req[r].op \in {"buy", "undo"} /\ req[r].item = i
        BY <2>6, <3>1, <3>5 DEF Wellformed, Target
      <4> QED BY <2>6, <3>2, <4>1
    <3> QED BY <3>3, <3>4, <3>5
  <2>7. CASE Midnight
    <3>1. ASSUME NEW i \in Items, items[i] # None
          PROVE  [items[i] EXCEPT !.old = TRUE].buyer = items[i].buyer
      BY <2>2, <3>1 DEF Item
    <3> QED BY <2>2, <2>7, <3>1 DEF Midnight, Live
  <2> QED BY <2>1, <2>3, <2>4, <2>5, <2>6, <2>7 DEF ItemStep
<1> QED BY <1>1, <1>2, PTL DEF Spec, PurchaseNotOverwritten
=============================================================================
