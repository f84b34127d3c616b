--------------------------- MODULE PublicationProofs ---------------------------
(***************************************************************************)
(* Theorems about Publication, for any number of markets, offers, copies,  *)
(* requests and faults.  What is public was confirmed, however many        *)
(* servers answer requests; one copy for each market, the repair by the    *)
(* next publication and the jobs of copies need that one server answers    *)
(* them.                                                                   *)
(***************************************************************************)
EXTENDS Publication, TLAPS

\* Deleting copies or offers leaves clones or nothing.
LEMMA WithoutType ==
  ASSUME CloneTypes, NEW cs, NEW os
  PROVE  Without(cs, os) \in [Sites -> Clones \union {None}]
  BY DEF CloneTypes, Without

\* A materialization makes clones or nothing.
LEMMA MaterializedType ==
  ASSUME OfferTypes
  PROVE  Materialized \in [Sites -> Clones \union {None}]
<1> SUFFICES ASSUME NEW s \in Sites PROVE Materialized[s] \in Clones \union {None}
  BY DEF Materialized
<1>1. CASE s[1] \in Cloned /\ \E c \in Live : market[c] = s[2]
  <2> DEFINE d == CHOOSE c \in Live : market[c] = s[2]
  <2>1. d \in Copies
    BY <1>1 DEF Live
  <2>2. offer[s[1]].text \in Texts /\ offer[s[1]].date \in Dates
    BY DEF OfferTypes, OfferType, Sites
  <2>3. Materialized[s] = [flyer |-> d, text |-> offer[s[1]].text, date |-> offer[s[1]].date]
    BY <1>1 DEF Materialized
  <2> HIDE DEF d
  <2> QED BY <2>1, <2>2, <2>3 DEF Clones
<1>2. CASE ~(s[1] \in Cloned /\ \E c \in Live : market[c] = s[2])
  BY <1>2 DEF Materialized
<1> QED BY <1>1, <1>2

\* An offer whose state is set is an offer.
LEMMA OfferState ==
  ASSUME NEW x \in OfferType, NEW s \in {"none", "draft", "confirmed", "gone"}
  PROVE  [x EXCEPT !.state = s] \in OfferType
  BY DEF OfferType

\* An offer whose text or date is set is an offer.
LEMMA OfferSet ==
  ASSUME NEW x \in OfferType, NEW t \in Texts, NEW d \in Dates
  PROVE  /\ [x EXCEPT !.text = t] \in OfferType
         /\ [x EXCEPT !.date = d] \in OfferType
         /\ [state |-> "draft", text |-> t, date |-> d] \in OfferType
  BY DEF OfferType

\* A clone whose date is set is a clone.
LEMMA CloneSet ==
  ASSUME NEW x \in Clones, NEW d \in Dates
  PROVE  [x EXCEPT !.date = d] \in Clones
  BY DEF Clones

\* The initial tables and idle servers are well typed.
LEMMA TypeInit == Init => TypeOK
<1> SUFFICES ASSUME Init PROVE TypeOK
  OBVIOUS
<1>1. OfferTypes
  BY DEF Init, OfferTypes, OfferType
<1>2. CopyTypes /\ CloneTypes /\ JobTypes /\ FlyerTypes
  BY BoundsAssumption DEF Init, CopyTypes, CloneTypes, JobTypes, FlyerTypes
<1>3. StepTypes /\ LocalTypes
  <2>1. found \in [Servers -> [Markets -> Copies \union {None}]]
    BY DEF Init
  <2>2. when \in [Servers -> Dates]
    BY DEF Init
  <2>3. StepTypes
    BY DEF Init, StepTypes, Steps
  <2>4. want \in [Servers -> SUBSET Markets] /\ todo \in [Servers -> SUBSET Markets]
    BY DEF Init
  <2>5. rest \in [Servers -> SUBSET Copies]
    BY DEF Init
  <2>6. at \in [Servers -> Copies \union Offers \union {None}]
    BY DEF Init
  <2> QED BY <2>1, <2>2, <2>3, <2>4, <2>5, <2>6 DEF LocalTypes
<1>4. BoundTypes
  <2>1. requests = 0 /\ faults = 0 /\ broken \in BOOLEAN
    BY Zenon DEF Init
  <2> QED BY <2>1, BoundsAssumption DEF BoundTypes
<1>5. NoOrphans
  <2>1. exists
    BY DEF Init
  <2> QED BY <2>1 DEF NoOrphans
<1> QED BY <1>1, <1>2, <1>3, <1>4, <1>5 DEF TypeOK

\* What a step leaves alone keeps its type.
LEMMA Frame ==
  ASSUME TypeOK
  PROVE  /\ UNCHANGED flyerVars => FlyerTypes'
         /\ UNCHANGED offer => OfferTypes'
         /\ UNCHANGED copyVars => CopyTypes'
         /\ UNCHANGED clone => CloneTypes'
         /\ UNCHANGED jobVars => JobTypes'
         /\ UNCHANGED pc => StepTypes'
         /\ UNCHANGED localVars => LocalTypes'
         /\ UNCHANGED boundVars => BoundTypes'
         /\ UNCHANGED <<flyerVars, copyVars>> => NoOrphans'
  BY DEF TypeOK, FlyerTypes, OfferTypes, CopyTypes, CloneTypes, JobTypes, StepTypes, LocalTypes,
         BoundTypes, NoOrphans, Live, flyerVars, copyVars, jobVars, localVars, boundVars

\* A server that moves to a step keeps the type of the steps.
LEMMA GotoType ==
  ASSUME TypeOK, NEW p \in Servers, NEW s \in Steps, Goto(p, s)
  PROVE  StepTypes'
  BY DEF TypeOK, StepTypes, Goto

\* A request that arrives is counted within its bound.
LEMMA ArrivesType ==
  ASSUME TypeOK, NEW p \in Servers, Arrives(p)
  PROVE  BoundTypes'
  BY BoundsAssumption DEF TypeOK, BoundTypes, Arrives

\* Every step of a confirmation or of a change of targets keeps every type.
LEMMA TypePublish ==
  ASSUME TypeOK, NEW p \in Servers, Publish(p)
  PROVE  TypeOK'
<1>1. ASSUME StartConfirm(p) PROVE TypeOK'
  <2>1. StepTypes'
    BY <1>1, GotoType DEF StartConfirm, Steps
  <2>2. LocalTypes'
    BY <1>1 DEF StartConfirm, TypeOK, FlyerTypes, LocalTypes
  <2> QED BY <1>1, <2>1, <2>2, Frame, ArrivesType DEF StartConfirm, TypeOK, flyerVars, copyVars, jobVars, localVars, boundVars
<1>2. ASSUME Confirm(p) PROVE TypeOK'
  <2>1. StepTypes'
    BY <1>2, GotoType DEF Confirm, Steps
  <2>2. OfferTypes'
    <3>1. ASSUME NEW o \in Offers PROVE offer[o] \in OfferType
      BY DEF TypeOK, OfferTypes
    <3>2. ASSUME NEW o \in Offers PROVE offer'[o] \in OfferType
      BY <1>2, <3>1, OfferState DEF Confirm
    <3>3. offer' = [o \in Offers |-> offer'[o]]
      BY <1>2 DEF Confirm
    <3> QED BY <3>2, <3>3 DEF OfferTypes
  <2> QED BY <1>2, <2>1, <2>2, Frame DEF Confirm, TypeOK, flyerVars, copyVars, jobVars, localVars, boundVars
<1>3. ASSUME Count(p) PROVE TypeOK'
  <2>1. StepTypes'
    BY <1>3, GotoType DEF Count, Steps
  <2> QED BY <1>3, <2>1, Frame DEF Count, TypeOK, flyerVars, copyVars, jobVars, localVars, boundVars
<1>4. ASSUME NEW T \in SUBSET Markets, StartTargets(p, T) PROVE TypeOK'
  <2>1. StepTypes'
    BY <1>4, GotoType DEF StartTargets, Steps
  <2>2. LocalTypes'
    BY <1>4 DEF StartTargets, TypeOK, FlyerTypes, LocalTypes
  <2> QED BY <1>4, <2>1, <2>2, Frame, ArrivesType DEF StartTargets, TypeOK, flyerVars, copyVars, jobVars, localVars, boundVars
<1>5. ASSUME Unlink(p) PROVE TypeOK'
  <2>1. StepTypes'
    BY <1>5, GotoType DEF Unlink, Steps
  <2>2. FlyerTypes' /\ NoOrphans'
    BY <1>5 DEF Unlink, TypeOK, FlyerTypes, NoOrphans, Live, copyVars
  <2> QED BY <1>5, <2>1, <2>2, Frame DEF Unlink, TypeOK, flyerVars, copyVars, jobVars, localVars, boundVars
<1>6. ASSUME Link(p) PROVE TypeOK'
  <2>1. StepTypes'
    BY <1>6, GotoType DEF Link, Steps
  <2>2. FlyerTypes' /\ NoOrphans'
    BY <1>6 DEF Link, TypeOK, FlyerTypes, LocalTypes, NoOrphans, Referenced
  <2> QED BY <1>6, <2>1, <2>2, Frame DEF Link, TypeOK, flyerVars, copyVars, jobVars, localVars, boundVars
<1>7. ASSUME Reread(p) PROVE TypeOK'
  <2>1. StepTypes'
    BY <1>7, GotoType DEF Reread, Steps
  <2>2. LocalTypes'
    BY <1>7 DEF Reread, TypeOK, FlyerTypes, LocalTypes
  <2> QED BY <1>7, <2>1, <2>2, Frame DEF Reread, TypeOK, flyerVars, copyVars, jobVars, localVars, boundVars
<1>8. ASSUME Lookup(p) PROVE TypeOK'
  <2>1. StepTypes'
    BY <1>8, GotoType DEF Lookup, Steps
  <2>2. found' \in [Servers -> [Markets -> Copies \union {None}]]
    BY <1>8 DEF Lookup, TypeOK, LocalTypes, Lookups, Live
  <2>3. LocalTypes'
    BY <1>8, <2>2 DEF Lookup, TypeOK, LocalTypes
  <2> QED BY <1>8, <2>1, <2>2, <2>3, Frame DEF Lookup, TypeOK, flyerVars, copyVars, jobVars, localVars, boundVars
<1>9. ASSUME Hide(p) PROVE TypeOK'
  <2>1. StepTypes'
    BY <1>9, GotoType DEF Hide, Steps
  <2>2. CloneTypes'
    BY <1>9, WithoutType DEF Hide, TypeOK, CloneTypes
  <2> QED BY <1>9, <2>1, <2>2, Frame DEF Hide, TypeOK, flyerVars, copyVars, jobVars, localVars, boundVars
<1>10. ASSUME Remove(p) PROVE TypeOK'
  <2>1. StepTypes'
    BY <1>10, GotoType DEF Remove, Steps
  <2>2. CloneTypes'
    BY <1>10, WithoutType DEF Remove, TypeOK, CloneTypes
  <2>3. CopyTypes' /\ NoOrphans'
    BY <1>10 DEF Remove, TypeOK, CopyTypes, NoOrphans, Live, flyerVars
  <2> QED BY <1>10, <2>1, <2>2, <2>3, Frame DEF Remove, TypeOK, flyerVars, copyVars, jobVars, localVars, boundVars
<1>11. ASSUME NEW m \in Markets, Update(p, m) PROVE TypeOK'
  <2>1. CopyTypes'
    BY <1>11 DEF Update, TypeOK, CopyTypes, LocalTypes, Renewed
  <2>2. LocalTypes'
    BY <1>11 DEF Update, TypeOK, FlyerTypes, LocalTypes
  <2>3. NoOrphans'
    BY <1>11 DEF Update, TypeOK, NoOrphans, Live, flyerVars
  <2> QED BY <1>11, <2>1, <2>2, <2>3, Frame DEF Update, TypeOK, flyerVars, copyVars, jobVars, localVars, boundVars
<1>12. ASSUME NEW m \in Markets, Insert(p, m) PROVE TypeOK'
  <2>1. made + 1 \in Copies /\ made' \in 0..MaxCopies
    BY <1>12, BoundsAssumption DEF Insert, TypeOK, CopyTypes, Copies
  <2>2. CopyTypes'
    BY <1>12, <2>1 DEF Insert, TypeOK, CopyTypes, LocalTypes
  <2>3. LocalTypes'
    BY <1>12, <2>1 DEF Insert, TypeOK, LocalTypes
  <2>4. NoOrphans'
    BY <1>12 DEF Insert, TypeOK, NoOrphans, Referenced, flyerVars
  <2> QED BY <1>12, <2>1, <2>2, <2>3, <2>4, Frame DEF Insert, TypeOK, flyerVars, copyVars, jobVars, localVars, boundVars
<1>13. ASSUME Materialize(p) PROVE TypeOK'
  <2>1. StepTypes'
    BY <1>13, GotoType DEF Materialize, Steps
  <2>2. CloneTypes'
    BY <1>13, MaterializedType DEF Materialize, TypeOK, CloneTypes
  <2>3. BoundTypes'
    BY <1>13 DEF Materialize, TypeOK, BoundTypes
  <2> QED BY <1>13, <2>1, <2>2, <2>3, Frame DEF Materialize, TypeOK, flyerVars, copyVars, jobVars, localVars, boundVars
<1>14. ASSUME NEW c \in Copies, Enqueue(p, c) PROVE TypeOK'
  <2>1. StepTypes'
    BY <1>14, GotoType DEF Enqueue, Steps
  <2>2. JobTypes'
    BY <1>14 DEF Enqueue, TypeOK, JobTypes, LocalTypes, jobVars
  <2>3. LocalTypes'
    BY <1>14 DEF Enqueue, TypeOK, FlyerTypes, LocalTypes
  <2> QED BY <1>14, <2>1, <2>2, <2>3, Frame DEF Enqueue, TypeOK, flyerVars, copyVars, jobVars, localVars, boundVars
<1> QED
  BY <1>1, <1>2, <1>3, <1>4, <1>5, <1>6, <1>7, <1>8, <1>9, <1>10, <1>11, <1>12, <1>13, <1>14 DEF Publish

\* Every step of the other handlers keeps every type.
LEMMA TypeEdit ==
  ASSUME TypeOK, NEW p \in Servers, Edit(p)
  PROVE  TypeOK'
<1>1. ASSUME NEW d \in Dates, StartValidity(p, d) PROVE TypeOK'
  <2>1. StepTypes'
    BY <1>1, GotoType DEF StartValidity, Steps
  <2>2. FlyerTypes' /\ LocalTypes' /\ NoOrphans'
    BY <1>1 DEF StartValidity, TypeOK, FlyerTypes, LocalTypes, NoOrphans, Live, copyVars
  <2> QED BY <1>1, <2>1, <2>2, Frame, ArrivesType DEF StartValidity, TypeOK, flyerVars, copyVars, jobVars, localVars, boundVars
<1>2. ASSUME OfferDates(p) PROVE TypeOK'
  <2>1. StepTypes'
    BY <1>2, GotoType DEF OfferDates, Steps
  <2>2. OfferTypes'
    <3>1. ASSUME NEW o \in Offers PROVE offer[o] \in OfferType
      BY DEF TypeOK, OfferTypes
    <3>2. ASSUME NEW o \in Offers PROVE offer'[o] \in OfferType
      BY <1>2, <3>1, ChoicesAssumption, OfferSet DEF OfferDates, TypeOK, LocalTypes
    <3>3. offer' = [o \in Offers |-> offer'[o]]
      BY <1>2 DEF OfferDates
    <3> QED BY <3>2, <3>3 DEF OfferTypes
  <2> QED BY <1>2, <2>1, <2>2, Frame DEF OfferDates, TypeOK, flyerVars, copyVars, jobVars, localVars, boundVars
<1>3. ASSUME FindCopies(p) PROVE TypeOK'
  <2>1. StepTypes'
    BY <1>3, GotoType DEF FindCopies, Steps
  <2>2. LocalTypes'
    BY <1>3 DEF FindCopies, TypeOK, LocalTypes, Live
  <2> QED BY <1>3, <2>1, <2>2, Frame DEF FindCopies, TypeOK, flyerVars, copyVars, jobVars, localVars, boundVars
<1>4. ASSUME NEW c \in Copies, CopyDate(p, c) PROVE TypeOK'
  <2>1. StepTypes'
    BY <1>4, GotoType DEF CopyDate, Steps
  <2>2. CopyTypes'
    BY <1>4 DEF CopyDate, TypeOK, CopyTypes, LocalTypes
  <2>3. LocalTypes'
    BY <1>4 DEF CopyDate, TypeOK, FlyerTypes, LocalTypes
  <2>4. NoOrphans'
    BY <1>4 DEF CopyDate, TypeOK, NoOrphans, Live, flyerVars
  <2> QED BY <1>4, <2>1, <2>2, <2>3, <2>4, Frame DEF CopyDate, TypeOK, flyerVars, copyVars, jobVars, localVars, boundVars
<1>5. ASSUME CloneDates(p) PROVE TypeOK'
  <2>1. StepTypes'
    BY <1>5, GotoType DEF CloneDates, Steps
  <2>2. CloneTypes'
    BY <1>5, CloneSet DEF CloneDates, TypeOK, CloneTypes, LocalTypes
  <2> QED BY <1>5, <2>1, <2>2, Frame DEF CloneDates, TypeOK, flyerVars, copyVars, jobVars, localVars, boundVars
<1>6. ASSUME Reschedule(p) PROVE TypeOK'
  <2>1. StepTypes'
    BY <1>6, GotoType DEF Reschedule, Steps
  <2>2. JobTypes'
    BY <1>6 DEF Reschedule, TypeOK, JobTypes, LocalTypes
  <2>3. LocalTypes'
    BY <1>6 DEF Reschedule, TypeOK, FlyerTypes, LocalTypes
  <2> QED BY <1>6, <2>1, <2>2, <2>3, Frame DEF Reschedule, TypeOK, flyerVars, copyVars, jobVars, localVars, boundVars
<1>7. ASSUME NEW o \in Offers, NEW t \in Texts, NEW d \in Dates, AddDraft(p, o, t, d) PROVE TypeOK'
  <2>1. OfferTypes'
    BY <1>7, OfferSet DEF AddDraft, TypeOK, OfferTypes, LocalTypes, FlyerTypes
  <2> QED BY <1>7, <2>1, Frame, ArrivesType DEF AddDraft, TypeOK, flyerVars, copyVars, jobVars, localVars, boundVars
<1>8. ASSUME NEW o \in Offers, NEW t \in Texts, EditOffer(p, o, t) PROVE TypeOK'
  <2>1. StepTypes'
    BY <1>8, GotoType DEF EditOffer, Steps
  <2>2. OfferTypes'
    BY <1>8, OfferSet DEF EditOffer, TypeOK, OfferTypes, LocalTypes, FlyerTypes
  <2> QED BY <1>8, <2>1, <2>2, Frame, ArrivesType DEF EditOffer, TypeOK, flyerVars, copyVars, jobVars, localVars, boundVars
<1>9. ASSUME NEW o \in Offers, StartDelete(p, o) PROVE TypeOK'
  <2>1. StepTypes'
    BY <1>9, GotoType DEF StartDelete, Steps
  <2>2. CloneTypes'
    BY <1>9, WithoutType DEF StartDelete, TypeOK, CloneTypes
  <2>3. LocalTypes'
    BY <1>9 DEF StartDelete, TypeOK, FlyerTypes, LocalTypes
  <2> QED BY <1>9, <2>1, <2>2, <2>3, Frame, ArrivesType DEF StartDelete, TypeOK, flyerVars, copyVars, jobVars, localVars, boundVars
<1>10. ASSUME Refresh(p) PROVE TypeOK'
  <2>1. StepTypes'
    BY <1>10, GotoType DEF Refresh, Steps
  <2>2. CloneTypes'
    BY <1>10, MaterializedType DEF Refresh, TypeOK, CloneTypes
  <2> QED BY <1>10, <2>1, <2>2, Frame DEF Refresh, TypeOK, flyerVars, copyVars, jobVars, localVars, boundVars
<1>11. ASSUME Delete(p) PROVE TypeOK'
  <2>1. StepTypes'
    BY <1>11, GotoType DEF Delete, Steps
  <2>2. CloneTypes'
    BY <1>11, WithoutType DEF Delete, TypeOK, CloneTypes
  <2>3. OfferTypes'
    <3>1. ASSUME NEW o \in Offers PROVE offer[o] \in OfferType
      BY DEF TypeOK, OfferTypes
    <3>2. ASSUME NEW o \in Offers PROVE offer'[o] \in OfferType
      BY <1>11, <3>1, OfferState DEF Delete, TypeOK, OfferTypes
    <3>3. offer' = [o \in Offers |-> offer'[o]]
      BY <1>11 DEF Delete, TypeOK, OfferTypes
    <3> QED BY <3>2, <3>3 DEF OfferTypes
  <2>4. LocalTypes'
    BY <1>11 DEF Delete, TypeOK, FlyerTypes, LocalTypes
  <2> QED BY <1>11, <2>1, <2>2, <2>3, <2>4, Frame DEF Delete, TypeOK, flyerVars, copyVars, jobVars, localVars, boundVars
<1> QED
  BY <1>1, <1>2, <1>3, <1>4, <1>5, <1>6, <1>7, <1>8, <1>9, <1>10, <1>11 DEF Edit

\* So does what happens to handlers and beside them.
LEMMA TypeBeside ==
  ASSUME TypeOK, \/ \E p \in Servers : Fault(p) \/ Refusal(p)
                 \/ DeleteFlyer
                 \/ \E c \in Copies : TakeJob(c) \/ ReturnJob(c)
  PROVE  TypeOK'
<1>1. ASSUME NEW p \in Servers, Stops(p), faults' = faults \/ Fault(p) PROVE TypeOK'
  <2>1. StepTypes'
    BY <1>1, GotoType DEF Stops, Steps
  <2>2. LocalTypes'
    BY <1>1 DEF Stops, TypeOK, LocalTypes
  <2>3. BoundTypes'
    BY <1>1, BoundsAssumption DEF Stops, Fault, TypeOK, BoundTypes
  <2> QED BY <1>1, <2>1, <2>2, <2>3, Frame DEF Stops, TypeOK
<1>2. CASE DeleteFlyer
  <2>1. OfferTypes'
    <3>1. ASSUME NEW o \in Offers PROVE offer[o] \in OfferType
      BY DEF TypeOK, OfferTypes
    <3>2. ASSUME NEW o \in Offers PROVE offer'[o] \in OfferType
      BY <1>2, <3>1, OfferState DEF DeleteFlyer
    <3>3. offer' = [o \in Offers |-> offer'[o]]
      BY <1>2 DEF DeleteFlyer
    <3> QED BY <3>2, <3>3 DEF OfferTypes
  <2>2. FlyerTypes' /\ CopyTypes' /\ CloneTypes' /\ NoOrphans'
    BY <1>2 DEF DeleteFlyer, TypeOK, FlyerTypes, CopyTypes, CloneTypes, NoOrphans, Live
  <2> QED BY <1>2, <2>1, <2>2, Frame DEF DeleteFlyer, TypeOK
<1>3. ASSUME NEW c \in Copies, TakeJob(c) \/ ReturnJob(c) PROVE TypeOK'
  <2>1. JobTypes'
    BY <1>3 DEF TakeJob, ReturnJob, TypeOK, JobTypes
  <2> QED BY <1>3, <2>1, Frame DEF TakeJob, ReturnJob, TypeOK
<1> QED BY <1>1, <1>2, <1>3 DEF Fault, Refusal

\* Every step of the system keeps every type.
LEMMA TypeStep ==
  ASSUME TypeOK, [Next]_vars
  PROVE  TypeOK'
<1>1. CASE Next
  BY <1>1, TypePublish, TypeEdit, TypeBeside DEF Next
<1>2. CASE UNCHANGED vars
  BY <1>2, Frame DEF vars, TypeOK
<1> QED BY <1>1, <1>2

\* Every variable keeps its type, and no target or published copy outlives the
\* source flyer, whichever handler is under way when it is deleted.
THEOREM TypeCorrect == Spec => []TypeOK
BY TypeInit, TypeStep, PTL DEF Spec

-----------------------------------------------------------------------------
(* What is public was confirmed.                                            *)

\* Ids are not given twice: a clone never comes to belong to a later copy.
NewIds == \A c \in Live : c <= made

\* With the types it is inductive.
PublicInv == TypeOK /\ NewIds /\ OnlyConfirmedIsPublic

\* A step that changes no offer, copy or clone changes nothing public.
LEMMA PublicFrame ==
  ASSUME NewIds, OnlyConfirmedIsPublic, UNCHANGED <<offer, market, made, clone>>
  PROVE  NewIds' /\ OnlyConfirmedIsPublic'
  BY DEF NewIds, OnlyConfirmedIsPublic, Live, Confirmed

\* Nor does one that changes offers, or the text and date of clones, but neither
\* deletes a confirmed offer nor moves a clone to another copy.
LEMMA PublicSame ==
  ASSUME NewIds, OnlyConfirmedIsPublic, UNCHANGED <<market, made>>, Confirmed \subseteq Confirmed',
         \A s \in Sites : clone'[s] # None => clone[s] # None /\ clone'[s].flyer = clone[s].flyer
  PROVE  NewIds' /\ OnlyConfirmedIsPublic'
  BY DEF NewIds, OnlyConfirmedIsPublic, Live

\* What is left when copies or offers are deleted was there and is not of them.
LEMMA WithoutLess ==
  ASSUME NEW cs, NEW os, NEW s \in Sites, Without(cs, os)[s] # None
  PROVE  /\ Without(cs, os)[s] = clone[s]
         /\ clone[s] # None
         /\ clone[s].flyer \notin cs
         /\ s[1] \notin os
  BY DEF Without

\* Materialization makes clones of confirmed offers for copies of their market.
LEMMA MaterializedPublic ==
  ASSUME NEW s \in Sites, Materialized[s] # None
  PROVE  s[1] \in Confirmed /\ market[Materialized[s].flyer] = s[2]
<1>1. s[1] \in Cloned /\ \E c \in Live : market[c] = s[2]
  BY DEF Materialized
<1> DEFINE d == CHOOSE c \in Live : market[c] = s[2]
<1>2. market[d] = s[2]
  BY <1>1
<1>3. Materialized[s] = [flyer |-> d, text |-> offer[s[1]].text, date |-> offer[s[1]].date]
  BY <1>1 DEF Materialized
<1> HIDE DEF d
<1> QED BY <1>1, <1>2, <1>3 DEF Cloned

\* Making the clones again keeps what is public confirmed.
LEMMA PublicMaterialized ==
  ASSUME NewIds, UNCHANGED <<offer, market, made>>, clone' = Materialized
  PROVE  NewIds' /\ OnlyConfirmedIsPublic'
<1>1. NewIds'
  BY DEF NewIds, Live
<1>2. ASSUME NEW s \in Sites, clone'[s] # None
      PROVE  s[1] \in Confirmed /\ market[clone'[s].flyer] = s[2]
  BY <1>2, MaterializedPublic
<1> QED BY <1>1, <1>2 DEF OnlyConfirmedIsPublic, Confirmed

\* Deleting clones alone keeps it too.
LEMMA PublicWithout ==
  ASSUME NewIds, OnlyConfirmedIsPublic, NEW cs, NEW os,
         UNCHANGED <<offer, market, made>>, clone' = Without(cs, os)
  PROVE  NewIds' /\ OnlyConfirmedIsPublic'
<1>1. \A s \in Sites : clone'[s] # None => clone[s] # None /\ clone'[s].flyer = clone[s].flyer
  BY WithoutLess
<1>2. Confirmed' = Confirmed
  BY DEF Confirmed
<1> QED BY <1>1, <1>2, PublicSame

\* Every step of a confirmation or of a change of targets.
LEMMA PublicPublish ==
  ASSUME PublicInv, NEW p \in Servers, Publish(p)
  PROVE  NewIds' /\ OnlyConfirmedIsPublic'
<1> USE DEF PublicInv
<1>1. ASSUME Confirm(p) PROVE NewIds' /\ OnlyConfirmedIsPublic'
  <2>1. Confirmed \subseteq Confirmed'
    BY <1>1 DEF Confirm, Confirmed, Drafts, TypeOK, OfferTypes
  <2> QED BY <1>1, <2>1, PublicSame DEF Confirm, copyVars
<1>2. ASSUME Hide(p) PROVE NewIds' /\ OnlyConfirmedIsPublic'
  BY <1>2, PublicWithout DEF Hide, copyVars
<1>3. ASSUME Remove(p) PROVE NewIds' /\ OnlyConfirmedIsPublic'
  <2>1. NewIds'
    BY <1>3 DEF Remove, NewIds, Live
  <2>2. ASSUME NEW s \in Sites, clone'[s] # None
        PROVE  s[1] \in Confirmed /\ market'[clone'[s].flyer] = s[2]
    <3>1. clone'[s] = clone[s] /\ clone[s] # None /\ clone[s].flyer \notin Stale(p)
      BY <1>3, <2>2, WithoutLess DEF Remove
    <3>2. clone[s].flyer \in Copies
      BY <3>1 DEF TypeOK, CloneTypes, Clones
    <3>3. market'[clone[s].flyer] = market[clone[s].flyer]
      BY <1>3, <3>1, <3>2 DEF Remove
    <3> QED BY <3>1, <3>3 DEF OnlyConfirmedIsPublic
  <2>3. Confirmed' = Confirmed
    BY <1>3 DEF Remove, Confirmed
  <2> QED BY <2>1, <2>2, <2>3 DEF OnlyConfirmedIsPublic
<1>4. ASSUME NEW m \in Markets, Insert(p, m) PROVE NewIds' /\ OnlyConfirmedIsPublic'
  <2>1. made \in Nat /\ made' = made + 1
    BY <1>4, BoundsAssumption DEF Insert, TypeOK, CopyTypes
  <2>2. ASSUME NEW c \in Copies, c # made + 1 PROVE market'[c] = market[c]
    BY <1>4, <2>2 DEF Insert, TypeOK, CopyTypes
  <2>3. NewIds'
    BY <2>1, <2>2 DEF NewIds, Live, Copies
  <2>4. ASSUME NEW s \in Sites, clone[s] # None PROVE market'[clone[s].flyer] = market[clone[s].flyer]
    <3>1. clone[s].flyer \in Copies
      BY <2>4 DEF TypeOK, CloneTypes, Clones
    <3>2. market[clone[s].flyer] \in Markets
      BY <2>4 DEF OnlyConfirmedIsPublic, Sites
    <3>3. clone[s].flyer \in Live
      BY <3>1, <3>2, NoneAssumption DEF Live
    <3>4. clone[s].flyer # made + 1
      BY <3>1, <3>3, <2>1 DEF NewIds, Copies
    <3> QED BY <2>2, <3>1, <3>4
  <2>5. clone' = clone /\ Confirmed' = Confirmed
    BY <1>4 DEF Insert, Confirmed
  <2> QED BY <2>3, <2>4, <2>5 DEF OnlyConfirmedIsPublic
<1>5. ASSUME Materialize(p) PROVE NewIds' /\ OnlyConfirmedIsPublic'
  BY <1>5, PublicMaterialized DEF Materialize, copyVars
<1>6. CASE UNCHANGED <<offer, market, made, clone>>
  BY <1>6, PublicFrame
<1> QED
  BY <1>1, <1>2, <1>3, <1>4, <1>5, <1>6 DEF Publish, StartConfirm, Count, StartTargets, Unlink,
     Link, Reread, Lookup, Update, Enqueue, copyVars

\* Every step of the other handlers.
LEMMA PublicEdit ==
  ASSUME PublicInv, NEW p \in Servers, Edit(p)
  PROVE  NewIds' /\ OnlyConfirmedIsPublic'
<1> USE DEF PublicInv
<1>1. ASSUME OfferDates(p) PROVE NewIds' /\ OnlyConfirmedIsPublic'
  <2>1. Confirmed \subseteq Confirmed'
    BY <1>1 DEF OfferDates, Confirmed, TypeOK, OfferTypes, OfferType
  <2> QED BY <1>1, <2>1, PublicSame DEF OfferDates, copyVars
<1>2. ASSUME CloneDates(p) PROVE NewIds' /\ OnlyConfirmedIsPublic'
  <2>1. ASSUME NEW s \in Sites, clone'[s] # None
        PROVE  clone[s] # None /\ clone'[s].flyer = clone[s].flyer
    BY <1>2, <2>1 DEF CloneDates, TypeOK, CloneTypes, Clones
  <2>2. Confirmed' = Confirmed
    BY <1>2 DEF CloneDates, Confirmed
  <2> QED BY <1>2, <2>1, <2>2, PublicSame DEF CloneDates, copyVars
<1>3. ASSUME NEW o \in Offers, NEW t \in Texts, NEW d \in Dates, AddDraft(p, o, t, d)
      PROVE  NewIds' /\ OnlyConfirmedIsPublic'
  <2>1. Confirmed \subseteq Confirmed'
    BY <1>3 DEF AddDraft, Confirmed, TypeOK, OfferTypes
  <2> QED BY <1>3, <2>1, PublicSame DEF AddDraft, copyVars
<1>4. ASSUME NEW o \in Offers, NEW t \in Texts, EditOffer(p, o, t)
      PROVE  NewIds' /\ OnlyConfirmedIsPublic'
  <2>1. Confirmed \subseteq Confirmed'
    BY <1>4 DEF EditOffer, Confirmed, TypeOK, OfferTypes, OfferType
  <2> QED BY <1>4, <2>1, PublicSame DEF EditOffer, copyVars
<1>5. ASSUME NEW o \in Offers, StartDelete(p, o) PROVE NewIds' /\ OnlyConfirmedIsPublic'
  <2>1. CASE clone' = Without({}, {o})
    BY <1>5, <2>1, PublicWithout DEF StartDelete, copyVars
  <2>2. CASE clone' = clone
    BY <1>5, <2>2, PublicFrame DEF StartDelete, copyVars
  <2> QED BY <1>5, <2>1, <2>2 DEF StartDelete
<1>6. ASSUME Refresh(p) PROVE NewIds' /\ OnlyConfirmedIsPublic'
  BY <1>6, PublicMaterialized DEF Refresh, copyVars
<1>7. ASSUME Delete(p) PROVE NewIds' /\ OnlyConfirmedIsPublic'
  <2>1. ASSUME NEW s \in Sites, clone'[s] # None
        PROVE  clone'[s] = clone[s] /\ clone[s] # None /\ s[1] # at[p]
    BY <1>7, <2>1, WithoutLess DEF Delete
  <2>2. ASSUME NEW o \in Confirmed, o # at[p] PROVE o \in Confirmed'
    BY <1>7, <2>2 DEF Delete, Confirmed, TypeOK, OfferTypes
  <2>3. NewIds' /\ market' = market
    BY <1>7 DEF Delete, NewIds, Live, copyVars
  <2> QED BY <2>1, <2>2, <2>3 DEF OnlyConfirmedIsPublic
<1>8. CASE UNCHANGED <<offer, market, made, clone>>
  BY <1>8, PublicFrame
<1> QED
  BY <1>1, <1>2, <1>3, <1>4, <1>5, <1>6, <1>7, <1>8 DEF Edit, StartValidity, FindCopies,
     CopyDate, Reschedule, copyVars

\* Whatever is public was confirmed and not deleted, and is shown for the market of
\* its copy, for any number of servers whose requests interleave and stop half-way.
THEOREM OnlyConfirmed == Spec => []OnlyConfirmedIsPublic
<1>1. Init => PublicInv
  BY TypeInit DEF Init, PublicInv, NewIds, OnlyConfirmedIsPublic, Live
<1>2. PublicInv /\ [Next]_vars => PublicInv'
  <2> SUFFICES ASSUME PublicInv, [Next]_vars PROVE PublicInv'
    OBVIOUS
  <2>1. TypeOK'
    BY TypeStep DEF PublicInv
  <2>2. CASE DeleteFlyer
    BY <2>1, <2>2 DEF DeleteFlyer, PublicInv, NewIds, OnlyConfirmedIsPublic, Live
  <2>3. CASE UNCHANGED <<offer, market, made, clone>>
    BY <2>1, <2>3, PublicFrame DEF PublicInv
  <2>4. CASE \E p \in Servers : Publish(p) \/ Edit(p)
    BY <2>1, <2>4, PublicPublish, PublicEdit DEF PublicInv
  <2> QED
    BY <2>2, <2>3, <2>4 DEF Next, Fault, Refusal, Stops, TakeJob, ReturnJob, vars, copyVars
<1> QED BY <1>1, <1>2, PTL DEF Spec, PublicInv

-----------------------------------------------------------------------------
(* A market has one copy, when one server answers the requests.             *)

\* From the lookup to the last insertion, every market that is left and has a
\* copy was found to have one: nothing else inserts copies.
LookupCurrent ==
  \A p \in Servers : pc[p] \in {"hide", "remove", "upsert"} =>
    \A m \in todo[p] : (\E c \in Live : market[c] = m) => found[p][m] # None

\* It is inductive with the types.
CopyInv == TypeOK /\ LookupCurrent /\ OneCopyPerMarket

\* The step of a server that changes no copy.
LEMMA CopyFrame ==
  ASSUME LookupCurrent, OneCopyPerMarket, UNCHANGED <<market, pc, found, todo>>
  PROVE  LookupCurrent' /\ OneCopyPerMarket'
  BY DEF LookupCurrent, OneCopyPerMarket, Live

\* A step that only deletes copies, to anywhere but the lookup or between the
\* steps that use it.
LEMMA CopyDeleted ==
  ASSUME TypeOK, OneCopyPerMarket,
         \A c \in Copies : market'[c] = market[c] \/ market'[c] = None
  PROVE  OneCopyPerMarket'
  BY DEF OneCopyPerMarket, Live

\* The same for a server that is not looking after copies then.
LEMMA CopyElsewhere ==
  ASSUME TypeOK, NEW q, Servers = {q}, OneCopyPerMarket, UNCHANGED market,
         pc'[q] \notin {"hide", "remove", "upsert"}
  PROVE  LookupCurrent' /\ OneCopyPerMarket'
  BY DEF LookupCurrent, OneCopyPerMarket, Live

\* Every step of a confirmation or of a change of targets.
LEMMA CopyPublish ==
  ASSUME CopyInv, NEW q, Servers = {q}, Publish(q)
  PROVE  LookupCurrent' /\ OneCopyPerMarket'
<1> USE DEF CopyInv
<1> pc \in [Servers -> Steps]
  BY DEF TypeOK, StepTypes
<1>1. ASSUME Lookup(q) PROVE LookupCurrent' /\ OneCopyPerMarket'
  <2>1. UNCHANGED market
    BY <1>1 DEF Lookup, copyVars
  <2>2. PICK f \in Lookups : found' = [found EXCEPT ![q] = f]
    BY <1>1 DEF Lookup
  <2>3. found'[q] = f
    BY <2>2 DEF TypeOK, LocalTypes
  <2>4. todo'[q] \subseteq Markets
    BY <1>1 DEF Lookup, TypeOK, LocalTypes
  <2>5. ASSUME NEW m \in Markets, \E c \in Live : market[c] = m PROVE f[m] # None
    BY <2>2, <2>5 DEF Lookups
  <2> QED BY <2>1, <2>3, <2>4, <2>5 DEF LookupCurrent, OneCopyPerMarket, Live
<1>2. ASSUME Hide(q) PROVE LookupCurrent' /\ OneCopyPerMarket'
  <2>1. UNCHANGED <<market, found, todo>> /\ pc[q] = "hide"
    BY <1>2 DEF Hide, copyVars, localVars
  <2> QED BY <2>1 DEF LookupCurrent, OneCopyPerMarket, Live
<1>3. ASSUME Remove(q) PROVE LookupCurrent' /\ OneCopyPerMarket'
  <2>1. UNCHANGED <<found, todo>> /\ pc[q] = "remove"
    BY <1>3 DEF Remove, localVars
  <2>2. \A c \in Copies : market'[c] = market[c] \/ market'[c] = None
    BY <1>3 DEF Remove
  <2>3. OneCopyPerMarket'
    BY <2>2, CopyDeleted
  <2>4. LookupCurrent'
    BY <2>1, <2>2, NoneAssumption DEF LookupCurrent, Live
  <2> QED BY <2>3, <2>4
<1>4. ASSUME NEW m \in Markets, Update(q, m) PROVE LookupCurrent' /\ OneCopyPerMarket'
  <2>1. UNCHANGED <<market, found, pc>> /\ todo'[q] = todo[q] \ {m}
    BY <1>4 DEF Update, TypeOK, LocalTypes
  <2> QED BY <2>1 DEF LookupCurrent, OneCopyPerMarket, Live
<1>5. ASSUME NEW m \in Markets, Insert(q, m) PROVE LookupCurrent' /\ OneCopyPerMarket'
  <2>1. /\ UNCHANGED <<found, pc>>
        /\ todo'[q] = todo[q] \ {m}
        /\ pc[q] = "upsert"
        /\ m \in todo[q]
        /\ found[q][m] = None
    BY <1>5 DEF Insert, TypeOK, LocalTypes
  <2>2. \A c \in Live : market[c] # m
    BY <2>1 DEF LookupCurrent
  <2>3. \A c \in Copies : IF c = made + 1 THEN market'[c] = m ELSE market'[c] = market[c]
    BY <1>5 DEF Insert, TypeOK, CopyTypes
  <2>4. OneCopyPerMarket'
    BY <2>2, <2>3 DEF OneCopyPerMarket, Live
  <2>5. LookupCurrent'
    BY <2>1, <2>3 DEF LookupCurrent, Live
  <2> QED BY <2>4, <2>5
<1>6. CASE UNCHANGED market /\ pc'[q] \notin {"hide", "remove", "upsert"}
  BY <1>6, CopyElsewhere
<1>7. CASE StartConfirm(q) \/ Confirm(q) \/ Count(q)
  BY <1>6, <1>7 DEF StartConfirm, Confirm, Count, Goto, copyVars
<1>8. CASE Unlink(q) \/ Link(q) \/ Reread(q) \/ \E T \in SUBSET Markets : StartTargets(q, T)
  BY <1>6, <1>8 DEF StartTargets, Unlink, Link, Reread, Goto, copyVars
<1>9. CASE Materialize(q) \/ \E c \in Copies : Enqueue(q, c)
  BY <1>6, <1>9 DEF Materialize, Enqueue, Goto, copyVars
<1> QED
  BY <1>1, <1>2, <1>3, <1>4, <1>5, <1>7, <1>8, <1>9 DEF Publish

\* Every step of the other handlers.
LEMMA CopyEdit ==
  ASSUME CopyInv, NEW q, Servers = {q}, Edit(q)
  PROVE  LookupCurrent' /\ OneCopyPerMarket'
<1> USE DEF CopyInv
<1> pc \in [Servers -> Steps]
  BY DEF TypeOK, StepTypes
<1>1. CASE UNCHANGED market /\ pc'[q] \notin {"hide", "remove", "upsert"}
  BY <1>1, CopyElsewhere
<1>2. CASE (\E d \in Dates : StartValidity(q, d)) \/ OfferDates(q) \/ FindCopies(q)
  BY <1>1, <1>2 DEF StartValidity, OfferDates, FindCopies, Goto, copyVars
<1>3. CASE (\E c \in Copies : CopyDate(q, c)) \/ CloneDates(q) \/ Reschedule(q)
  BY <1>1, <1>3 DEF CopyDate, CloneDates, Reschedule, Goto, copyVars
<1>4. CASE \E o \in Offers, t \in Texts, d \in Dates : AddDraft(q, o, t, d)
  <2>1. UNCHANGED <<market, pc, found, todo>>
    BY <1>4 DEF AddDraft, copyVars, localVars
  <2> QED BY <2>1, CopyFrame
<1>5. CASE \E o \in Offers, t \in Texts : EditOffer(q, o, t)
  BY <1>1, <1>5 DEF EditOffer, Goto, copyVars
<1>6. CASE (\E o \in Offers : StartDelete(q, o)) \/ Refresh(q) \/ Delete(q)
  BY <1>1, <1>6 DEF StartDelete, Refresh, Delete, Goto, copyVars
<1> QED BY <1>2, <1>3, <1>4, <1>5, <1>6 DEF Edit

\* Every step of one server keeps one copy for each market.
LEMMA CopyStep ==
  ASSUME NEW q, Servers = {q}, CopyInv, [Next]_vars
  PROVE  CopyInv'
<1>1. TypeOK'
  BY TypeStep DEF CopyInv
<1>2. CASE Publish(q)
  BY <1>1, <1>2, CopyPublish DEF CopyInv
<1>3. CASE Edit(q)
  BY <1>1, <1>3, CopyEdit DEF CopyInv
<1>4. CASE Stops(q)
  <2>1. UNCHANGED market /\ pc'[q] = "idle"
    BY <1>4 DEF Stops, Goto, copyVars, CopyInv, TypeOK, StepTypes
  <2> QED BY <1>1, <2>1, CopyElsewhere DEF CopyInv
<1>5. CASE DeleteFlyer
  BY <1>1, <1>5 DEF DeleteFlyer, CopyInv, LookupCurrent, OneCopyPerMarket, Live
<1>6. CASE UNCHANGED <<market, pc, found, todo>>
  BY <1>1, <1>6, CopyFrame DEF CopyInv
<1> QED
  BY <1>2, <1>3, <1>4, <1>5, <1>6 DEF Next, Fault, Refusal, TakeJob, ReturnJob, vars, copyVars, localVars

\* A market never has two published copies of the flyer, however many requests stop
\* half-way and are retried, provided that one server answers them.
THEOREM OneCopyForEachMarket ==
  ASSUME NEW q, Servers = {q}
  PROVE  Spec => []OneCopyPerMarket
<1>1. Init => CopyInv
  BY TypeInit DEF Init, CopyInv, LookupCurrent, OneCopyPerMarket, Live
<1>2. CopyInv /\ [Next]_vars => CopyInv'
  BY CopyStep
<1>3. CopyInv => OneCopyPerMarket
  BY DEF CopyInv
<1> QED BY <1>1, <1>2, <1>3, PTL DEF Spec

-----------------------------------------------------------------------------
(* A publication that completes repairs what is public, when one server     *)
(* answers the requests.                                                    *)

\* The parts of Synced.
TargetsShown == Live # {} \/ Confirmed # {} => {market[c] : c \in Live} = targets
DatesShown == \A c \in Live : until[c] = date
Shown(o, c) == clone[<<o, market[c]>>] = [flyer |-> c, text |-> offer[o].text, date |-> offer[o].date]
OffersShown == \A c \in Live, o \in Confirmed : Shown(o, c)

\* What is public but for the validity of the clones.
NearlyShown ==
  \A c \in Live, o \in Confirmed : \E d \in Dates :
    clone[<<o, market[c]>>] = [flyer |-> c, text |-> offer[o].text, date |-> d]

\* What a publication read is still so when it uses it.
ReadsCurrent(p) ==
  pc[p] \in {"confirm", "count", "lookup", "hide", "remove", "upsert", "enqueue"} =>
    want[p] = targets /\ when[p] = date

\* Before it deletes copies, it knows every one there is.
FoundCurrent(p) ==
  /\ \A c \in Live : found[p][market[c]] = c
  /\ \A m \in Markets : found[p][m] # None => found[p][m] \in Live /\ market[found[p][m]] = m
  /\ todo[p] = want[p]

\* While it updates and inserts copies, all are for its targets, and the targets
\* it has dealt with have a copy with its validity.
PlacedSoFar(p) ==
  /\ todo[p] \subseteq want[p]
  /\ \A c \in Live : market[c] \in want[p]
  /\ \A m \in want[p] \ todo[p] : \E c \in Live : market[c] = m
  /\ \A c \in Live : market[c] \in todo[p] \/ until[c] = date
  /\ \A m \in todo[p] : found[p][m] # None => found[p][m] \in Live /\ market[found[p][m]] = m

\* While a new validity travels from the flyer to its offers, copies and clones.
DatedSoFar(p) ==
  /\ TargetsShown
  /\ when[p] = date
  /\ pc[p] = "offers" => OffersShown
  /\ pc[p] # "offers" => (\A o \in Confirmed : offer[o].date = date) /\ NearlyShown
  /\ pc[p] \in {"copies", "clones", "job"} =>
       \A c \in Live : c \notin rest[p] => until[c] = date /\ \A o \in Confirmed : Shown(o, c)
  /\ pc[p] \in {"clones", "job"} => at[p] \in Copies /\ until[at[p]] = date
  /\ pc[p] = "job" => \A c \in Live : c = at[p] => \A o \in Confirmed : Shown(o, c)

\* What holds between the requests of a handler: a publication establishes Synced
\* whatever it finds, the other handlers keep it if it held before them.
SyncedSoFar(p) ==
  /\ pc[p] \in {"idle", "confirm"} /\ ~broken => Synced
  /\ pc[p] = "enqueue" => Synced
  /\ ReadsCurrent(p)
  /\ pc[p] = "count" => Confirmed # {}
  /\ pc[p] = "link" => targets = {}
  /\ pc[p] \in {"hide", "remove"} => FoundCurrent(p)
  /\ pc[p] = "upsert" => PlacedSoFar(p)
  /\ pc[p] \in {"offers", "find", "copies", "clones", "job"} /\ ~broken => DatedSoFar(p)
  /\ pc[p] = "refresh" /\ ~broken => TargetsShown /\ DatesShown
  /\ pc[p] = "delete" /\ ~broken =>
       /\ TargetsShown /\ DatesShown
       /\ \A c \in Live, o \in Confirmed : o # at[p] => Shown(o, c)

\* With one copy for each market and new ids it is inductive.
RepairInv == CopyInv /\ NewIds /\ (exists => \A p \in Servers : SyncedSoFar(p))

\* Synced is its parts.
LEMMA SyncedParts ==
  /\ Synced <=> TargetsShown /\ DatesShown /\ OffersShown
  /\ Synced' <=> TargetsShown' /\ DatesShown' /\ OffersShown'
  BY DEF Synced, TargetsShown, DatesShown, OffersShown, Shown

\* What a step leaves alone stays as public as it was.
LEMMA ShownFrame ==
  /\ UNCHANGED <<targets, market, offer>> => TargetsShown' = TargetsShown
  /\ UNCHANGED <<date, market, until>> => DatesShown' = DatesShown
  /\ UNCHANGED <<market, offer, clone>> => OffersShown' = OffersShown
  BY DEF TargetsShown, DatesShown, OffersShown, Shown, Live, Confirmed

\* A step that leaves the confirmed offers and what is public alone keeps Synced.
LEMMA SyncedFrame ==
  ASSUME Synced, UNCHANGED <<date, targets, copyVars, clone>>, Confirmed' = Confirmed,
         \A o \in Confirmed : offer'[o] = offer[o]
  PROVE  Synced'
  BY DEF Synced, Live, copyVars

\* A copy is for a market, and a clone of an offer for it has its place.
LEMMA PlaceOf ==
  ASSUME TypeOK, NEW c \in Live, NEW o \in Confirmed
  PROVE  market[c] \in Markets /\ o \in Offers /\ <<o, market[c]>> \in Sites
  BY DEF TypeOK, CopyTypes, Live, Confirmed, Sites

\* Materialization shows every confirmed offer in every copy.
LEMMA MaterializedShows ==
  ASSUME TypeOK, OneCopyPerMarket, UNCHANGED <<market, offer>>, clone' = Materialized
  PROVE  OffersShown'
<1> SUFFICES ASSUME NEW c \in Live, NEW o \in Confirmed
             PROVE  clone'[<<o, market[c]>>] =
                      [flyer |-> c, text |-> offer[o].text, date |-> offer[o].date]
  BY DEF OffersShown, Shown, Live, Confirmed
<1>1. <<o, market[c]>> \in Sites
  BY PlaceOf
<1> DEFINE d == CHOOSE e \in Live : market[e] = market[c]
<1>2. d \in Live /\ market[d] = market[c]
  OBVIOUS
<1>3. d = c
  BY <1>2 DEF OneCopyPerMarket
<1>4. clone'[<<o, market[c]>>] =
        [flyer |-> d, text |-> offer[o].text, date |-> offer[o].date]
  BY <1>1 DEF Materialized, Cloned
<1> HIDE DEF d
<1> QED BY <1>3, <1>4

\* A step to the lookup or before it keeps what a handler needs, when it has read.
LEMMA SyncedEarly ==
  ASSUME NEW p \in Servers,
         pc'[p] \in {"unlink", "reread"} \/ (pc'[p] = "lookup" /\ ReadsCurrent(p)')
                                         \/ (pc'[p] = "count" /\ ReadsCurrent(p)' /\ Confirmed' # {})
                                         \/ (pc'[p] = "link" /\ targets' = {})
  PROVE  SyncedSoFar(p)'
  BY DEF SyncedSoFar, ReadsCurrent

\* The steps of a publication up to its lookup.
LEMMA SyncedStart ==
  ASSUME RepairInv, NEW p \in Servers, exists,
         \/ StartConfirm(p) \/ Confirm(p) \/ Count(p) \/ Unlink(p) \/ Link(p) \/ Reread(p)
         \/ \E T \in SUBSET Markets : StartTargets(p, T)
  PROVE  SyncedSoFar(p)'
<1>t. /\ pc \in [Servers -> Steps] /\ want \in [Servers -> SUBSET Markets]
      /\ when \in [Servers -> Dates] /\ OfferTypes
  BY DEF RepairInv, CopyInv, TypeOK, StepTypes, LocalTypes
<1>s. SyncedSoFar(p)
  BY DEF RepairInv
<1>1. ASSUME StartConfirm(p) PROVE SyncedSoFar(p)'
  <2>1. pc[p] = "idle" /\ pc'[p] = "confirm" /\ want'[p] = targets /\ when'[p] = date
    BY <1>1, <1>t DEF StartConfirm, Arrives, Goto
  <2>2. UNCHANGED <<flyerVars, offer, copyVars, clone, broken>>
    BY <1>1 DEF StartConfirm, Arrives
  <2>3. Synced => Synced'
    BY <2>2, SyncedFrame DEF flyerVars, Confirmed
  <2> QED BY <1>s, <2>1, <2>2, <2>3 DEF SyncedSoFar, ReadsCurrent, flyerVars
<1>2. ASSUME Confirm(p) PROVE SyncedSoFar(p)'
  <2>1. pc[p] = "confirm" /\ pc'[p] = IF Drafts = {} THEN "idle" ELSE "count"
    BY <1>2, <1>t DEF Confirm, Goto
  <2>2. UNCHANGED <<flyerVars, copyVars, clone, localVars, broken>>
    BY <1>2 DEF Confirm, boundVars
  <2>3. ASSUME NEW o \in Offers
        PROVE  offer'[o] = IF o \in Drafts THEN [offer[o] EXCEPT !.state = "confirmed"] ELSE offer[o]
    BY <1>2 DEF Confirm
  <2>4. CASE Drafts = {}
    <3>1. \A o \in Offers : offer'[o] = offer[o]
      BY <2>3, <2>4
    <3>2. Confirmed' = Confirmed
      BY <3>1 DEF Confirmed
    <3>3. Synced => Synced'
      BY <2>2, <3>1, <3>2, SyncedFrame DEF flyerVars, Confirmed
    <3> QED BY <1>s, <2>1, <2>2, <2>4, <3>3 DEF SyncedSoFar, ReadsCurrent
  <2>5. CASE Drafts # {}
    <3>1. PICK o \in Drafts : TRUE
      BY <2>5
    <3>2. o \in Offers /\ offer[o] \in OfferType
      BY <1>t, <3>1 DEF Drafts, OfferTypes
    <3>3. offer'[o].state = "confirmed"
      BY <2>3, <3>1, <3>2 DEF OfferType
    <3>4. Confirmed' # {}
      BY <3>2, <3>3 DEF Confirmed
    <3>5. ReadsCurrent(p)'
      BY <1>s, <2>1, <2>2 DEF SyncedSoFar, ReadsCurrent, flyerVars, localVars
    <3> QED BY <2>1, <2>5, <3>4, <3>5, SyncedEarly
  <2> QED BY <2>4, <2>5
<1>3. ASSUME Count(p) PROVE SyncedSoFar(p)'
  <2>1. pc[p] = "count" /\ pc'[p] = IF Confirmed = {} THEN "idle" ELSE "lookup"
    BY <1>3, <1>t DEF Count, Goto
  <2>2. UNCHANGED <<flyerVars, localVars>>
    BY <1>3 DEF Count
  <2>3. Confirmed # {}
    BY <1>s, <2>1 DEF SyncedSoFar
  <2>4. ReadsCurrent(p)'
    BY <1>s, <2>1, <2>2 DEF SyncedSoFar, ReadsCurrent, flyerVars, localVars
  <2> QED BY <2>1, <2>3, <2>4, SyncedEarly
<1>4. ASSUME Unlink(p) PROVE SyncedSoFar(p)'
  <2>1. pc'[p] = "link" /\ targets' = {}
    BY <1>4, <1>t DEF Unlink, Goto
  <2> QED BY <2>1, SyncedEarly
<1>5. ASSUME Link(p) PROVE SyncedSoFar(p)'
  <2>1. pc'[p] = "reread"
    BY <1>5, <1>t DEF Link, Goto
  <2> QED BY <2>1, SyncedEarly
<1>6. ASSUME Reread(p) PROVE SyncedSoFar(p)'
  <2>1. pc'[p] = IF Confirmed = {} /\ Live = {} THEN "idle" ELSE "lookup"
    BY <1>6, <1>t DEF Reread, Goto
  <2>2. want'[p] = targets /\ when'[p] = date /\ UNCHANGED <<flyerVars, offer, copyVars>>
    BY <1>6, <1>t DEF Reread
  <2>3. CASE Confirmed = {} /\ Live = {}
    <3>1. Synced'
      BY <2>2, <2>3 DEF Synced, Live, Confirmed, copyVars
    <3> QED BY <2>1, <2>3, <3>1 DEF SyncedSoFar, ReadsCurrent
  <2>4. CASE ~(Confirmed = {} /\ Live = {})
    <3>1. ReadsCurrent(p)'
      BY <2>2 DEF ReadsCurrent, flyerVars
    <3> QED BY <2>1, <2>4, <3>1, SyncedEarly
  <2> QED BY <2>3, <2>4
<1>7. ASSUME NEW T \in SUBSET Markets, StartTargets(p, T) PROVE SyncedSoFar(p)'
  <2>1. pc'[p] = "unlink"
    BY <1>7, <1>t DEF StartTargets, Goto
  <2> QED BY <2>1, SyncedEarly
<1> QED BY <1>1, <1>2, <1>3, <1>4, <1>5, <1>6, <1>7

\* A publication that reads the copies knows them all, and one for each market.
LEMMA SyncedLookup ==
  ASSUME RepairInv, NEW p \in Servers, exists, Lookup(p) \/ Hide(p)
  PROVE  SyncedSoFar(p)'
<1>t. /\ pc \in [Servers -> Steps] /\ CopyTypes /\ LocalTypes
  BY DEF RepairInv, CopyInv, TypeOK, StepTypes
<1>s. SyncedSoFar(p) /\ OneCopyPerMarket
  BY DEF RepairInv, CopyInv
<1>1. ASSUME Lookup(p) PROVE SyncedSoFar(p)'
  <2>1. pc[p] = "lookup" /\ pc'[p] = "hide"
    BY <1>1, <1>t DEF Lookup, Goto
  <2>2. /\ UNCHANGED <<flyerVars, market, want, when>>
        /\ todo'[p] = want[p]
    BY <1>1, <1>t DEF Lookup, copyVars, LocalTypes
  <2>3. PICK f \in Lookups : found' = [found EXCEPT ![p] = f]
    BY <1>1 DEF Lookup
  <2>4. found'[p] = f
    BY <1>t, <2>3 DEF LocalTypes
  <2>5. ASSUME NEW m \in Markets, f[m] # None PROVE f[m] \in Live /\ market[f[m]] = m
    BY <2>3, <2>5 DEF Lookups
  <2>6. ASSUME NEW c \in Live PROVE f[market[c]] = c
    <3>1. market[c] \in Markets
      BY <1>t DEF CopyTypes, Live
    <3>2. f[market[c]] # None
      BY <2>3, <3>1 DEF Lookups
    <3>3. f[market[c]] \in Live /\ market[f[market[c]]] = market[c]
      BY <2>5, <3>1, <3>2
    <3> QED BY <1>s, <3>3 DEF OneCopyPerMarket
  <2>7. FoundCurrent(p)'
    BY <2>2, <2>4, <2>5, <2>6 DEF FoundCurrent, Live
  <2>8. ReadsCurrent(p)'
    BY <1>s, <2>1, <2>2 DEF SyncedSoFar, ReadsCurrent, flyerVars
  <2> QED BY <2>1, <2>7, <2>8 DEF SyncedSoFar
<1>2. ASSUME Hide(p) PROVE SyncedSoFar(p)'
  <2>1. pc[p] = "hide" /\ pc'[p] = "remove"
    BY <1>2, <1>t DEF Hide, Goto
  <2>2. UNCHANGED <<flyerVars, copyVars, localVars>>
    BY <1>2 DEF Hide
  <2>3. FoundCurrent(p)'
    BY <1>s, <2>1, <2>2 DEF SyncedSoFar, FoundCurrent, Live, copyVars, localVars
  <2>4. ReadsCurrent(p)'
    BY <1>s, <2>1, <2>2 DEF SyncedSoFar, ReadsCurrent, flyerVars, localVars
  <2> QED BY <2>1, <2>3, <2>4 DEF SyncedSoFar
<1> QED BY <1>1, <1>2

\* The copies of other markets go, all of them and no other.
LEMMA SyncedRemove ==
  ASSUME RepairInv, NEW p \in Servers, exists, Remove(p)
  PROVE  SyncedSoFar(p)'
<1>t. /\ pc \in [Servers -> Steps] /\ CopyTypes /\ LocalTypes
  BY DEF RepairInv, CopyInv, TypeOK, StepTypes
<1>1. pc[p] = "remove" /\ pc'[p] = "upsert" /\ UNCHANGED <<flyerVars, until, localVars>>
  BY <1>t DEF Remove, Goto
<1>2. SyncedSoFar(p)
  BY DEF RepairInv
<1>3. FoundCurrent(p)
  BY <1>1, <1>2 DEF SyncedSoFar
<1>4. ASSUME NEW c \in Copies
      PROVE  market'[c] = IF c \in Stale(p) THEN None ELSE market[c]
  BY DEF Remove
<1>5. ASSUME NEW c \in Live' PROVE c \in Live /\ market'[c] = market[c] /\ market[c] \in want[p]
  <2>1. c \in Copies /\ c \notin Stale(p) /\ market'[c] = market[c] /\ market[c] # None
    BY <1>4 DEF Live
  <2>2. c \in Live /\ market[c] \in Markets
    BY <1>t, <2>1 DEF CopyTypes, Live
  <2>3. found[p][market[c]] = c /\ c # None
    BY <1>3, <2>1, <2>2, NoneAssumption DEF FoundCurrent, Copies
  <2>4. market[c] \in want[p]
    BY <2>1, <2>2, <2>3 DEF Stale
  <2> QED BY <2>1, <2>2, <2>4
<1>6. ASSUME NEW m \in want[p], found[p][m] # None
      PROVE  found[p][m] \in Live' /\ market'[found[p][m]] = m
  <2>1. m \in Markets
    BY <1>t DEF LocalTypes
  <2>2. found[p][m] \in Live /\ market[found[p][m]] = m
    BY <1>3, <1>6, <2>1 DEF FoundCurrent
  <2>3. found[p][m] \notin Stale(p)
    <3> SUFFICES ASSUME NEW n \in Markets \ want[p], found[p][n] = found[p][m] PROVE FALSE
      BY DEF Stale
    <3>1. market[found[p][n]] = n
      BY <1>3, <1>6 DEF FoundCurrent
    <3> QED BY <2>2, <3>1
  <2>4. market'[found[p][m]] = market[found[p][m]]
    BY <1>4, <2>2, <2>3 DEF Live
  <2> QED BY <2>2, <2>4 DEF Live
<1>7. PlacedSoFar(p)'
  <2>1. todo'[p] = want'[p] /\ want' = want /\ found' = found
    BY <1>1, <1>3 DEF FoundCurrent, localVars
  <2> QED BY <1>5, <1>6, <2>1 DEF PlacedSoFar
<1>8. ReadsCurrent(p)'
  BY <1>1, <1>2 DEF SyncedSoFar, ReadsCurrent, flyerVars, localVars
<1> QED BY <1>1, <1>7, <1>8 DEF SyncedSoFar

\* Each market's copy is updated or inserted, with the validity of the flyer.
LEMMA SyncedUpsert ==
  ASSUME RepairInv, NEW p \in Servers, exists, NEW m \in Markets, Update(p, m) \/ Insert(p, m)
  PROVE  SyncedSoFar(p)'
<1>t. /\ CopyTypes /\ LocalTypes
  BY DEF RepairInv, CopyInv, TypeOK
<1>0. NewIds
  BY DEF RepairInv
<1>1. /\ pc[p] = "upsert" /\ m \in todo[p]
      /\ UNCHANGED <<flyerVars, pc, want, when, found>>
      /\ todo'[p] = todo[p] \ {m}
  BY <1>t DEF Update, Insert, LocalTypes
<1>2. SyncedSoFar(p)
  BY DEF RepairInv
<1>3. PlacedSoFar(p) /\ when[p] = date
  BY <1>1, <1>2 DEF SyncedSoFar, ReadsCurrent
<1>4. ReadsCurrent(p)'
  BY <1>1, <1>2 DEF SyncedSoFar, ReadsCurrent, flyerVars
<1>5. CASE Update(p, m)
  <2> DEFINE d == found[p][m]
  <2>1. d \in Live /\ market[d] = m /\ UNCHANGED market
    BY <1>1, <1>3, <1>5 DEF Update, PlacedSoFar
  <2>2. d \in Copies /\ until' = [until EXCEPT ![d] = date]
    BY <1>3, <1>5, <2>1 DEF Update, Renewed, Live
  <2>3. \A c \in Copies : until'[c] = IF c = d THEN date ELSE until[c]
    BY <1>t, <2>2 DEF CopyTypes
  <2> HIDE DEF d
  <2>4. OneCopyPerMarket
    BY DEF RepairInv, CopyInv
  <2>5. \A c \in Live : market[c] = m => c = d
    BY <2>1, <2>4 DEF OneCopyPerMarket
  <2>6. Live' = Live /\ market' = market /\ date' = date
    BY <1>1, <2>1 DEF Live, flyerVars
  <2>7. \A c \in Live' : market'[c] \in todo'[p] \/ until'[c] = date'
    BY <1>1, <1>3, <2>3, <2>5, <2>6 DEF PlacedSoFar, Live
  <2>8. \A n \in want'[p] \ todo'[p] : \E c \in Live' : market'[c] = n
    BY <1>1, <1>3, <2>1, <2>6 DEF PlacedSoFar
  <2>9. /\ todo'[p] \subseteq want'[p]
        /\ \A c \in Live' : market'[c] \in want'[p]
        /\ \A n \in todo'[p] : found'[p][n] # None =>
             found'[p][n] \in Live' /\ market'[found'[p][n]] = n
    BY <1>1, <1>3, <2>6 DEF PlacedSoFar
  <2>10. PlacedSoFar(p)'
    BY <2>7, <2>8, <2>9 DEF PlacedSoFar
  <2> QED BY <1>1, <1>4, <2>10 DEF SyncedSoFar
<1>6. CASE Insert(p, m)
  <2> DEFINE d == made + 1
  <2>1. d \in Copies /\ d \notin Live
    BY <1>0, <1>6, <1>t, BoundsAssumption DEF Insert, CopyTypes, Copies, NewIds
  <2>2. \A c \in Copies : /\ market'[c] = IF c = d THEN m ELSE market[c]
                          /\ until'[c] = IF c = d THEN date ELSE until[c]
    BY <1>3, <1>6, <1>t DEF Insert, CopyTypes
  <2> HIDE DEF d
  <2>3. m # None /\ date' = date
    BY <1>1, NoneAssumption DEF flyerVars
  <2>4. Live' = Live \union {d}
    BY <2>1, <2>2, <2>3 DEF Live
  <2>5. \A c \in Live : c # d /\ market'[c] = market[c] /\ until'[c] = until[c]
    BY <2>1, <2>2 DEF Live
  <2>6. market'[d] = m /\ until'[d] = date'
    BY <2>1, <2>2, <2>3
  <2>7. \A c \in Live' : market'[c] \in todo'[p] \/ until'[c] = date'
    <3> SUFFICES ASSUME NEW c \in Live, c # d PROVE market[c] \in todo'[p] \/ until[c] = date
      BY <2>3, <2>4, <2>5, <2>6
    <3>1. found[p][m] = None
      BY <1>6 DEF Insert
    <3>2. market[c] # m
      BY <1>1, <3>1 DEF RepairInv, CopyInv, LookupCurrent
    <3> QED BY <1>1, <1>3, <3>2 DEF PlacedSoFar
  <2>8. \A n \in want'[p] \ todo'[p] : \E c \in Live' : market'[c] = n
    BY <1>1, <1>3, <2>4, <2>5, <2>6 DEF PlacedSoFar
  <2>9. /\ todo'[p] \subseteq want'[p]
        /\ \A c \in Live' : market'[c] \in want'[p]
        /\ \A n \in todo'[p] : found'[p][n] # None =>
             found'[p][n] \in Live' /\ market'[found'[p][n]] = n
    BY <1>1, <1>3, <2>4, <2>5, <2>6 DEF PlacedSoFar
  <2>10. PlacedSoFar(p)'
    BY <2>7, <2>8, <2>9 DEF PlacedSoFar
  <2> QED BY <1>1, <1>4, <2>10 DEF SyncedSoFar
<1> QED BY <1>5, <1>6

\* A publication that completes has synchronised whatever was found.
LEMMA SyncedMaterialize ==
  ASSUME RepairInv, NEW p \in Servers, exists,
         Materialize(p) \/ \E c \in Copies : Enqueue(p, c)
  PROVE  SyncedSoFar(p)'
<1>t. /\ pc \in [Servers -> Steps] /\ TypeOK /\ OneCopyPerMarket
  BY DEF RepairInv, CopyInv, TypeOK, StepTypes
<1>s. SyncedSoFar(p)
  BY DEF RepairInv
<1>1. CASE Materialize(p)
  <2>1. /\ pc[p] = "upsert" /\ pc'[p] \in {"idle", "enqueue"} /\ todo[p] = {}
        /\ clone' = Materialized
        /\ UNCHANGED <<flyerVars, offer, copyVars, localVars>>
    BY <1>1, <1>t DEF Materialize, Goto
  <2>2. PlacedSoFar(p) /\ want[p] = targets /\ when[p] = date
    BY <1>s, <2>1 DEF SyncedSoFar, ReadsCurrent
  <2>3. TargetsShown /\ DatesShown
    BY <2>1, <2>2 DEF PlacedSoFar, TargetsShown, DatesShown
  <2>4. OffersShown'
    BY <1>t, <2>1, MaterializedShows DEF copyVars
  <2>5. Synced'
    BY <2>1, <2>3, <2>4, ShownFrame, SyncedParts DEF flyerVars, copyVars
  <2> QED BY <2>1, <2>2, <2>5 DEF SyncedSoFar, ReadsCurrent, flyerVars, localVars
<1>2. ASSUME NEW c \in Copies, Enqueue(p, c) PROVE SyncedSoFar(p)'
  <2>1. /\ pc[p] = "enqueue" /\ pc'[p] \in {"idle", "enqueue"}
        /\ UNCHANGED <<flyerVars, offer, copyVars, clone, want, when>>
    BY <1>2, <1>t DEF Enqueue, Goto
  <2>2. Synced'
    BY <1>s, <2>1, SyncedFrame DEF SyncedSoFar, Confirmed, flyerVars
  <2> QED BY <1>s, <2>1, <2>2 DEF SyncedSoFar, ReadsCurrent, flyerVars
<1> QED BY <1>1, <1>2

\* A change of validity reaches the offers of a flyer that was synchronised.
LEMMA DatedOffers ==
  ASSUME RepairInv, NEW p \in Servers, exists,
         (\E d \in Dates : StartValidity(p, d)) \/ OfferDates(p) \/ FindCopies(p)
  PROVE  SyncedSoFar(p)'
<1>t. /\ pc \in [Servers -> Steps] /\ when \in [Servers -> Dates] /\ rest \in [Servers -> SUBSET Copies]
      /\ offer \in [Offers -> OfferType]
  BY DEF RepairInv, CopyInv, TypeOK, StepTypes, LocalTypes, OfferTypes
<1>s. SyncedSoFar(p)
  BY DEF RepairInv
<1>1. ASSUME NEW d \in Dates, StartValidity(p, d) PROVE SyncedSoFar(p)'
  <2>1. /\ pc[p] = "idle" /\ pc'[p] = "offers" /\ date' = d /\ when'[p] = d
        /\ UNCHANGED <<targets, offer, copyVars, clone, broken>>
    BY <1>1, <1>t DEF StartValidity, Arrives, Goto
  <2>2. ASSUME ~broken PROVE TargetsShown' /\ OffersShown'
    BY <1>s, <2>1, <2>2, SyncedParts, ShownFrame DEF SyncedSoFar, copyVars
  <2>3. ~broken => DatedSoFar(p)'
    BY <2>1, <2>2 DEF DatedSoFar
  <2> QED BY <2>1, <2>3 DEF SyncedSoFar, ReadsCurrent
<1>2. ASSUME OfferDates(p) PROVE SyncedSoFar(p)'
  <2>1. /\ pc[p] = "offers" /\ pc'[p] = "find"
        /\ UNCHANGED <<flyerVars, copyVars, clone, localVars, broken>>
    BY <1>2, <1>t DEF OfferDates, Goto, boundVars
  <2>2. ASSUME NEW o \in Offers
        PROVE  offer'[o] = IF o \in Kept THEN [offer[o] EXCEPT !.date = when[p]] ELSE offer[o]
    BY <1>2 DEF OfferDates
  <2>3. ASSUME NEW o \in Offers
        PROVE  offer'[o].state = offer[o].state /\ offer'[o].text = offer[o].text
    BY <1>t, <2>2 DEF OfferType
  <2>4. Confirmed' = Confirmed /\ Live' = Live
    BY <2>1, <2>3 DEF Confirmed, Live, copyVars
  <2>5. ASSUME NEW o \in Confirmed PROVE offer'[o].date = when[p]
    <3>1. o \in Kept /\ o \in Offers
      BY DEF Kept, Confirmed
    <3>2. offer[o] \in OfferType
      BY <1>t, <3>1
    <3> QED BY <2>2, <3>1, <3>2 DEF OfferType
  <2>6. ASSUME ~broken PROVE DatedSoFar(p)'
    <3>1. TargetsShown /\ when[p] = date /\ OffersShown
      BY <1>s, <2>1, <2>6 DEF SyncedSoFar, DatedSoFar
    <3>2. TargetsShown' /\ when'[p] = date'
      BY <2>1, <2>4, <3>1 DEF TargetsShown, flyerVars, copyVars, localVars
    <3>3. \A o \in Confirmed' : offer'[o].date = date'
      BY <2>1, <2>4, <2>5, <3>1 DEF flyerVars
    <3>4. ASSUME NEW c \in Live, NEW o \in Confirmed
          PROVE  \E d \in Dates : clone'[<<o, market'[c]>>] =
                   [flyer |-> c, text |-> offer'[o].text, date |-> d]
      <4>1. o \in Offers
        BY DEF Confirmed
      <4>2. offer[o].date \in Dates
        BY <1>t, <4>1 DEF OfferType
      <4>3. clone'[<<o, market'[c]>>] =
              [flyer |-> c, text |-> offer'[o].text, date |-> offer[o].date]
        BY <2>1, <2>3, <3>1, <4>1 DEF OffersShown, Shown, copyVars
      <4> QED BY <4>2, <4>3
    <3>5. NearlyShown'
      BY <2>4, <3>4 DEF NearlyShown
    <3> QED BY <2>1, <3>2, <3>3, <3>5 DEF DatedSoFar
  <2> QED BY <2>1, <2>6 DEF SyncedSoFar, ReadsCurrent
<1>3. ASSUME FindCopies(p) PROVE SyncedSoFar(p)'
  <2>1. /\ pc[p] = "find" /\ pc'[p] = (IF Live = {} THEN "idle" ELSE "copies")
        /\ rest'[p] = Live
        /\ UNCHANGED <<flyerVars, offer, copyVars, clone, when, broken>>
    BY <1>3, <1>t DEF FindCopies, Goto, boundVars
  <2>2. ASSUME ~broken PROVE TargetsShown' /\ when[p] = date
    BY <1>s, <2>1, <2>2, ShownFrame DEF SyncedSoFar, DatedSoFar, flyerVars, copyVars
  <2>3. CASE Live = {}
    <3>1. DatesShown' /\ OffersShown'
      BY <2>1, <2>3 DEF DatesShown, OffersShown, Live, copyVars
    <3> QED BY <2>1, <2>2, <2>3, <3>1, SyncedParts DEF SyncedSoFar, ReadsCurrent
  <2>4. CASE Live # {}
    <3>1. ASSUME ~broken PROVE DatedSoFar(p)'
      <4>1. (\A o \in Confirmed : offer[o].date = date) /\ NearlyShown
        BY <1>s, <2>1, <3>1 DEF SyncedSoFar, DatedSoFar
      <4>2. (\A o \in Confirmed' : offer'[o].date = date') /\ NearlyShown'
        BY <2>1, <4>1 DEF NearlyShown, Live, Confirmed, flyerVars, copyVars
      <4>3. Live' = rest'[p]
        BY <2>1 DEF Live, copyVars
      <4> QED BY <2>1, <2>2, <2>4, <3>1, <4>2, <4>3 DEF DatedSoFar, flyerVars
    <3> QED BY <2>1, <2>4, <3>1 DEF SyncedSoFar, ReadsCurrent
  <2> QED BY <2>3, <2>4
<1> QED BY <1>1, <1>2, <1>3

\* It reaches the copies one by one, and the clones of each with it.
LEMMA DatedCopies ==
  ASSUME RepairInv, NEW p \in Servers, exists,
         (\E c \in Copies : CopyDate(p, c)) \/ CloneDates(p)
  PROVE  SyncedSoFar(p)'
<1>t. /\ pc \in [Servers -> Steps] /\ LocalTypes /\ CopyTypes
  BY DEF RepairInv, CopyInv, TypeOK, StepTypes
<1>s. SyncedSoFar(p)
  BY DEF RepairInv
<1>1. ASSUME NEW d \in Copies, CopyDate(p, d) PROVE SyncedSoFar(p)'
  <2>1. /\ pc[p] = "copies" /\ pc'[p] = "clones" /\ at'[p] = d
        /\ UNCHANGED <<flyerVars, offer, market, clone, when, rest, broken>>
    BY <1>1, <1>t DEF CopyDate, Goto, boundVars, LocalTypes
  <2>2. \A c \in Copies : until'[c] = IF c = d THEN when[p] ELSE until[c]
    BY <1>1, <1>t DEF CopyDate, CopyTypes
  <2>3. ASSUME ~broken PROVE DatedSoFar(p)'
    <3>1. DatedSoFar(p)
      BY <1>s, <2>1, <2>3 DEF SyncedSoFar
    <3>2. /\ Live' = Live /\ Confirmed' = Confirmed /\ date' = date
      BY <2>1 DEF Live, Confirmed, flyerVars
    <3>3. /\ TargetsShown' /\ when'[p] = date' /\ NearlyShown'
          /\ \A o \in Confirmed' : offer'[o].date = date'
      BY <2>1, <3>1, <3>2 DEF DatedSoFar, TargetsShown, NearlyShown, flyerVars
    <3>4. ASSUME NEW c \in Live, c \notin rest[p]
          PROVE  until'[c] = date /\ \A o \in Confirmed : Shown(o, c)'
      <4>1. until[c] = date /\ \A o \in Confirmed : Shown(o, c)
        BY <2>1, <3>1, <3>4 DEF DatedSoFar
      <4>2. until'[c] = date
        BY <2>2, <3>1, <4>1 DEF DatedSoFar, Live
      <4> QED BY <2>1, <4>1, <4>2 DEF Shown
    <3>5. until'[d] = date
      BY <2>2, <3>1 DEF DatedSoFar
    <3> QED BY <2>1, <3>2, <3>3, <3>4, <3>5 DEF DatedSoFar
  <2> QED BY <2>1, <2>3 DEF SyncedSoFar, ReadsCurrent
<1>2. ASSUME CloneDates(p) PROVE SyncedSoFar(p)'
  <2>1. /\ pc[p] = "clones" /\ pc'[p] = "job"
        /\ UNCHANGED <<flyerVars, offer, copyVars, localVars, broken>>
    BY <1>2, <1>t DEF CloneDates, Goto, boundVars
  <2>2. ASSUME ~broken PROVE DatedSoFar(p)'
    <3>1. DatedSoFar(p)
      BY <1>s, <2>1, <2>2 DEF SyncedSoFar
    <3>2. /\ Live' = Live /\ Confirmed' = Confirmed
          /\ UNCHANGED <<date, targets, market, until, when, rest, at, offer>>
      BY <2>1 DEF Live, Confirmed, flyerVars, copyVars, localVars
    <3>3. TargetsShown' /\ when'[p] = date' /\ \A o \in Confirmed' : offer'[o].date = date'
      BY <2>1, <3>1, <3>2 DEF DatedSoFar, TargetsShown
    <3>4. ASSUME NEW c \in Live, NEW o \in Confirmed
          PROVE  /\ \E d \in Dates : clone'[<<o, market[c]>>] =
                      [flyer |-> c, text |-> offer[o].text, date |-> d]
                 /\ Shown(o, c) \/ c = at[p] =>
                      clone'[<<o, market[c]>>] =
                        [flyer |-> c, text |-> offer[o].text, date |-> offer[o].date]
      <4> DEFINE s == <<o, market[c]>>
      <4>1. s \in Sites
        BY PlaceOf DEF RepairInv, CopyInv
      <4>2. PICK d \in Dates : clone[s] = [flyer |-> c, text |-> offer[o].text, date |-> d]
        BY <2>1, <3>1 DEF DatedSoFar, NearlyShown
      <4>3. clone[s] # None
        <5>1. c \in Copies /\ offer[o].text \in Texts
          BY DEF Live, Confirmed, RepairInv, CopyInv, TypeOK, OfferTypes, OfferType
        <5>2. clone[s] \in Clones
          BY <4>2, <5>1 DEF Clones
        <5> QED BY <5>2, NoCloneAssumption
      <4>4. clone'[s] = IF clone[s] # None /\ clone[s].flyer = at[p]
                        THEN [clone[s] EXCEPT !.date = when[p]] ELSE clone[s]
        BY <1>2, <4>1 DEF CloneDates
      <4>5. offer[o].date = date /\ when[p] = date /\ date \in Dates
        BY <1>t, <2>1, <3>1 DEF DatedSoFar, LocalTypes
      <4> HIDE DEF s
      <4>6. CASE c = at[p]
        <5>1. clone'[s] = [flyer |-> c, text |-> offer[o].text, date |-> date]
          BY <4>2, <4>3, <4>4, <4>5, <4>6
        <5> QED BY <4>5, <5>1 DEF s
      <4>7. CASE c # at[p]
        <5>1. clone'[s] = clone[s]
          BY <4>2, <4>4, <4>7
        <5> QED BY <4>2, <4>7, <5>1 DEF Shown, s
      <4> QED BY <4>6, <4>7
    <3>5. NearlyShown'
      BY <3>2, <3>4 DEF NearlyShown
    <3>6. ASSUME NEW c \in Live', c \notin rest'[p]
          PROVE  until'[c] = date' /\ \A o \in Confirmed' : Shown(o, c)'
      <4>1. until[c] = date /\ \A o \in Confirmed : Shown(o, c)
        BY <2>1, <3>1, <3>2, <3>6 DEF DatedSoFar
      <4> QED BY <3>2, <3>4, <4>1, <3>6 DEF Shown
    <3>7. ASSUME NEW c \in Live', c = at'[p] PROVE \A o \in Confirmed' : Shown(o, c)'
      BY <3>2, <3>4, <3>7 DEF Shown
    <3>8. at'[p] \in Copies /\ until'[at'[p]] = date'
      BY <2>1, <3>1, <3>2 DEF DatedSoFar
    <3> QED BY <2>1, <3>3, <3>5, <3>6, <3>7, <3>8 DEF DatedSoFar
  <2> QED BY <2>1, <2>2 DEF SyncedSoFar, ReadsCurrent
<1> QED BY <1>1, <1>2

\* After the last copy the flyer is synchronised again.
LEMMA DatedJobs ==
  ASSUME RepairInv, NEW p \in Servers, exists, Reschedule(p)
  PROVE  SyncedSoFar(p)'
<1>t. /\ pc \in [Servers -> Steps] /\ LocalTypes
  BY DEF RepairInv, CopyInv, TypeOK, StepTypes
<1>1. /\ pc[p] = "job" /\ pc'[p] = (IF rest[p] = {at[p]} THEN "idle" ELSE "copies")
      /\ rest'[p] = rest[p] \ {at[p]}
      /\ UNCHANGED <<flyerVars, offer, copyVars, clone, when, broken>>
  BY <1>t DEF Reschedule, Goto, boundVars, LocalTypes
<1>2. ASSUME ~broken
      PROVE  /\ TargetsShown' /\ when'[p] = date'
             /\ (\A o \in Confirmed' : offer'[o].date = date') /\ NearlyShown'
             /\ \A c \in Live' : c \notin rest'[p] =>
                  until'[c] = date' /\ \A o \in Confirmed' : Shown(o, c)'
  <2>1. DatedSoFar(p)
    BY <1>1, <1>2 DEF RepairInv, SyncedSoFar
  <2>2. /\ Live' = Live /\ Confirmed' = Confirmed
        /\ UNCHANGED <<date, targets, market, until, offer, clone, when>>
    BY <1>1 DEF Live, Confirmed, flyerVars, copyVars
  <2>3. TargetsShown' /\ when'[p] = date' /\ NearlyShown' /\ \A o \in Confirmed' : offer'[o].date = date'
    BY <1>1, <2>1, <2>2 DEF DatedSoFar, TargetsShown, NearlyShown
  <2>4. ASSUME NEW c \in Live, c \notin rest'[p]
        PROVE  until[c] = date /\ \A o \in Confirmed : Shown(o, c)
    <3>1. c \notin rest[p] \/ c = at[p]
      BY <1>1, <2>4
    <3> QED BY <1>1, <2>1, <3>1 DEF DatedSoFar
  <2> QED BY <2>2, <2>3, <2>4 DEF Shown
<1>3. CASE rest[p] = {at[p]}
  <2>1. rest'[p] = {}
    BY <1>1, <1>3
  <2>2. ~broken => Synced'
    BY <1>2, <2>1, SyncedParts DEF DatesShown, OffersShown
  <2> QED BY <1>1, <1>3, <2>2 DEF SyncedSoFar, ReadsCurrent
<1>4. CASE rest[p] # {at[p]}
  <2>1. ~broken => DatedSoFar(p)'
    BY <1>1, <1>2, <1>4 DEF DatedSoFar
  <2> QED BY <1>1, <1>4, <2>1 DEF SyncedSoFar, ReadsCurrent
<1> QED BY <1>3, <1>4

\* A new draft shows nowhere; the clones of a confirmed offer are made again
\* when it is edited.
LEMMA SyncedOffers ==
  ASSUME RepairInv, NEW p \in Servers, exists,
         \/ \E o \in Offers, t \in Texts : EditOffer(p, o, t) \/ \E d \in Dates : AddDraft(p, o, t, d)
         \/ Refresh(p)
  PROVE  SyncedSoFar(p)'
<1>t. /\ pc \in [Servers -> Steps] /\ offer \in [Offers -> OfferType] /\ TypeOK
  BY DEF RepairInv, CopyInv, TypeOK, StepTypes, OfferTypes
<1>s. SyncedSoFar(p) /\ OneCopyPerMarket
  BY DEF RepairInv, CopyInv
<1>1. ASSUME NEW o \in Offers, NEW t \in Texts, EditOffer(p, o, t) PROVE SyncedSoFar(p)'
  <2>1. /\ pc[p] = "idle" /\ pc'[p] = (IF o \in Confirmed THEN "refresh" ELSE "idle")
        /\ UNCHANGED <<flyerVars, copyVars, clone, broken>>
    BY <1>1, <1>t DEF EditOffer, Arrives, Goto
  <2>2. /\ offer'[o].state = offer[o].state
        /\ \A n \in Offers \ {o} : offer'[n] = offer[n]
    BY <1>1, <1>t DEF EditOffer, OfferType
  <2>3. Confirmed' = Confirmed /\ Live' = Live
    BY <2>1, <2>2 DEF Confirmed, Live, copyVars
  <2>4. CASE o \in Confirmed
    <3>1. ~broken => TargetsShown' /\ DatesShown'
      BY <1>s, <2>1, <2>3, SyncedParts DEF SyncedSoFar, TargetsShown, DatesShown, flyerVars, copyVars
    <3> QED BY <2>1, <2>4, <3>1 DEF SyncedSoFar, ReadsCurrent
  <2>5. CASE o \notin Confirmed
    <3>1. \A n \in Confirmed : offer'[n] = offer[n]
      BY <2>2, <2>5 DEF Confirmed
    <3>2. ~broken => Synced'
      BY <1>s, <2>1, <2>3, <3>1, SyncedFrame DEF SyncedSoFar, flyerVars
    <3> QED BY <2>1, <2>5, <3>2 DEF SyncedSoFar, ReadsCurrent
  <2> QED BY <2>4, <2>5
<1>2. ASSUME NEW o \in Offers, NEW t \in Texts, NEW d \in Dates, AddDraft(p, o, t, d)
      PROVE  SyncedSoFar(p)'
  <2>1. pc[p] = "idle" /\ UNCHANGED <<pc, flyerVars, copyVars, clone, broken>>
    BY <1>2 DEF AddDraft, Arrives
  <2>2. /\ offer[o].state = "none" /\ offer'[o].state = "draft"
        /\ \A n \in Offers \ {o} : offer'[n] = offer[n]
    BY <1>2, <1>t DEF AddDraft
  <2>3. Confirmed' = Confirmed /\ \A n \in Confirmed : offer'[n] = offer[n]
    BY <2>2 DEF Confirmed
  <2>4. ~broken => Synced'
    BY <1>s, <2>1, <2>3, SyncedFrame DEF SyncedSoFar, flyerVars
  <2> QED BY <2>1, <2>4 DEF SyncedSoFar, ReadsCurrent
<1>3. ASSUME Refresh(p) PROVE SyncedSoFar(p)'
  <2>1. /\ pc[p] = "refresh" /\ pc'[p] = "idle" /\ clone' = Materialized
        /\ UNCHANGED <<flyerVars, offer, copyVars, broken>>
    BY <1>3, <1>t DEF Refresh, Goto, boundVars
  <2>2. OffersShown'
    BY <1>s, <1>t, <2>1, MaterializedShows DEF copyVars
  <2>3. ~broken => Synced'
    BY <1>s, <2>1, <2>2, SyncedParts, ShownFrame DEF SyncedSoFar, flyerVars, copyVars
  <2> QED BY <2>1, <2>3 DEF SyncedSoFar, ReadsCurrent
<1> QED BY <1>1, <1>2, <1>3

\* A deleted offer takes its clones along, and no other.
LEMMA SyncedDelete ==
  ASSUME RepairInv, NEW p \in Servers, exists,
         (\E o \in Offers : StartDelete(p, o)) \/ Delete(p)
  PROVE  SyncedSoFar(p)'
<1>t. /\ pc \in [Servers -> Steps] /\ at \in [Servers -> Copies \union Offers \union {None}]
      /\ offer \in [Offers -> OfferType] /\ TypeOK
  BY DEF RepairInv, CopyInv, TypeOK, StepTypes, LocalTypes, OfferTypes
<1>s. SyncedSoFar(p)
  BY DEF RepairInv
<1>w. ASSUME NEW s \in Sites, NEW o, s[1] # o PROVE Without({}, {o})[s] = clone[s]
  BY <1>w DEF Without
<1>1. ASSUME NEW o \in Offers, StartDelete(p, o) PROVE SyncedSoFar(p)'
  <2>1. /\ pc[p] = "idle" /\ pc'[p] = "delete" /\ at'[p] = o
        /\ clone' \in {clone, Without({}, {o})}
        /\ UNCHANGED <<flyerVars, offer, copyVars, broken>>
    BY <1>1, <1>t DEF StartDelete, Arrives, Goto
  <2>2. \A s \in Sites : s[1] # o => clone'[s] = clone[s]
    BY <1>w, <2>1
  <2>3. Live' = Live /\ Confirmed' = Confirmed
    BY <2>1 DEF Live, Confirmed, copyVars
  <2>4. ASSUME ~broken PROVE /\ TargetsShown' /\ DatesShown'
                             /\ \A c \in Live', n \in Confirmed' : n # o => Shown(n, c)'
    <3>1. TargetsShown /\ DatesShown /\ OffersShown
      BY <1>s, <2>1, <2>4, SyncedParts DEF SyncedSoFar
    <3>2. TargetsShown' /\ DatesShown'
      BY <2>1, <3>1, ShownFrame DEF flyerVars, copyVars
    <3>3. ASSUME NEW c \in Live, NEW n \in Confirmed, n # o PROVE Shown(n, c)'
      <4>1. <<n, market[c]>> \in Sites
        BY <1>t, PlaceOf
      <4>2. clone'[<<n, market[c]>>] = clone[<<n, market[c]>>]
        BY <2>2, <3>3, <4>1
      <4> QED BY <2>1, <3>1, <4>2 DEF OffersShown, Shown, copyVars
    <3> QED BY <2>3, <3>2, <3>3
  <2> QED BY <2>1, <2>4 DEF SyncedSoFar, ReadsCurrent
<1>2. ASSUME Delete(p) PROVE SyncedSoFar(p)'
  <2>1. /\ pc[p] = "delete" /\ pc'[p] = "idle" /\ clone' = Without({}, {at[p]})
        /\ UNCHANGED <<flyerVars, copyVars, broken>>
    BY <1>2, <1>t DEF Delete, Goto, boundVars
  <2>2. \A o \in Offers : IF o = at[p] THEN offer'[o].state = "gone" ELSE offer'[o] = offer[o]
    BY <1>2, <1>t DEF Delete, OfferType
  <2>3. Live' = Live /\ \A o \in Confirmed' : o \in Confirmed /\ o # at[p] /\ offer'[o] = offer[o]
    BY <2>1, <2>2 DEF Live, Confirmed, copyVars
  <2>4. ASSUME ~broken PROVE Synced'
    <3>1. /\ TargetsShown /\ DatesShown
          /\ \A c \in Live, o \in Confirmed : o # at[p] => Shown(o, c)
      BY <1>s, <2>1, <2>4 DEF SyncedSoFar
    <3>2. TargetsShown'
      BY <2>1, <2>3, <3>1 DEF TargetsShown, flyerVars, copyVars
    <3>3. DatesShown'
      BY <2>1, <3>1, ShownFrame DEF flyerVars, copyVars
    <3>4. ASSUME NEW c \in Live', NEW o \in Confirmed' PROVE Shown(o, c)'
      <4>1. c \in Live /\ o \in Confirmed /\ o # at[p] /\ offer'[o] = offer[o]
        BY <2>3, <3>4
      <4>2. <<o, market[c]>> \in Sites
        BY <1>t, <4>1, PlaceOf
      <4>3. clone'[<<o, market[c]>>] = clone[<<o, market[c]>>]
        BY <1>w, <2>1, <4>1, <4>2
      <4> QED BY <2>1, <3>1, <4>1, <4>3 DEF Shown, copyVars
    <3> QED BY <3>2, <3>3, <3>4, SyncedParts DEF OffersShown
  <2> QED BY <2>1, <2>4 DEF SyncedSoFar, ReadsCurrent
<1> QED BY <1>1, <1>2

\* Nothing a handler needs changes when nothing it looks at does.
LEMMA SyncedSame ==
  ASSUME RepairInv, NEW p \in Servers, exists,
         UNCHANGED <<flyerVars, offer, copyVars, clone, pc, localVars, broken>>
  PROVE  SyncedSoFar(p)'
<1>1. SyncedSoFar(p)
  BY DEF RepairInv
<1> DEFINE V == <<exists, date, targets, offer, market, until, made, clone, pc, want, when,
                  found, todo, rest, at, broken>>
<1>2. /\ UNCHANGED <<exists, date, targets, offer, market, until, made, clone, pc>>
      /\ UNCHANGED <<want, when, found, todo, rest, at, broken>>
  BY DEF flyerVars, copyVars, localVars
<1>3. Live' = Live /\ Confirmed' = Confirmed /\ \A o, c : Shown(o, c)' = Shown(o, c)
  BY <1>2 DEF Live, Confirmed, Shown
<1>4. TargetsShown' = TargetsShown /\ DatesShown' = DatesShown /\ OffersShown' = OffersShown
  BY <1>2, ShownFrame
<1>5. Synced' = Synced
  BY <1>4, SyncedParts DEF Synced, TargetsShown, DatesShown, OffersShown, Shown
<1>6. NearlyShown' = NearlyShown
  BY <1>2, <1>3 DEF NearlyShown
<1>7. FoundCurrent(p)' = FoundCurrent(p) /\ ReadsCurrent(p)' = ReadsCurrent(p)
  BY <1>2, <1>3 DEF FoundCurrent, ReadsCurrent
<1>8. PlacedSoFar(p)' = PlacedSoFar(p)
  BY <1>2, <1>3 DEF PlacedSoFar
<1>9. DatedSoFar(p) => DatedSoFar(p)'
  BY <1>2, <1>3, <1>4, <1>6 DEF DatedSoFar
<1>10. \A c \in Live, o \in Confirmed : (o # at[p] => Shown(o, c)) => (o # at'[p] => Shown(o, c)')
  BY <1>2, <1>3
<1> QED
  BY <1>1, <1>2, <1>3, <1>4, <1>5, <1>7, <1>8, <1>9, <1>10 DEF SyncedSoFar

\* Every step keeps what the repair needs.
LEMMA RepairStep ==
  ASSUME NEW q, Servers = {q}, RepairInv, [Next]_vars
  PROVE  exists' => \A p \in Servers : SyncedSoFar(p)'
<1> SUFFICES ASSUME exists' PROVE SyncedSoFar(q)'
  OBVIOUS
<1>1. exists
  <2>1. ASSUME NEW p \in Servers, Publish(p) PROVE UNCHANGED exists
    BY <2>1 DEF Publish, StartConfirm, Confirm, Count, StartTargets, Unlink, Link, Reread, Lookup,
       Hide, Remove, Update, Insert, Materialize, Enqueue, flyerVars
  <2>2. ASSUME NEW p \in Servers, Edit(p) PROVE UNCHANGED exists
    BY <2>2 DEF Edit, StartValidity, OfferDates, FindCopies, CopyDate, CloneDates, Reschedule,
       AddDraft, EditOffer, Refresh, StartDelete, Delete, flyerVars
  <2>3. CASE UNCHANGED exists
    BY <2>3
  <2> QED
    BY <2>1, <2>2, <2>3 DEF Next, Fault, Refusal, Stops, DeleteFlyer, TakeJob, ReturnJob,
       vars, flyerVars
<1>2. CASE Publish(q)
  BY <1>1, <1>2, SyncedStart, SyncedLookup, SyncedRemove, SyncedUpsert, SyncedMaterialize DEF Publish
<1>3. CASE Edit(q)
  BY <1>1, <1>3, DatedOffers, DatedCopies, DatedJobs, SyncedOffers, SyncedDelete DEF Edit
<1>4. CASE Stops(q)
  <2>1. pc'[q] = "idle" /\ broken'
    BY <1>4 DEF Stops, Goto, RepairInv, CopyInv, TypeOK, StepTypes
  <2> QED BY <2>1 DEF SyncedSoFar, ReadsCurrent
<1>5. CASE UNCHANGED <<flyerVars, offer, copyVars, clone, pc, localVars, broken>>
  BY <1>1, <1>5, SyncedSame
<1>6. CASE DeleteFlyer
  BY <1>6 DEF DeleteFlyer
<1> QED
  BY <1>2, <1>3, <1>4, <1>5, <1>6 DEF Next, Fault, Refusal, TakeJob, ReturnJob, vars, boundVars

\* New ids, whatever a step does to copies.
LEMMA NewIdsStep ==
  ASSUME TypeOK, NewIds, [Next]_vars
  PROVE  NewIds'
<1>1. CASE UNCHANGED <<market, made>>
  BY <1>1 DEF NewIds, Live
<1>2. ASSUME NEW p \in Servers, Remove(p) PROVE NewIds'
  BY <1>2 DEF Remove, NewIds, Live
<1>3. ASSUME NEW p \in Servers, NEW m \in Markets, Insert(p, m) PROVE NewIds'
  <2>1. made \in Nat /\ made' = made + 1
    BY <1>3, BoundsAssumption DEF Insert, TypeOK, CopyTypes
  <2>2. \A c \in Copies : c # made + 1 => market'[c] = market[c]
    BY <1>3 DEF Insert, TypeOK, CopyTypes
  <2> QED BY <2>1, <2>2 DEF NewIds, Live, Copies
<1>4. CASE DeleteFlyer
  BY <1>4 DEF DeleteFlyer, NewIds, Live
<1>5. ASSUME NEW p \in Servers, Publish(p) PROVE NewIds'
  BY <1>1, <1>2, <1>3, <1>5 DEF Publish, StartConfirm, Confirm, Count, StartTargets, Unlink,
     Link, Reread, Lookup, Hide, Update, Materialize, Enqueue, copyVars
<1>6. ASSUME NEW p \in Servers, Edit(p) PROVE NewIds'
  BY <1>1, <1>6 DEF Edit, StartValidity, OfferDates, FindCopies, CopyDate, CloneDates,
     Reschedule, AddDraft, EditOffer, Refresh, StartDelete, Delete, copyVars
<1> QED
  BY <1>1, <1>4, <1>5, <1>6 DEF Next, Fault, Refusal, Stops, TakeJob, ReturnJob, vars, copyVars

\* An idle flyer without copies has what the repair needs.
LEMMA RepairInit == Init => RepairInv
<1> SUFFICES ASSUME Init PROVE RepairInv
  OBVIOUS
<1>1. CopyInv /\ NewIds
  BY TypeInit DEF Init, CopyInv, LookupCurrent, OneCopyPerMarket, NewIds, Live
<1>2. Live = {} /\ Confirmed = {} /\ \A p \in Servers : pc[p] = "idle"
  BY DEF Init, Live, Confirmed
<1>3. Synced
  BY <1>2 DEF Synced
<1> QED BY <1>1, <1>2, <1>3 DEF RepairInv, SyncedSoFar, ReadsCurrent

\* When one server answers the requests, every step of every handler keeps it.
LEMMA RepairNext ==
  ASSUME NEW q, Servers = {q}, RepairInv, [Next]_vars
  PROVE  RepairInv'
<1>1. CopyInv'
  BY CopyStep DEF RepairInv
<1>2. NewIds'
  BY NewIdsStep DEF RepairInv, CopyInv
<1>3. exists' => \A p \in Servers : SyncedSoFar(p)'
  BY RepairStep
<1> QED BY <1>1, <1>2, <1>3 DEF RepairInv

\* What is public follows the source after every request that completes, and the
\* next publication that completes repairs whatever stopped handlers left behind,
\* provided that one server answers the requests.
THEOREM PublicationCompletes ==
  ASSUME NEW q, Servers = {q}
  PROVE  Spec => []PublicationRepairs
<1>1. Init => RepairInv
  BY RepairInit
<1>2. RepairInv /\ [Next]_vars => RepairInv'
  BY RepairNext
<1>3. RepairInv => PublicationRepairs
  BY DEF RepairInv, SyncedSoFar, PublicationRepairs, Quiet
<1> QED BY <1>1, <1>2, <1>3, PTL DEF Spec

-----------------------------------------------------------------------------
(* Every copy is announced, when one server answers the requests and no     *)
(* handler stops half-way.                                                  *)

\* A copy has its job, and one that no worker has taken has the copy's date.
Announced(c) == job[c] # "none" /\ (job[c] = "pending" => jobDate[c] = until[c])

\* The requests of a publication between which nothing is shown with an old date.
Publishing == {"count", "unlink", "link", "reread", "lookup", "hide", "remove", "upsert"}

\* A publication has no copies to announce but those it inserts, and a copy that
\* waits to be announced or rescheduled is one that the handler comes to.
AnnouncedSoFar(p) ==
  /\ ~broken
  /\ \A c \in Copies : job[c] # "none" => c <= made
  /\ pc[p] \in Publishing => DatesShown
  /\ pc[p] \in {"hide", "remove"} => rest[p] = {}
  /\ pc[p] \in {"upsert", "enqueue"} => \A c \in rest[p] : job[c] = "none" /\ c <= made
  /\ \A c \in Live :
       \/ Announced(c)
       \/ pc[p] \in {"upsert", "enqueue"} /\ c \in rest[p]
       \/ pc[p] \in {"clones", "job"} /\ c = at[p] /\ job[c] # "none"

\* Above what the repair needs it is inductive.
AnnounceInv == RepairInv /\ (exists /\ faults = 0 => \A p \in Servers : AnnouncedSoFar(p))

\* A step that touches no copy and no job, of a handler that has none to look after.
LEMMA AnnouncedSame ==
  ASSUME NEW p \in Servers, AnnouncedSoFar(p), UNCHANGED <<copyVars, jobVars, broken>>,
         pc[p] \notin {"upsert", "enqueue", "clones", "job"},
         pc'[p] \notin {"upsert", "enqueue", "clones", "job"},
         pc'[p] \in Publishing => DatesShown',
         pc'[p] \in {"hide", "remove"} => rest'[p] = {}
  PROVE  AnnouncedSoFar(p)'
<1>1. Live' = Live /\ \A c \in Live : Announced(c)' = Announced(c)
  BY DEF Live, Announced, copyVars, jobVars
<1> QED BY <1>1 DEF AnnouncedSoFar, copyVars, jobVars

\* The steps of a publication that touch no copy and no job.
LEMMA AnnouncedReads ==
  ASSUME AnnounceInv, NEW p \in Servers, exists, faults = 0,
         \/ StartConfirm(p) \/ Confirm(p) \/ Count(p) \/ Unlink(p) \/ Link(p) \/ Reread(p)
         \/ Lookup(p) \/ Hide(p)
         \/ \E T \in SUBSET Markets : StartTargets(p, T)
  PROVE  AnnouncedSoFar(p)'
<1>t. pc \in [Servers -> Steps] /\ LocalTypes
  BY DEF AnnounceInv, RepairInv, CopyInv, TypeOK, StepTypes
<1>s. AnnouncedSoFar(p) /\ SyncedSoFar(p)
  BY DEF AnnounceInv, RepairInv
<1>1. UNCHANGED <<copyVars, jobVars, broken, date>>
  BY DEF StartConfirm, Confirm, Count, StartTargets, Unlink, Link, Reread, Lookup, Hide, Arrives,
     flyerVars, boundVars
<1>2. pc[p] \in {"idle", "confirm"} \union (Publishing \ {"upsert"})
  BY DEF StartConfirm, Confirm, Count, StartTargets, Unlink, Link, Reread, Lookup, Hide, Arrives,
     Publishing
<1>3. pc'[p] \in {"idle", "confirm"} \union (Publishing \ {"upsert"})
  BY <1>t DEF StartConfirm, Confirm, Count, StartTargets, Unlink, Link, Reread, Lookup, Hide, Goto,
     Publishing
<1>4. DatesShown
  BY <1>2, <1>s, SyncedParts DEF AnnouncedSoFar, SyncedSoFar, Publishing
<1>5. DatesShown'
  BY <1>1, <1>4, ShownFrame DEF copyVars
<1>6. pc'[p] \in {"hide", "remove"} => rest'[p] = {}
  BY <1>t, <1>s DEF StartConfirm, Confirm, Count, StartTargets, Unlink, Link, Reread, Lookup, Hide,
     Goto, LocalTypes, localVars, AnnouncedSoFar
<1> QED BY <1>1, <1>2, <1>3, <1>5, <1>6, <1>s, AnnouncedSame DEF Publishing

\* Deleted copies need no job, updated ones have the validity they are given.
LEMMA AnnouncedOld ==
  ASSUME AnnounceInv, NEW p \in Servers, exists, faults = 0,
         Remove(p) \/ \E m \in Markets : Update(p, m)
  PROVE  AnnouncedSoFar(p)'
<1>t. pc \in [Servers -> Steps] /\ CopyTypes
  BY DEF AnnounceInv, RepairInv, CopyInv, TypeOK, StepTypes
<1>s. AnnouncedSoFar(p) /\ SyncedSoFar(p)
  BY DEF AnnounceInv, RepairInv
<1>1. ASSUME Remove(p) PROVE AnnouncedSoFar(p)'
  <2>1. /\ pc[p] = "remove" /\ pc'[p] = "upsert"
        /\ UNCHANGED <<until, made, job, jobDate, rest, date, broken>>
    BY <1>1, <1>t DEF Remove, Goto, jobVars, localVars, flyerVars, boundVars
  <2>2. \A c \in Live' : c \in Live
    BY <1>1 DEF Remove, Live
  <2>3. DatesShown /\ rest[p] = {} /\ \A c \in Live : Announced(c)
    BY <1>s, <2>1 DEF AnnouncedSoFar, Publishing
  <2>4. DatesShown' /\ \A c \in Live' : Announced(c)'
    BY <2>1, <2>2, <2>3 DEF DatesShown, Announced
  <2> QED BY <1>s, <2>1, <2>3, <2>4 DEF AnnouncedSoFar
<1>2. ASSUME NEW m \in Markets, Update(p, m) PROVE AnnouncedSoFar(p)'
  <2>1. /\ pc[p] = "upsert" /\ m \in todo[p] /\ found[p][m] # None
        /\ until' = [until EXCEPT ![found[p][m]] = when[p]]
        /\ UNCHANGED <<market, made, job, jobDate, pc, rest, date, broken>>
    BY <1>2 DEF Update, Renewed, jobVars, flyerVars, boundVars
  <2>2. found[p][m] \in Live /\ when[p] = date /\ DatesShown
    BY <1>s, <2>1 DEF SyncedSoFar, PlacedSoFar, ReadsCurrent, AnnouncedSoFar, Publishing
  <2>3. until[found[p][m]] = when[p]
    BY <2>2 DEF DatesShown
  <2>4. until' = until
    BY <1>t, <2>1, <2>3 DEF CopyTypes
  <2>5. Live' = Live /\ DatesShown' /\ \A c \in Live : Announced(c)' = Announced(c)
    BY <2>1, <2>2, <2>4 DEF Live, DatesShown, Announced
  <2> QED BY <1>s, <2>1, <2>5 DEF AnnouncedSoFar
<1> QED BY <1>1, <1>2

\* A copy that is inserted waits for its job, which is queued with its date.
LEMMA AnnouncedNew ==
  ASSUME AnnounceInv, NEW p \in Servers, exists, faults = 0,
         \/ \E m \in Markets : Insert(p, m)
         \/ Materialize(p)
         \/ \E c \in Copies : Enqueue(p, c)
  PROVE  AnnouncedSoFar(p)'
<1>t. pc \in [Servers -> Steps] /\ CopyTypes /\ JobTypes /\ LocalTypes
  BY DEF AnnounceInv, RepairInv, CopyInv, TypeOK, StepTypes
<1>s. AnnouncedSoFar(p) /\ SyncedSoFar(p)
  BY DEF AnnounceInv, RepairInv
<1>1. ASSUME NEW m \in Markets, Insert(p, m) PROVE AnnouncedSoFar(p)'
  <2> DEFINE d == made + 1
  <2>1. made \in Nat /\ d \in Copies
    BY <1>1, <1>t, BoundsAssumption DEF Insert, CopyTypes, Copies
  <2>2. /\ pc[p] = "upsert" /\ made' = made + 1
        /\ rest'[p] = rest[p] \union {d}
        /\ UNCHANGED <<job, jobDate, pc, date, broken>>
    BY <1>1, <1>t DEF Insert, LocalTypes, jobVars, flyerVars, boundVars
  <2>3. when[p] = date /\ DatesShown
    BY <1>s, <2>2 DEF SyncedSoFar, ReadsCurrent, AnnouncedSoFar, Publishing
  <2>4. \A c \in Copies : /\ c # d => market'[c] = market[c] /\ until'[c] = until[c]
                          /\ c = d => until'[c] = date
    BY <1>1, <1>t, <2>3 DEF Insert, CopyTypes
  <2>5. job[d] = "none"
    BY <1>s, <2>1 DEF AnnouncedSoFar
  <2>6. \A c \in Copies : job'[c] # "none" => c <= made'
    BY <1>s, <2>1, <2>2 DEF AnnouncedSoFar, Copies
  <2>7. \A c \in rest'[p] : job'[c] = "none" /\ c <= made'
    <3>1. \A c \in rest[p] : job[c] = "none" /\ c <= made /\ c \in Nat
      BY <1>s, <1>t, <2>2 DEF AnnouncedSoFar, LocalTypes, Copies
    <3> QED BY <2>1, <2>2, <2>5, <3>1
  <2>8. \A c \in Live' : c = d \/ c \in Live
    BY <2>4 DEF Live
  <2>9. DatesShown'
    BY <2>2, <2>3, <2>4, <2>8 DEF DatesShown, Live
  <2>10. ASSUME NEW c \in Live' PROVE Announced(c)' \/ c \in rest'[p]
    <3>1. CASE c = d
      BY <2>2, <3>1
    <3>2. CASE c # d
      <4>1. Announced(c) \/ c \in rest[p]
        BY <1>s, <2>2, <2>8, <3>2 DEF AnnouncedSoFar
      <4>2. c \in Copies
        BY DEF Live
      <4> QED BY <2>2, <2>4, <3>2, <4>1, <4>2 DEF Announced
    <3> QED BY <3>1, <3>2
  <2> HIDE DEF d
  <2> QED BY <1>s, <2>2, <2>6, <2>7, <2>9, <2>10 DEF AnnouncedSoFar
<1>2. ASSUME Materialize(p) PROVE AnnouncedSoFar(p)'
  <2>1. /\ pc[p] = "upsert" /\ pc'[p] = (IF rest[p] = {} THEN "idle" ELSE "enqueue") /\ ~broken'
        /\ UNCHANGED <<market, until, made, job, jobDate, rest>>
    BY <1>2, <1>t DEF Materialize, Goto, copyVars, jobVars, localVars
  <2>2. Live' = Live /\ \A c \in Live : Announced(c)' = Announced(c)
    BY <2>1 DEF Live, Announced
  <2> QED BY <1>s, <2>1, <2>2 DEF AnnouncedSoFar, Publishing
<1>3. ASSUME NEW c \in Copies, Enqueue(p, c) PROVE AnnouncedSoFar(p)'
  <2>1. /\ pc[p] = "enqueue" /\ c \in rest[p] /\ rest'[p] = rest[p] \ {c}
        /\ pc'[p] = (IF rest[p] = {c} THEN "idle" ELSE "enqueue")
        /\ UNCHANGED <<market, until, made, broken>>
    BY <1>3, <1>t DEF Enqueue, Goto, LocalTypes, copyVars, boundVars
  <2>2. job[c] = "none" /\ c <= made
    BY <1>s, <2>1 DEF AnnouncedSoFar
  <2>3. job' = [job EXCEPT ![c] = "pending"] /\ jobDate' = [jobDate EXCEPT ![c] = when[p]]
    BY <1>3, <2>2 DEF Enqueue
  <2>4. /\ \A d \in Copies \ {c} : job'[d] = job[d] /\ jobDate'[d] = jobDate[d]
        /\ job'[c] = "pending" /\ jobDate'[c] = when[p]
    BY <1>t, <2>3 DEF JobTypes
  <2>5. when[p] = date /\ \A d \in Live : until[d] = date
    BY <1>s, <2>1 DEF SyncedSoFar, ReadsCurrent, Synced
  <2>6. ASSUME NEW d \in Live' PROVE Announced(d)' \/ d \in rest'[p]
    <3>1. d \in Live /\ d \in Copies
      BY <2>1 DEF Live
    <3>2. CASE d = c
      BY <2>1, <2>4, <2>5, <3>1, <3>2 DEF Announced
    <3>3. CASE d # c
      <4>1. Announced(d) \/ d \in rest[p]
        BY <1>s, <2>1, <3>1 DEF AnnouncedSoFar
      <4> QED BY <2>1, <2>4, <3>1, <3>3, <4>1 DEF Announced
    <3> QED BY <3>2, <3>3
  <2>7. \A d \in rest'[p] : job'[d] = "none" /\ d <= made'
    BY <1>s, <1>t, <2>1, <2>4 DEF AnnouncedSoFar, LocalTypes
  <2>8. \A d \in Copies : job'[d] # "none" => d <= made'
    BY <1>s, <2>1, <2>2, <2>4 DEF AnnouncedSoFar
  <2>9. rest[p] = {c} => rest'[p] = {}
    BY <2>1
  <2> QED BY <1>s, <2>1, <2>6, <2>7, <2>8, <2>9 DEF AnnouncedSoFar, Publishing
<1> QED BY <1>1, <1>2, <1>3

\* A copy's job follows its new validity; the other edits touch no copy and no job.
LEMMA AnnouncedEdits ==
  ASSUME AnnounceInv, NEW p \in Servers, exists, faults = 0, Edit(p)
  PROVE  AnnouncedSoFar(p)'
<1>t. pc \in [Servers -> Steps] /\ CopyTypes /\ JobTypes /\ LocalTypes
  BY DEF AnnounceInv, RepairInv, CopyInv, TypeOK, StepTypes
<1>s. AnnouncedSoFar(p) /\ SyncedSoFar(p)
  BY DEF AnnounceInv, RepairInv
<1>1. CASE /\ UNCHANGED <<copyVars, jobVars, broken>>
           /\ pc[p] \in {"idle", "offers", "find", "refresh", "delete"}
           /\ pc'[p] \in {"idle", "offers", "find", "copies", "refresh", "delete"}
  BY <1>1, <1>s, AnnouncedSame DEF Publishing
<1>2. CASE (\E d \in Dates : StartValidity(p, d)) \/ OfferDates(p) \/ FindCopies(p)
  BY <1>1, <1>2, <1>t DEF StartValidity, OfferDates, FindCopies, Arrives, Goto, boundVars
<1>3. CASE \E o \in Offers, t \in Texts : EditOffer(p, o, t) \/ \E d \in Dates : AddDraft(p, o, t, d)
  BY <1>1, <1>3, <1>t DEF EditOffer, AddDraft, Arrives, Goto
<1>4. CASE (\E o \in Offers : StartDelete(p, o)) \/ Refresh(p) \/ Delete(p)
  BY <1>1, <1>4, <1>t DEF StartDelete, Refresh, Delete, Arrives, Goto, boundVars
<1>5. ASSUME NEW c \in Copies, CopyDate(p, c) PROVE AnnouncedSoFar(p)'
  <2>1. /\ pc[p] = "copies" /\ pc'[p] = "clones" /\ at'[p] = c
        /\ UNCHANGED <<market, made, job, jobDate, broken>>
    BY <1>5, <1>t DEF CopyDate, Goto, LocalTypes, jobVars, boundVars
  <2>2. \A d \in Copies \ {c} : until'[d] = until[d]
    BY <1>5, <1>t DEF CopyDate, CopyTypes
  <2>3. Live' = Live /\ \A d \in Live : Announced(d) /\ d \in Copies
    BY <1>s, <2>1 DEF AnnouncedSoFar, Live
  <2>4. \A d \in Live' : Announced(d)' \/ (d = c /\ job'[d] # "none")
    BY <2>1, <2>2, <2>3 DEF Announced
  <2> QED BY <1>s, <2>1, <2>4 DEF AnnouncedSoFar, Publishing
<1>6. ASSUME CloneDates(p) PROVE AnnouncedSoFar(p)'
  <2>1. /\ pc[p] = "clones" /\ pc'[p] = "job"
        /\ UNCHANGED <<market, until, made, job, jobDate, at, broken>>
    BY <1>6, <1>t DEF CloneDates, Goto, copyVars, jobVars, localVars, boundVars
  <2>2. Live' = Live /\ \A c \in Live : Announced(c)' = Announced(c)
    BY <2>1 DEF Live, Announced
  <2> QED BY <1>s, <2>1, <2>2 DEF AnnouncedSoFar, Publishing
<1>7. ASSUME Reschedule(p) PROVE AnnouncedSoFar(p)'
  <2>1. /\ pc[p] = "job" /\ pc'[p] \in {"idle", "copies"}
        /\ UNCHANGED <<market, until, made, job, broken>>
    BY <1>7, <1>t DEF Reschedule, Goto, copyVars, boundVars
  <2>2. when[p] = date /\ at[p] \in Copies /\ until[at[p]] = date
    BY <1>s, <2>1 DEF AnnouncedSoFar, SyncedSoFar, DatedSoFar
  <2>3. /\ \A c \in Copies \ {at[p]} : jobDate'[c] = jobDate[c]
        /\ job[at[p]] = "pending" => jobDate'[at[p]] = date
    BY <1>7, <1>t, <2>2 DEF Reschedule, Reschedulable, JobTypes
  <2>4. Live' = Live /\ Live \subseteq Copies
    BY <2>1 DEF Live
  <2>5. \A c \in Live : Announced(c) \/ (c = at[p] /\ job[c] # "none")
    BY <1>s, <2>1 DEF AnnouncedSoFar
  <2>6. \A c \in Live' : Announced(c)'
    BY <2>1, <2>2, <2>3, <2>4, <2>5 DEF Announced
  <2> QED BY <1>s, <2>1, <2>6 DEF AnnouncedSoFar, Publishing
<1> QED BY <1>2, <1>3, <1>4, <1>5, <1>6, <1>7 DEF Edit

\* The worker takes jobs and gives them back; copies keep theirs.
LEMMA AnnouncedWorker ==
  ASSUME AnnounceInv, NEW p \in Servers, exists, faults = 0,
         NEW c \in Copies, TakeJob(c) \/ ReturnJob(c)
  PROVE  AnnouncedSoFar(p)'
<1>t. JobTypes
  BY DEF AnnounceInv, RepairInv, CopyInv, TypeOK
<1>s. AnnouncedSoFar(p)
  BY DEF AnnounceInv
<1>1. /\ job[c] # "none" /\ job'[c] \in {"taken", "again"}
      /\ \A d \in Copies \ {c} : job'[d] = job[d]
      /\ UNCHANGED <<date, market, until, made, jobDate, pc, rest, at, broken>>
  BY <1>t DEF TakeJob, ReturnJob, JobTypes, flyerVars, copyVars, localVars, boundVars
<1>2. Live' = Live /\ DatesShown' = DatesShown
  BY <1>1 DEF Live, DatesShown
<1>3. \A d \in Copies : (job[d] # "none") = (job'[d] # "none")
  BY <1>1
<1>4. \A d \in Live : d \in Copies /\ (Announced(d) => Announced(d)')
  BY <1>1 DEF Live, Announced
<1>5. rest[p] \subseteq Copies
  BY DEF AnnounceInv, RepairInv, CopyInv, TypeOK, LocalTypes
<1>6. pc'[p] \in {"upsert", "enqueue"} => \A d \in rest'[p] : job'[d] = "none" /\ d <= made'
  BY <1>s, <1>1, <1>3, <1>5 DEF AnnouncedSoFar
<1>7. \A d \in Live' :
        \/ Announced(d)'
        \/ pc'[p] \in {"upsert", "enqueue"} /\ d \in rest'[p]
        \/ pc'[p] \in {"clones", "job"} /\ d = at'[p] /\ job'[d] # "none"
  BY <1>s, <1>1, <1>2, <1>3, <1>4 DEF AnnouncedSoFar
<1> QED BY <1>s, <1>1, <1>2, <1>3, <1>6, <1>7 DEF AnnouncedSoFar

\* The database refuses nothing while the flyer exists: one server never finds its
\* targets taken or its market with two copies.
LEMMA NothingRefused ==
  ASSUME RepairInv, NEW p \in Servers, exists
  PROVE  ~Refusal(p)
<1>1. ~Clash
  BY DEF RepairInv, CopyInv, OneCopyPerMarket, Clash
<1>2. pc[p] = "link" => targets = {}
  BY DEF RepairInv, SyncedSoFar
<1> QED BY <1>1, <1>2 DEF Refusal, Referenced

\* Every step keeps copies announced.
LEMMA AnnounceStep ==
  ASSUME NEW q, Servers = {q}, AnnounceInv, [Next]_vars
  PROVE  exists' /\ faults' = 0 => \A p \in Servers : AnnouncedSoFar(p)'
<1> SUFFICES ASSUME exists', faults' = 0 PROVE AnnouncedSoFar(q)'
  OBVIOUS
<1>0. faults \in Nat
  BY BoundsAssumption DEF AnnounceInv, RepairInv, CopyInv, TypeOK, BoundTypes
<1>1. exists /\ faults = 0
  <2>1. ASSUME NEW p \in Servers, Publish(p) PROVE UNCHANGED <<exists, faults>>
    BY <2>1 DEF Publish, StartConfirm, Confirm, Count, StartTargets, Unlink, Link, Reread, Lookup,
       Hide, Remove, Update, Insert, Materialize, Enqueue, Arrives, flyerVars, boundVars
  <2>2. ASSUME NEW p \in Servers, Edit(p) PROVE UNCHANGED <<exists, faults>>
    BY <2>2 DEF Edit, StartValidity, OfferDates, FindCopies, CopyDate, CloneDates, Reschedule,
       AddDraft, EditOffer, Refresh, StartDelete, Delete, Arrives, flyerVars, boundVars
  <2>3. ASSUME NEW p \in Servers, Fault(p) PROVE FALSE
    BY <1>0, <2>3 DEF Fault
  <2>4. ASSUME NEW p \in Servers, Refusal(p) PROVE UNCHANGED <<exists, faults>>
    BY <2>4 DEF Refusal, Stops, flyerVars
  <2>5. CASE UNCHANGED <<exists, faults>>
    BY <2>5
  <2> QED
    BY <2>1, <2>2, <2>3, <2>4, <2>5 DEF Next, DeleteFlyer, TakeJob, ReturnJob,
       vars, flyerVars, boundVars
<1>2. RepairInv /\ AnnouncedSoFar(q)
  BY <1>1 DEF AnnounceInv
<1>3. CASE Publish(q)
  BY <1>1, <1>3, AnnouncedReads, AnnouncedOld, AnnouncedNew DEF Publish
<1>4. CASE Edit(q)
  BY <1>1, <1>4, AnnouncedEdits
<1>5. ASSUME Fault(q) PROVE FALSE
  BY <1>0, <1>5 DEF Fault
<1>6. ASSUME Refusal(q) PROVE FALSE
  BY <1>1, <1>2, <1>6, NothingRefused
<1>7. CASE DeleteFlyer
  BY <1>7 DEF DeleteFlyer
<1>8. ASSUME NEW c \in Copies, TakeJob(c) \/ ReturnJob(c) PROVE AnnouncedSoFar(q)'
  BY <1>1, <1>8, AnnouncedWorker
<1>9. CASE UNCHANGED vars
  <2>1. UNCHANGED <<date, market, until, made, job, jobDate, pc, rest, at, broken>>
    BY <1>9 DEF vars, flyerVars, copyVars, jobVars, localVars, boundVars
  <2>2. Live' = Live /\ DatesShown' = DatesShown /\ \A c \in Live : Announced(c)' = Announced(c)
    BY <2>1 DEF Live, DatesShown, Announced
  <2> QED BY <1>2, <2>1, <2>2 DEF AnnouncedSoFar
<1> QED
  BY <1>3, <1>4, <1>5, <1>6, <1>7, <1>8, <1>9 DEF Next

\* A copy that is left when no handler runs has a flyer-published job, with the
\* copy's date as long as no worker has taken it, provided that one server answers
\* the requests and none of its handlers stopped half-way.
THEOREM CopiesAnnounced ==
  ASSUME NEW q, Servers = {q}
  PROVE  Spec => []EveryCopyIsAnnounced
<1>1. Init => AnnounceInv
  <2> SUFFICES ASSUME Init PROVE AnnounceInv
    OBVIOUS
  <2>1. RepairInv
    BY RepairInit
  <2>2. ~broken /\ Live = {} /\ \A c \in Copies : job[c] = "none"
    BY DEF Init, Live
  <2>3. \A p \in Servers : pc[p] = "idle"
    BY DEF Init
  <2> QED BY <2>1, <2>2, <2>3 DEF AnnounceInv, AnnouncedSoFar, Publishing
<1>2. AnnounceInv /\ [Next]_vars => AnnounceInv'
  <2> SUFFICES ASSUME AnnounceInv, [Next]_vars PROVE AnnounceInv'
    OBVIOUS
  <2>1. RepairInv'
    BY RepairNext DEF AnnounceInv
  <2>2. exists' /\ faults' = 0 => \A p \in Servers : AnnouncedSoFar(p)'
    BY AnnounceStep
  <2> QED BY <2>1, <2>2 DEF AnnounceInv
<1>3. AnnounceInv => EveryCopyIsAnnounced
  <2> SUFFICES ASSUME AnnounceInv, Quiet, faults = 0, NEW c \in Live PROVE Announced(c)
    BY DEF EveryCopyIsAnnounced, Announced
  <2>1. AnnouncedSoFar(q) /\ pc[q] = "idle"
    BY DEF AnnounceInv, Quiet
  <2> QED BY <2>1 DEF AnnouncedSoFar
<1> QED BY <1>1, <1>2, <1>3, PTL DEF Spec
=============================================================================
