---------------------------- MODULE InventoryProofs ----------------------------
(***************************************************************************)
(* No artwork is ever allocated twice, counted wrong or sold at another    *)
(* price than the listed one, for every number of buyers, artworks, orders *)
(* and handlers.                                                           *)
(*                                                                         *)
(* Four kinds of step touch the artworks: the creation of an order takes   *)
(* them, an event or a cancellation gives them back, a captured payment    *)
(* sells them, an artist edits a price.  Every other step leaves artworks, *)
(* reservations and order lines alone (Still).  The proof classifies each  *)
(* action and shows that each kind preserves the invariants.  At the end,  *)
(* each kind of step is an action of the abstract allocation.              *)
(***************************************************************************)
EXTENDS CheckoutProofs, CheckoutAllocation

Active(a)   == \E o \in Orders : reservation[o] = "ACTIVE" /\ a \in Reserved(o)
Consumed(a) == \E o \in Orders : reservation[o] = "CONSUMED" /\ a \in Reserved(o)

Counted(a) ==
    /\ artwork[a].reserved = 1 <=> Active(a)
    /\ artwork[a].sold <=> Consumed(a)
    /\ artwork[a].stock = 0 <=> artwork[a].sold

\* The identity a new order takes has no reservation left behind.
ReservedArePlaced == \A o \in Orders : reservation[o] # "NONE" => order[o].status # "NONE"

AllocationInv ==
    /\ NoDoubleAllocation
    /\ \A a \in Exclusive : Counted(a)
    /\ ReservedArePlaced

\* Stated once more with the operators of this module.
LEMMA CountedIsConsistent == InventoryConsistent <=> \A a \in Exclusive : Counted(a)
  BY DEF InventoryConsistent, Counted, Active, Consumed

(***************************************************************************)
(* The kinds of step.                                                      *)
(***************************************************************************)
LinesKept ==
    \A o \in Orders : /\ order'[o].lines = order[o].lines
                      /\ order'[o].user = order[o].user /\ order'[o].version = order[o].version
                      /\ order[o].status # "NONE" => order'[o].status # "NONE"

CountersKept ==
    \A a \in Artworks : /\ artwork'[a].stock = artwork[a].stock
                        /\ artwork'[a].reserved = artwork[a].reserved
                        /\ artwork'[a].sold = artwork[a].sold

Quiet == LinesKept /\ CountersKept /\ UNCHANGED reservation

Still == LinesKept /\ UNCHANGED <<artwork, reservation>>

Move ==
    \/ Still
    \/ \E a \in Artworks, p \in Prices : EditPrice(a, p)
    \/ LinesKept /\ \E o \in Orders : SellReserved(o)
    \/ LinesKept /\ \E o \in Orders, status \in {"RELEASED", "EXPIRED"} :
                        ReleaseReserved(o, status)

\* What was ordered is written once: a handler that changes a status keeps it.
LEMMA StatusMove ==
    ASSUME DatabaseOK, NEW o, NEW status, status # "NONE" \/ status = order[o].status,
           order' = [order EXCEPT ![o].status = status]
    PROVE  LinesKept
  BY DEF LinesKept, DatabaseOK, OrderRows

\* A step that writes neither artworks, orders nor reservations moves nothing.
LEMMA NothingMoves == UNCHANGED <<artwork, order, reservation>> => Still
  BY DEF Still, LinesKept

\* A step that writes no artwork and no reservation leaves the counters alone ...
LEMMA StillIsQuiet == Still => Quiet
  BY DEF Still, Quiet, CountersKept

\* ... and so does the edit of a price.
LEMMA EditPriceIsQuiet ==
    ASSUME DatabaseOK, NEW a \in Artworks, NEW p \in Prices, EditPrice(a, p)
    PROVE  Quiet
  <1>1. CountersKept
    <2> SUFFICES ASSUME NEW b \in Artworks
                 PROVE  /\ artwork'[b].stock = artwork[b].stock
                        /\ artwork'[b].reserved = artwork[b].reserved
                        /\ artwork'[b].sold = artwork[b].sold
      BY DEF CountersKept
    <2>1. artwork[b] \in ArtworkRows  BY DEF DatabaseOK
    <2>2. artwork'[b] = artwork[b] \/ artwork'[b] = [artwork[b] EXCEPT !.price = p]
      BY DEF EditPrice, DatabaseOK
    <2> QED  BY <2>1, <2>2 DEF ArtworkRows
  <1> QED  BY <1>1 DEF EditPrice, Quiet, LinesKept

\* An order whose lines are kept still names the same artworks.
LEMMA SameLinesReserve == ASSUME LinesKept, NEW o \in Orders PROVE Reserved(o)' = Reserved(o)
  BY DEF LinesKept, Reserved, Items

\* A step that touches nothing preserves the invariant.
LEMMA QuietKeeps == AllocationInv /\ Quiet => AllocationInv'
  <1> SUFFICES ASSUME AllocationInv, Quiet PROVE AllocationInv'
    OBVIOUS
  <1>1. \A o \in Orders : Reserved(o)' = Reserved(o) /\ reservation'[o] = reservation[o]
    BY SameLinesReserve DEF Quiet
  <1>2. NoDoubleAllocation'
    BY <1>1 DEF AllocationInv, NoDoubleAllocation, Holding
  <1>3. ASSUME NEW a \in Exclusive PROVE Counted(a)'
    <2>1. Active(a)' <=> Active(a)  BY <1>1 DEF Active
    <2>2. Consumed(a)' <=> Consumed(a)  BY <1>1 DEF Consumed
    <2>3. a \in Artworks  BY ConstantsAssumption
    <2> QED  BY <2>1, <2>2, <2>3 DEF AllocationInv, Counted, Quiet, CountersKept
  <1>4. ReservedArePlaced'
    BY DEF AllocationInv, ReservedArePlaced, Quiet, LinesKept
  <1> QED  BY <1>2, <1>3, <1>4 DEF AllocationInv

\* Selling what an order holds: its artworks had no other holder.
LEMMA SellKeeps ==
    ASSUME DatabaseOK, AllocationInv, LinesKept, NEW o \in Orders, SellReserved(o)
    PROVE  AllocationInv'
  <1>1. CASE reservation[o] # "ACTIVE"
    BY <1>1, QuietKeeps DEF SellReserved, Quiet, CountersKept
  <1>2. CASE reservation[o] = "ACTIVE"
    <2>1. \A o2 \in Orders : Reserved(o2)' = Reserved(o2)  BY SameLinesReserve
    <2>2. reservation'[o] = "CONSUMED"
          /\ \A o2 \in Orders \ {o} : reservation'[o2] = reservation[o2]
      BY <1>2 DEF SellReserved, DatabaseOK
    <2>3. NoDoubleAllocation'
      BY <1>2, <2>1, <2>2 DEF AllocationInv, NoDoubleAllocation, Holding
    <2>4. \A a \in Reserved(o), o2 \in Orders \ {o} : Holding(o2) => a \notin Reserved(o2)
      BY <1>2 DEF AllocationInv, NoDoubleAllocation, Holding
    <2>5. ASSUME NEW a \in Exclusive PROVE Counted(a)'
      <3>0. a \in Artworks /\ artwork[a] \in ArtworkRows
        BY ConstantsAssumption DEF DatabaseOK
      <3>1. CASE a \in Reserved(o)
        <4>1. artwork'[a].stock = 0 /\ artwork'[a].reserved = 0 /\ artwork'[a].sold
          <5>1. artwork'[a] = [artwork[a] EXCEPT !.stock = 0, !.reserved = 0, !.sold = TRUE]
            BY <1>2, <3>0, <3>1 DEF SellReserved
          <5> QED  BY <3>0, <5>1 DEF ArtworkRows
        <4>2. ~Active(a)'  BY <2>1, <2>2, <2>4, <3>1 DEF Active, Holding
        <4>3. Consumed(a)'  BY <2>1, <2>2, <3>1 DEF Consumed
        <4> QED  BY <4>1, <4>2, <4>3 DEF Counted
      <3>2. CASE a \notin Reserved(o)
        <4>1. artwork'[a] = artwork[a]  BY <1>2, <3>0, <3>2 DEF SellReserved
        <4>2. Active(a)' <=> Active(a)  BY <2>1, <2>2, <3>2 DEF Active
        <4>3. Consumed(a)' <=> Consumed(a)  BY <2>1, <2>2, <3>2 DEF Consumed
        <4> QED  BY <4>1, <4>2, <4>3 DEF Counted, AllocationInv
      <3> QED  BY <3>1, <3>2
    <2>6. ReservedArePlaced'
      BY <1>2, <2>2 DEF AllocationInv, ReservedArePlaced, LinesKept
    <2> QED  BY <2>3, <2>5, <2>6 DEF AllocationInv
  <1> QED  BY <1>1, <1>2

\* Giving back what an order holds: nothing else holds it, nothing of it was sold.
LEMMA ReleaseKeeps ==
    ASSUME DatabaseOK, AllocationInv, LinesKept,
           NEW o \in Orders, NEW status \in {"RELEASED", "EXPIRED"}, ReleaseReserved(o, status)
    PROVE  AllocationInv'
  <1>1. CASE reservation[o] # "ACTIVE"
    BY <1>1, QuietKeeps DEF ReleaseReserved, Quiet, CountersKept
  <1>2. CASE reservation[o] = "ACTIVE"
    <2>1. \A o2 \in Orders : Reserved(o2)' = Reserved(o2)  BY SameLinesReserve
    <2>2. reservation'[o] = status
          /\ \A o2 \in Orders \ {o} : reservation'[o2] = reservation[o2]
      BY <1>2 DEF ReleaseReserved, DatabaseOK
    <2>3. NoDoubleAllocation'
      BY <1>2, <2>1, <2>2 DEF AllocationInv, NoDoubleAllocation, Holding
    <2>4. \A a \in Reserved(o), o2 \in Orders \ {o} : Holding(o2) => a \notin Reserved(o2)
      BY <1>2 DEF AllocationInv, NoDoubleAllocation, Holding
    <2>5. ASSUME NEW a \in Exclusive PROVE Counted(a)'
      <3>0. a \in Artworks /\ artwork[a] \in ArtworkRows
        BY ConstantsAssumption DEF DatabaseOK
      <3>1. CASE a \in Reserved(o)
        <4>1. /\ artwork'[a].stock = artwork[a].stock
              /\ artwork'[a].reserved = 0
              /\ artwork'[a].sold = artwork[a].sold
          <5>1. artwork'[a] = [artwork[a] EXCEPT !.reserved = 0]
            BY <1>2, <3>0, <3>1 DEF ReleaseReserved
          <5> QED  BY <3>0, <5>1 DEF ArtworkRows
        <4>2. ~Active(a)'  BY <2>1, <2>2, <2>4, <3>1 DEF Active, Holding
        <4>3. Consumed(a)' <=> Consumed(a)  BY <1>2, <2>1, <2>2, <3>1 DEF Consumed
        <4> QED  BY <4>1, <4>2, <4>3 DEF Counted, AllocationInv
      <3>2. CASE a \notin Reserved(o)
        <4>1. artwork'[a] = artwork[a]  BY <1>2, <3>0, <3>2 DEF ReleaseReserved
        <4>2. Active(a)' <=> Active(a)  BY <2>1, <2>2, <3>2 DEF Active
        <4>3. Consumed(a)' <=> Consumed(a)  BY <2>1, <2>2, <3>2 DEF Consumed
        <4> QED  BY <4>1, <4>2, <4>3 DEF Counted, AllocationInv
      <3> QED  BY <3>1, <3>2
    <2>6. ReservedArePlaced'
      BY <1>2, <2>2 DEF AllocationInv, ReservedArePlaced, LinesKept
    <2> QED  BY <2>3, <2>5, <2>6 DEF AllocationInv
  <1> QED  BY <1>1, <1>2

\* Taking artworks for a new order: the counters, read under the lock, say that nobody
\* holds any of them.
LEMMA CreateKeeps ==
    ASSUME TypeInv, AllocationInv, NEW w \in Workers, NEW o \in Orders, CreateOrder(w, o)
    PROVE  AllocationInv'
  <1> DEFINE u == work[w].user
             taken == cart[u].items \cap Exclusive
             row == [status |-> "PENDING_PAYMENT", user |-> u, version |-> work[w].version,
                     lines |-> work[w].lines, key |-> work[w].key, expired |-> FALSE]
  <1>1. /\ order[o].status = "NONE" /\ reservation[o] = "NONE"
        /\ DOMAIN work[w].lines = cart[u].items
        /\ \A a \in taken : artwork[a].stock > artwork[a].reserved
        /\ order' = [order EXCEPT ![o] = row]
        /\ reservation' = [reservation EXCEPT ![o] = IF taken = {} THEN "NONE" ELSE "ACTIVE"]
        /\ artwork' = [a \in Artworks |-> IF a \in taken
                                          THEN [artwork[a] EXCEPT !.reserved = 1] ELSE artwork[a]]
    BY DEF CreateOrder, Placed, Payable, Purchasable, CartLines, AllocationInv, ReservedArePlaced
  <1>2. taken \subseteq Artworks /\ taken \subseteq Exclusive  BY ConstantsAssumption
  <1>3. Items(o)' = cart[u].items /\ Reserved(o)' = taken
    BY <1>1 DEF Items, Reserved, TypeInv, DatabaseOK
  <1>4. \A o2 \in Orders \ {o} : Reserved(o2)' = Reserved(o2)
                                 /\ reservation'[o2] = reservation[o2]
    BY <1>1 DEF Items, Reserved, TypeInv, DatabaseOK
  <1>5. reservation'[o] = IF taken = {} THEN "NONE" ELSE "ACTIVE"
    BY <1>1 DEF TypeInv, DatabaseOK
  <1>6. order'[o].status = "PENDING_PAYMENT"
        /\ \A o2 \in Orders \ {o} : order'[o2] = order[o2]
    BY <1>1 DEF TypeInv, DatabaseOK
  <1> HIDE DEF taken, row, u
  \* The counters of the artworks taken say that no order holds them.
  <1>7. \A a \in taken, o2 \in Orders : Holding(o2) => a \notin Reserved(o2)
    <2> SUFFICES ASSUME NEW a \in taken PROVE ~Active(a) /\ ~Consumed(a)
      BY DEF Active, Consumed, Holding
    <2>1. artwork[a] \in ArtworkRows /\ artwork[a].stock > artwork[a].reserved
      BY <1>1, <1>2 DEF TypeInv, DatabaseOK
    <2>2. artwork[a].reserved = 0 /\ artwork[a].stock = 1  BY <2>1 DEF ArtworkRows
    <2> QED  BY <1>2, <2>2 DEF AllocationInv, Counted
  <1>8. NoDoubleAllocation'
    BY <1>3, <1>4, <1>5, <1>7 DEF AllocationInv, NoDoubleAllocation, Holding
  <1>9. ASSUME NEW a \in Exclusive PROVE Counted(a)'
    <2>0. a \in Artworks /\ artwork[a] \in ArtworkRows
      BY ConstantsAssumption DEF TypeInv, DatabaseOK
    <2>1. CASE a \in taken
      <3>1. /\ artwork'[a].stock = artwork[a].stock
            /\ artwork'[a].reserved = 1
            /\ artwork'[a].sold = artwork[a].sold
        <4>1. artwork'[a] = [artwork[a] EXCEPT !.reserved = 1]  BY <1>1, <2>0, <2>1
        <4> QED  BY <2>0, <4>1 DEF ArtworkRows
      <3>2. Active(a)'  BY <1>3, <1>5, <2>1 DEF Active
      <3>3. ~Consumed(a) /\ ~Consumed(a)'
        BY <1>4, <1>5, <1>7, <2>1 DEF Consumed, Holding
      <3> QED  BY <3>1, <3>2, <3>3 DEF Counted, AllocationInv
    <2>2. CASE a \notin taken
      <3>1. artwork'[a] = artwork[a]  BY <1>1, <2>0, <2>2
      <3>2. (Active(a)' <=> Active(a)) /\ (Consumed(a)' <=> Consumed(a))
        BY <1>1, <1>3, <1>4, <1>5, <2>2 DEF Active, Consumed
      <3> QED  BY <3>1, <3>2 DEF Counted, AllocationInv
    <2> QED  BY <2>1, <2>2
  <1>10. ReservedArePlaced'
    BY <1>4, <1>6 DEF AllocationInv, ReservedArePlaced
  <1> QED  BY <1>8, <1>9, <1>10 DEF AllocationInv

(***************************************************************************)
(* Every action is one of these kinds.                                     *)
(***************************************************************************)
\* A payment event sells, gives back, or moves nothing.
LEMMA ProcessEventMoves ==
    ASSUME DatabaseOK, NEW e, e \notin processed => e \in EventIds, ProcessEvent(e)
    PROVE  Move
  <1>1. CASE UNCHANGED database  BY <1>1, NothingMoves DEF database, Move
  <1>2. CASE e \in EventIds /\ FlagForReview(e)
    <2> DEFINE status == IF canTransitionOrder(order[e.order].status, "PAYMENT_REVIEW")
                         THEN "PAYMENT_REVIEW" ELSE order[e.order].status
    <2>1. order' = [order EXCEPT ![e.order].status = status]
      BY <1>2 DEF FlagForReview, DatabaseOK, EventIds
    <2>2. status # "NONE" \/ status = order[e.order].status  OBVIOUS
    <2> HIDE DEF status
    <2>3. LinesKept  BY <2>1, <2>2, StatusMove
    <2> QED  BY <1>2, <2>3 DEF FlagForReview, Move, Still
  <1>3. CASE e \in EventIds /\ ApplyEvent(e)
    <2> DEFINE o == e.order
               target == EVENT_TARGETS[e.type]
               status == IF canTransitionOrder(order[o].status, target.order)
                         THEN target.order ELSE order[o].status
    <2>1. o \in Orders /\ e.type \in EventTypes  BY <1>3 DEF EventIds
    <2>2. order' = [order EXCEPT ![o].status = status]
      BY <1>3 DEF ApplyEvent
    <2>3. status # "NONE" \/ status = order[o].status  BY <2>1, Targets, OpenStatuses
    <2>4. \/ SellReserved(o)
          \/ ReleaseReserved(o, "RELEASED")
          \/ UNCHANGED <<artwork, reservation>>
      BY <1>3 DEF ApplyEvent
    <2> HIDE DEF status, o
    <2>5. LinesKept  BY <2>2, <2>3, StatusMove
    <2> QED  BY <2>1, <2>4, <2>5 DEF Move, Still
  <1> QED  BY <1>1, <1>2, <1>3 DEF ProcessEvent

\* Buyers, artists, the provider and the webhook endpoint never take artworks.
LEMMA EnvironmentMoves == ASSUME TypeInv, Environment PROVE Move
  <1>1. CASE \E u \in Users : ClearCart(u) \/ ReplaceCustomer(u)
    BY <1>1, NothingMoves DEF ClearCart, ReplaceCustomer, Move
  <1>2. CASE \E u \in Users, a \in Artworks : SetCartItem(u, a) \/ RemoveCartItem(u, a)
    BY <1>2, NothingMoves DEF SetCartItem, RemoveCartItem, Move
  <1>3. CASE \E a \in Artworks, p \in Prices : EditPrice(a, p)
    BY <1>3 DEF Move
  <1>4. CASE \E o \in Orders : Expire(o)
    <2>1. PICK o \in Orders : Expire(o)  BY <1>4
    <2>2. LinesKept
      BY <2>1 DEF LinesKept, Expire, TypeInv, DatabaseOK, OrderRows
    <2> QED  BY <2>1, <2>2 DEF Expire, Move, Still
  <1>5. CASE \E o \in Orders : Confirm(o) \/ BankAnswers(o) \/ ProviderCancels(o)
    BY <1>5, NothingMoves DEF Confirm, BankAnswers, ProviderCancels, database, Move
  <1>6. CASE \E e \in sent : Webhook(e)
    BY <1>6, ProcessEventMoves DEF Webhook, TypeInv, ProviderOK
  <1> QED  BY <1>1, <1>2, <1>3, <1>4, <1>5, <1>6 DEF Environment

\* Handlers that park, reopen or cancel an order write its status and nothing of its lines.
LEMMA MarkOrderForReviewMoves ==
    ASSUME TypeInv, NEW w \in Workers, MarkOrderForReview(w)
    PROVE  Move
  <1> DEFINE o == work[w].order
             status == IF order[o].status \in OPEN_ORDER_STATUSES
                       THEN "PAYMENT_REVIEW" ELSE order[o].status
  <1>0. o \in Orders  BY WorkedOnOrder DEF MarkOrderForReview, At, OrderSteps
  <1>1. order' = [order EXCEPT ![o].status = status]
    BY <1>0 DEF MarkOrderForReview, TypeInv, DatabaseOK
  <1>2. status # "NONE" \/ status = order[o].status  OBVIOUS
  <1> HIDE DEF status
  <1>3. LinesKept  BY <1>1, <1>2, StatusMove DEF TypeInv
  <1> QED  BY <1>3 DEF MarkOrderForReview, Move, Still

\* The last write of a resume moves no artwork.
LEMMA ReopenMoves ==
    ASSUME TypeInv, NEW w \in Workers, Reopen(w)
    PROVE  Move
  <1> DEFINE o == work[w].order
             status == IF canTransitionOrder(work[w].status, "PENDING_PAYMENT")
                       THEN "PENDING_PAYMENT" ELSE order[o].status
  <1>0. o \in Orders  BY WorkedOnOrder DEF Reopen, At, OrderSteps
  <1>1. order' = [order EXCEPT ![o].status = status]
    BY <1>0 DEF Reopen, TypeInv, DatabaseOK
  <1>2. status # "NONE" \/ status = order[o].status  OBVIOUS
  <1> HIDE DEF status
  <1>3. LinesKept  BY <1>1, <1>2, StatusMove DEF TypeInv
  <1> QED  BY <1>3 DEF Reopen, Move, Still

\* A local cancellation gives the artworks of one order back.
LEMMA CancelLocallyMoves ==
    ASSUME TypeInv, NEW w \in Workers, CancelLocally(w)
    PROVE  Move
  <1> DEFINE o == work[w].order
  <1>1. o \in Orders /\ work[w].reason \in {"RELEASED", "EXPIRED"}
    BY WorkedOnOrder, RecordType DEF CancelLocally, At, OrderSteps, WorkRecords
  <1>2. LinesKept  BY StatusMove DEF CancelLocally, TypeInv
  <1> QED  BY <1>1, <1>2 DEF CancelLocally, Move

\* Among the handlers, only the creation of an order takes artworks.
LEMMA HandlerMoves ==
    ASSUME TypeInv, NEW w \in Workers, HandlerStart(w) \/ HandlerStep(w) \/ Fail(w)
    PROVE  Move \/ \E o \in Orders : CreateOrder(w, o)
  <1>1. CASE HandlerStart(w) \/ Fail(w)
    BY <1>1, NothingMoves
       DEF HandlerStart, Fail, BeginCheckout, RepeatCheckout, BeginResume, BeginMonitor,
           BeginExpiry, database, Move
  <1>2. CASE HandlerStep(w)
    <2>1. CASE \/ RenewCanceledCheckoutSnapshot(w) \/ RereadCart(w) \/ ListSuperseded(w)
               \/ ReuseOrder(w) \/ LinkIntent(w) \/ Settle(w) \/ CheckCart(w) \/ ReloadOrder(w)
               \/ (\E old \in work[w].todo : CancelNext(w, old))
               \/ CancelAtProvider(w) \/ AlreadyClosed(w)
      BY <2>1, NothingMoves
         DEF RenewCanceledCheckoutSnapshot, RereadCart, ListSuperseded, ReuseOrder, LinkIntent,
             Settle, CheckCart, ReloadOrder, CancelNext, CancelAtProvider, AlreadyClosed,
             database, Move
    <2>2. CASE CreateOrRetrieveIntent(w) \/ RetrieveIntent(w)
      <3>1. UNCHANGED database  BY <2>2 DEF CreateOrRetrieveIntent, RetrieveIntent
      <3> QED  BY <3>1, NothingMoves DEF database, Move
    <2>3. CASE Reconcile(w)
      <3> DEFINE type == eventTypeForIntent(work[w].seen.status, work[w].paid)
      <3>1. CASE type = "none"
        BY <2>3, <3>1, NothingMoves DEF Reconcile, database, Move
      <3>2. CASE type # "none"
        <4>1. work[w].order \in Orders /\ work[w].seen.charge \in Nat
          BY <2>3, WorkedOnOrder, RecordType DEF Reconcile, At, OrderSteps, WorkRecords
        <4>2. SeenEvent(w) \in EventIds
          BY <3>2, <4>1, ReconciledType DEF SeenEvent, EventIds
        <4> QED  BY <2>3, <3>2, <4>2, ProcessEventMoves DEF Reconcile, TypeInv
      <3> QED  BY <3>1, <3>2
    <2>4. CASE ProtectPayment(w)
      <3> DEFINE e == [source |-> "reconcile", order |-> work[w].order, type |-> "succeeded",
                       charge |-> work[w].seen.charge]
      <3>1. work[w].order \in Orders /\ work[w].seen.charge \in Nat
        BY <2>4, WorkedOnOrder, RecordType DEF ProtectPayment, At, OrderSteps, WorkRecords
      <3>2. e \in EventIds  BY <3>1 DEF EventIds, EventTypes
      <3>3. ProcessEvent(e)  BY <2>4 DEF ProtectPayment
      <3> HIDE DEF e
      <3> QED  BY <3>2, <3>3, ProcessEventMoves DEF TypeInv
    <2> QED
      BY <1>2, <2>1, <2>2, <2>3, <2>4, MarkOrderForReviewMoves, ReopenMoves,
         CancelLocallyMoves DEF HandlerStep
  <1> QED  BY <1>1, <1>2

(***************************************************************************)
(* The theorems.                                                           *)
(***************************************************************************)
\* In the beginning nothing is held, and every counter says so.
LEMMA InitAllocation == Init => AllocationInv
  <1> SUFFICES ASSUME Init PROVE AllocationInv
    OBVIOUS
  <1>1. NoDoubleAllocation  BY DEF Init, NoDoubleAllocation, Holding
  <1>2. ASSUME NEW a \in Exclusive PROVE Counted(a)
    <2>1. a \in Artworks  BY ConstantsAssumption
    <2>2. artwork[a].stock = 1 /\ artwork[a].reserved = 0 /\ ~artwork[a].sold
      BY <2>1 DEF Init
    <2>3. ~Active(a) /\ ~Consumed(a)  BY DEF Init, Active, Consumed
    <2> QED  BY <2>2, <2>3 DEF Counted
  <1>3. ReservedArePlaced  BY DEF Init, ReservedArePlaced
  <1> QED  BY <1>1, <1>2, <1>3 DEF AllocationInv

\* Every step preserves the allocation invariant.
LEMMA NextAllocation == TypeInv /\ AllocationInv /\ [Next]_vars => AllocationInv'
  <1> SUFFICES ASSUME TypeInv, AllocationInv, [Next]_vars PROVE AllocationInv'
    OBVIOUS
  <1>1. CASE Move
    BY <1>1, QuietKeeps, StillIsQuiet, EditPriceIsQuiet, SellKeeps, ReleaseKeeps
       DEF Move, TypeInv
  <1>2. CASE \E w \in Workers, o \in Orders : CreateOrder(w, o)
    BY <1>2, CreateKeeps
  <1>3. CASE UNCHANGED vars
    BY <1>3, NothingMoves, StillIsQuiet, QuietKeeps DEF vars, database
  <1> QED  BY <1>1, <1>2, <1>3, EnvironmentMoves, HandlerMoves DEF Next

\* The allocation invariant holds throughout.
LEMMA AllocationHolds == Spec => []AllocationInv
  <1>1. Spec => []TypeInv  BY InitType, NextType, PTL DEF Spec
  <1>2. Spec => []AllocationInv
    BY <1>1, InitAllocation, NextAllocation, PTL DEF Spec
  <1> QED  BY <1>2

\* Two orders never hold or have bought the same exclusive artwork, however many buyers
\* run the conditional update of createPendingCheckout against each other.
THEOREM NeverAllocatedTwice == Spec => []NoDoubleAllocation
  <1>1. AllocationInv => NoDoubleAllocation  BY DEF AllocationInv
  <1> QED  BY <1>1, AllocationHolds, PTL

\* The counters of an artwork and the reservation rows of the orders agree after every
\* step of every handler.
THEOREM CountersAgree == Spec => []InventoryConsistent
  <1>1. AllocationInv => InventoryConsistent  BY CountedIsConsistent DEF AllocationInv
  <1> QED  BY <1>1, AllocationHolds, PTL

\* A reservation that was sold or given back never changes again, in any step.
THEOREM ReservationsEndOnce == Spec => ReservationEndsOnce
  <1> DEFINE Ended == \A o \in Orders : reservation[o] \in {"CONSUMED", "RELEASED", "EXPIRED"}
                                            => reservation'[o] = reservation[o]
  <1>1. TypeInv /\ AllocationInv /\ [Next]_vars => Ended
    <2> SUFFICES ASSUME TypeInv, AllocationInv, [Next]_vars PROVE Ended
      OBVIOUS
    <2>1. CASE Move
      BY <2>1 DEF Move, Still, EditPrice, SellReserved, ReleaseReserved, TypeInv, DatabaseOK
    <2>2. CASE \E w \in Workers, o \in Orders : CreateOrder(w, o)
      BY <2>2 DEF CreateOrder, Placed, AllocationInv, ReservedArePlaced, TypeInv, DatabaseOK
    <2>3. CASE UNCHANGED vars
      BY <2>3 DEF vars, database
    <2> QED  BY <2>1, <2>2, <2>3, EnvironmentMoves, HandlerMoves DEF Next
  <1>2. Spec => []TypeInv  BY InitType, NextType, PTL DEF Spec
  <1> QED  BY <1>1, <1>2, AllocationHolds, PTL DEF Spec, ReservationEndsOnce

(***************************************************************************)
(* The price of what an order holds.                                       *)
(***************************************************************************)
\* Selling or giving back artworks writes no price and starts no reservation.
LEMMA EndKeepsPrices ==
    ASSUME DatabaseOK, NEW o \in Orders,
           SellReserved(o) \/ \E status \in {"RELEASED", "EXPIRED"} : ReleaseReserved(o, status)
    PROVE  /\ \A a \in Artworks : artwork'[a].price = artwork[a].price
           /\ \A o2 \in Orders : reservation'[o2] = "ACTIVE" => reservation[o2] = "ACTIVE"
  <1>1. ASSUME NEW a \in Artworks PROVE artwork'[a].price = artwork[a].price
    <2>1. artwork[a] \in ArtworkRows  BY DEF DatabaseOK
    <2>2. \/ artwork'[a] = artwork[a]
          \/ artwork'[a] = [artwork[a] EXCEPT !.stock = 0, !.reserved = 0, !.sold = TRUE]
          \/ artwork'[a] = [artwork[a] EXCEPT !.reserved = 0]
      BY DEF SellReserved, ReleaseReserved
    <2> QED  BY <2>1, <2>2 DEF ArtworkRows
  <1>2. ASSUME NEW o2 \in Orders PROVE reservation'[o2] = "ACTIVE" => reservation[o2] = "ACTIVE"
    BY DEF SellReserved, ReleaseReserved, DatabaseOK
  <1> QED  BY <1>1, <1>2

\* Where no price changes and no reservation starts, held artworks keep their price.
LEMMA SamePricesKeep ==
    ASSUME HeldAtListedPrice, LinesKept,
           \A a \in Artworks : artwork'[a].price = artwork[a].price,
           \A o \in Orders : reservation'[o] = "ACTIVE" => reservation[o] = "ACTIVE"
    PROVE  HeldAtListedPrice'
  <1>1. \A o \in Orders : Reserved(o)' = Reserved(o)  BY SameLinesReserve
  <1>2. \A o \in Orders : Reserved(o) \subseteq Artworks
    BY ConstantsAssumption DEF Reserved
  <1> QED  BY <1>1, <1>2 DEF HeldAtListedPrice, LinesKept

\* The guard of a price edit looks at the reservations, whatever the order's status.
LEMMA EditPriceKeeps ==
    ASSUME TypeInv, AllocationInv, HeldAtListedPrice,
           NEW a \in Artworks, NEW p \in Prices, EditPrice(a, p)
    PROVE  HeldAtListedPrice'
  <1>1. LinesKept /\ UNCHANGED <<order, reservation>>  BY DEF EditPrice, LinesKept
  <1> SUFFICES ASSUME NEW o \in Orders, reservation[o] = "ACTIVE", NEW b \in Reserved(o)
               PROVE  order[o].lines[b] = artwork'[b].price
    BY <1>1, SameLinesReserve DEF HeldAtListedPrice
  <1>2. o \in Placed /\ b \in Items(o) /\ b \in Exclusive /\ b \in Artworks
    BY ConstantsAssumption DEF AllocationInv, ReservedArePlaced, Placed, Reserved
  <1>3. b # a  BY <1>2 DEF EditPrice
  <1>4. artwork'[b] = artwork[b]  BY <1>2, <1>3 DEF EditPrice, TypeInv, DatabaseOK
  <1> QED  BY <1>4 DEF HeldAtListedPrice

\* A new order is made of the prices read in the transaction that reserves.
LEMMA CreateKeepsPrices ==
    ASSUME TypeInv, HeldAtListedPrice,
           NEW w \in Workers, NEW new \in Orders, CreateOrder(w, new)
    PROVE  HeldAtListedPrice'
  <1> DEFINE u == work[w].user
  <1>1. /\ order'[new].lines = CartLines(u)
        /\ \A o \in Orders \ {new} : order'[o] = order[o] /\ reservation'[o] = reservation[o]
    BY DEF CreateOrder, TypeInv, DatabaseOK
  <1>2. ASSUME NEW a \in Artworks PROVE artwork'[a].price = artwork[a].price
    <2>1. artwork[a] \in ArtworkRows  BY DEF TypeInv, DatabaseOK
    <2>2. artwork'[a] = artwork[a] \/ artwork'[a] = [artwork[a] EXCEPT !.reserved = 1]
      BY DEF CreateOrder
    <2> QED  BY <2>1, <2>2 DEF ArtworkRows
  <1> SUFFICES ASSUME NEW o \in Orders, reservation'[o] = "ACTIVE", NEW a \in Reserved(o)'
               PROVE  order'[o].lines[a] = artwork'[a].price
    BY DEF HeldAtListedPrice
  <1>3. a \in Artworks /\ a \in Items(o)'  BY ConstantsAssumption DEF Reserved
  <1>4. CASE o = new
    <2>1. a \in cart[u].items  BY <1>1, <1>3, <1>4 DEF Items, CartLines
    <2>2. order'[o].lines[a] = artwork[a].price  BY <1>1, <1>4, <2>1 DEF CartLines
    <2> QED  BY <1>2, <1>3, <2>2
  <1>5. CASE o # new
    <2>1. reservation[o] = "ACTIVE" /\ order'[o] = order[o] /\ a \in Reserved(o)
      BY <1>1, <1>5 DEF Reserved, Items
    <2> QED  BY <1>2, <1>3, <2>1 DEF HeldAtListedPrice
  <1> QED  BY <1>4, <1>5

\* As long as an order holds an artwork, its artist cannot change the price behind it.
THEOREM BuyersPayTheListedPrice == Spec => []HeldAtListedPrice
  <1>1. Init => HeldAtListedPrice
    BY DEF Init, HeldAtListedPrice
  <1>2. TypeInv /\ AllocationInv /\ HeldAtListedPrice /\ [Next]_vars => HeldAtListedPrice'
    <2> SUFFICES ASSUME TypeInv, AllocationInv, HeldAtListedPrice, [Next]_vars
                 PROVE  HeldAtListedPrice'
      OBVIOUS
    <2>1. CASE Still \/ UNCHANGED vars
      <3>1. Still  BY <2>1, NothingMoves DEF vars, database
      <3> QED  BY <3>1, SamePricesKeep DEF Still
    <2>2. CASE \E a \in Artworks, p \in Prices : EditPrice(a, p)
      BY <2>2, EditPriceKeeps
    <2>3. CASE LinesKept /\ \E o \in Orders :
                  \/ SellReserved(o)
                  \/ \E status \in {"RELEASED", "EXPIRED"} : ReleaseReserved(o, status)
      BY <2>3, EndKeepsPrices, SamePricesKeep DEF TypeInv
    <2>4. CASE \E w \in Workers, o \in Orders : CreateOrder(w, o)
      BY <2>4, CreateKeepsPrices
    <2> QED  BY <2>1, <2>2, <2>3, <2>4, EnvironmentMoves, HandlerMoves DEF Next, Move
  <1>3. Spec => []TypeInv  BY InitType, NextType, PTL DEF Spec
  <1> QED  BY <1>1, <1>2, <1>3, AllocationHolds, PTL DEF Spec

(***************************************************************************)
(* The checkout implements the abstract allocation, for every number of    *)
(* buyers, artworks, orders and handlers.  The allocation invariant makes  *)
(* the refinement mapping read the same owner from the counters and from   *)
(* the reservation rows; each kind of step is then one abstract action.    *)
(***************************************************************************)

\* The mapping, in terms of the reservation rows alone.
OwnerKnown ==
    /\ \A a \in Exclusive : Owner[a] \in Orders \cup {None}
    /\ \A a \in Exclusive, o \in Orders : Owner[a] = o <=> Holding(o) /\ a \in Reserved(o)

\* The counters of an artwork and the reservation rows name the same owner.
LEMMA OwnerDetermined == DatabaseOK /\ AllocationInv => OwnerKnown
  <1> SUFFICES ASSUME DatabaseOK, AllocationInv, NEW a \in Exclusive
               PROVE  /\ Owner[a] \in Orders \cup {None}
                      /\ \A o \in Orders : Owner[a] = o <=> o \in Owners(a)
    BY DEF OwnerKnown, Owners
  <1>1. artwork[a] \in ArtworkRows  BY ConstantsAssumption DEF DatabaseOK
  <1>2. artwork[a].stock > artwork[a].reserved <=> Owners(a) = {}
    <2>1. Counted(a)  BY DEF AllocationInv
    <2>2. Owners(a) = {} <=> ~Active(a) /\ ~Consumed(a)
      BY DEF Owners, Active, Consumed, Holding
    <2>3. artwork[a].stock \in {0, 1} /\ artwork[a].reserved \in {0, 1}
      BY <1>1 DEF ArtworkRows
    <2>4. artwork[a].stock > artwork[a].reserved
            <=> artwork[a].stock = 1 /\ artwork[a].reserved = 0
      BY <2>3
    <2> QED  BY <2>1, <2>2, <2>3, <2>4 DEF Counted
  <1>3. \A o1, o2 \in Owners(a) : o1 = o2
    BY DEF Owners, AllocationInv, NoDoubleAllocation
  <1>4. CASE Owners(a) = {}
    <2>1. Owner[a] = None  BY <1>4 DEF Owner
    <2> QED  BY <1>4, <2>1, ConstantsAssumption
  <1>5. CASE Owners(a) # {}
    <2>1. Owner[a] = CHOOSE o \in Owners(a) : TRUE  BY <1>2, <1>5 DEF Owner
    <2>2. Owner[a] \in Owners(a)  BY <1>5, <2>1
    <2> QED  BY <1>3, <2>2 DEF Owners
  <1> QED  BY <1>4, <1>5

\* Two states that agree on who holds what are mapped to the same owners.
LEMMA SameHoldersSameOwners ==
    ASSUME OwnerKnown, OwnerKnown',
           \A a \in Exclusive, o \in Orders :
              (Holding(o) /\ a \in Reserved(o))' <=> Holding(o) /\ a \in Reserved(o)
    PROVE  Owner' = Owner
  <1>1. ASSUME NEW a \in Exclusive PROVE Owner'[a] = Owner[a]
    <2>1. \A o \in Orders : Owner'[a] = o <=> Owner[a] = o  BY DEF OwnerKnown
    <2>2. Owner'[a] \in Orders \cup {None} /\ Owner[a] \in Orders \cup {None}
      BY DEF OwnerKnown
    <2> QED  BY <2>1, <2>2
  <1>2. Owner' = [a \in Exclusive |-> Owner'[a]] /\ Owner = [a \in Exclusive |-> Owner[a]]
    BY DEF Owner
  <1> QED  BY <1>1, <1>2

\* What touches no counter and no reservation is a stutter of the allocation.
LEMMA QuietStutters ==
    ASSUME OwnerKnown, OwnerKnown', Quiet
    PROVE  UNCHANGED <<Owner, Sold>>
  <1>1. \A o \in Orders : Reserved(o)' = Reserved(o) /\ reservation'[o] = reservation[o]
    BY SameLinesReserve DEF Quiet
  <1>2. Owner' = Owner  BY <1>1, SameHoldersSameOwners DEF Holding
  <1>3. Sold' = Sold  BY ConstantsAssumption DEF Sold, Quiet, CountersKept
  <1> QED  BY <1>2, <1>3

\* What an order holds and has not bought, nobody has bought.
LEMMA ActiveUnsold ==
    ASSUME AllocationInv, OwnerKnown, NEW o \in Orders, reservation[o] = "ACTIVE"
    PROVE  Abstract!Owned(o) \cap Sold = {}
  <1> SUFFICES ASSUME NEW a \in Exclusive, Owner[a] = o, artwork[a].sold PROVE FALSE
    BY DEF Abstract!Owned, Sold
  <1>1. a \in Reserved(o)  BY DEF OwnerKnown
  <1>2. PICK o2 \in Orders : reservation[o2] = "CONSUMED" /\ a \in Reserved(o2)
    BY DEF AllocationInv, Counted, Consumed
  <1> QED  BY <1>1, <1>2 DEF AllocationInv, NoDoubleAllocation, Holding

\* Finalizing a captured payment is the abstract sale.
LEMMA SellIsSell ==
    ASSUME DatabaseOK, AllocationInv, OwnerKnown, OwnerKnown', LinesKept,
           NEW o \in Orders, SellReserved(o)
    PROVE  Abstract!Sell(o) \/ UNCHANGED <<Owner, Sold>>
  <1>1. CASE reservation[o] # "ACTIVE"
    BY <1>1, QuietStutters DEF SellReserved, Quiet, CountersKept
  <1>2. CASE reservation[o] = "ACTIVE"
    <2>1. \A o2 \in Orders : Reserved(o2)' = Reserved(o2)  BY SameLinesReserve
    <2>2. reservation'[o] = "CONSUMED"
          /\ \A o2 \in Orders \ {o} : reservation'[o2] = reservation[o2]
      BY <1>2 DEF SellReserved, DatabaseOK
    <2>3. Owner' = Owner  BY <1>2, <2>1, <2>2, SameHoldersSameOwners DEF Holding
    <2>4. ASSUME NEW a \in Exclusive
          PROVE  artwork'[a].sold <=> artwork[a].sold \/ Owner[a] = o
      <3>1. a \in Artworks /\ artwork[a] \in ArtworkRows
        BY ConstantsAssumption DEF DatabaseOK
      <3>2. Owner[a] = o <=> a \in Reserved(o)  BY <1>2 DEF OwnerKnown, Holding
      <3>3. CASE a \in Reserved(o)
        <4>1. artwork'[a] = [artwork[a] EXCEPT !.stock = 0, !.reserved = 0, !.sold = TRUE]
          BY <1>2, <3>1, <3>3 DEF SellReserved
        <4> QED  BY <3>1, <3>2, <3>3, <4>1 DEF ArtworkRows
      <3>4. CASE a \notin Reserved(o)
        <4>1. artwork'[a] = artwork[a]  BY <1>2, <3>1, <3>4 DEF SellReserved
        <4> QED  BY <3>2, <3>4, <4>1
      <3> QED  BY <3>3, <3>4
    <2>5. Sold' = Sold \cup Abstract!Owned(o)  BY <2>4 DEF Sold, Abstract!Owned
    <2> QED  BY <1>2, <2>3, <2>5, ActiveUnsold DEF Abstract!Sell
  <1> QED  BY <1>1, <1>2

\* Cancelling an order, or letting it expire, is the abstract release.
LEMMA ReleaseIsFree ==
    ASSUME DatabaseOK, AllocationInv, OwnerKnown, OwnerKnown', LinesKept,
           NEW o \in Orders, NEW status \in {"RELEASED", "EXPIRED"}, ReleaseReserved(o, status)
    PROVE  Abstract!Free(o) \/ UNCHANGED <<Owner, Sold>>
  <1>1. CASE reservation[o] # "ACTIVE"
    BY <1>1, QuietStutters DEF ReleaseReserved, Quiet, CountersKept
  <1>2. CASE reservation[o] = "ACTIVE"
    <2>1. \A o2 \in Orders : Reserved(o2)' = Reserved(o2)  BY SameLinesReserve
    <2>2. reservation'[o] = status
          /\ \A o2 \in Orders \ {o} : reservation'[o2] = reservation[o2]
      BY <1>2 DEF ReleaseReserved, DatabaseOK
    <2>3. ASSUME NEW a \in Exclusive
          PROVE  Owner'[a] = IF Owner[a] = o THEN None ELSE Owner[a]
      <3>1. \A o2 \in Orders : Owner'[a] = o2 <=> o2 # o /\ Owner[a] = o2
        BY <2>1, <2>2 DEF OwnerKnown, Holding
      <3>2. Owner'[a] \in Orders \cup {None} /\ Owner[a] \in Orders \cup {None}
        BY DEF OwnerKnown
      <3> QED  BY <3>1, <3>2
    <2>4. Owner' = [a \in Exclusive |-> IF Owner[a] = o THEN None ELSE Owner[a]]
      <3>1. Owner' = [a \in Exclusive |-> Owner'[a]]  BY DEF Owner
      <3> QED  BY <2>3, <3>1
    <2>5. ASSUME NEW a \in Exclusive PROVE artwork'[a].sold = artwork[a].sold
      <3>1. a \in Artworks /\ artwork[a] \in ArtworkRows
        BY ConstantsAssumption DEF DatabaseOK
      <3>2. artwork'[a] = artwork[a] \/ artwork'[a] = [artwork[a] EXCEPT !.reserved = 0]
        BY <1>2, <3>1 DEF ReleaseReserved
      <3> QED  BY <3>1, <3>2 DEF ArtworkRows
    <2>6. Sold' = Sold  BY <2>5 DEF Sold
    <2> QED  BY <1>2, <2>4, <2>6, ActiveUnsold DEF Abstract!Free
  <1> QED  BY <1>1, <1>2

\* Creating an order takes free artworks, all that its cart asks for.
LEMMA CreateIsHold ==
    ASSUME TypeInv, AllocationInv, OwnerKnown, OwnerKnown',
           NEW w \in Workers, NEW o \in Orders, CreateOrder(w, o)
    PROVE  \/ \E artworks \in (SUBSET Exclusive) \ {{}} : Abstract!Hold(o, artworks)
           \/ UNCHANGED <<Owner, Sold>>
  <1> DEFINE u == work[w].user
             taken == cart[u].items \cap Exclusive
  <1>1. /\ order[o].status = "NONE" /\ reservation[o] = "NONE"
        /\ DOMAIN order'[o].lines = cart[u].items
        /\ \A a \in taken : artwork[a].stock > artwork[a].reserved
        /\ reservation'[o] = IF taken = {} THEN "NONE" ELSE "ACTIVE"
        /\ \A o2 \in Orders \ {o} : order'[o2] = order[o2] /\ reservation'[o2] = reservation[o2]
        /\ artwork' = [a \in Artworks |-> IF a \in taken
                                          THEN [artwork[a] EXCEPT !.reserved = 1] ELSE artwork[a]]
    BY DEF CreateOrder, Placed, Payable, Purchasable, CartLines, AllocationInv, ReservedArePlaced,
           TypeInv, DatabaseOK
  <1>2. Reserved(o)' = taken /\ \A o2 \in Orders \ {o} : Reserved(o2)' = Reserved(o2)
    BY <1>1 DEF Reserved, Items
  <1>3. taken \in SUBSET Exclusive /\ taken \subseteq Artworks  BY ConstantsAssumption
  <1> HIDE DEF taken, u
  <1>4. Sold' = Sold
    <2>1. ASSUME NEW a \in Exclusive PROVE artwork'[a].sold = artwork[a].sold
      <3>1. a \in Artworks /\ artwork[a] \in ArtworkRows
        BY ConstantsAssumption DEF TypeInv, DatabaseOK
      <3>2. artwork'[a] = artwork[a] \/ artwork'[a] = [artwork[a] EXCEPT !.reserved = 1]
        BY <1>1, <3>1
      <3> QED  BY <3>1, <3>2 DEF ArtworkRows
    <2> QED  BY <2>1 DEF Sold
  <1>5. CASE taken = {}
    BY <1>1, <1>2, <1>4, <1>5, SameHoldersSameOwners DEF Holding
  <1>6. CASE taken # {}
    <2>1. Abstract!Owned(o) = {}  BY <1>1 DEF Abstract!Owned, OwnerKnown, Holding
    <2>2. \A a \in taken : Owner[a] = None  BY <1>1, <1>3 DEF Owner
    <2>3. ASSUME NEW a \in Exclusive
          PROVE  Owner'[a] = IF a \in taken THEN o ELSE Owner[a]
      <3>1. Owner'[a] \in Orders \cup {None} /\ Owner[a] \in Orders \cup {None}
        BY DEF OwnerKnown
      <3>2. CASE a \in taken  BY <1>1, <1>2, <1>6, <3>2 DEF OwnerKnown, Holding
      <3>3. CASE a \notin taken
        <4>1. \A o2 \in Orders : Owner'[a] = o2 <=> Owner[a] = o2
          BY <1>1, <1>2, <3>3 DEF OwnerKnown, Holding
        <4> QED  BY <3>1, <3>3, <4>1
      <3> QED  BY <3>2, <3>3
    <2>4. Owner' = [a \in Exclusive |-> IF a \in taken THEN o ELSE Owner[a]]
      <3>1. Owner' = [a \in Exclusive |-> Owner'[a]]  BY DEF Owner
      <3> QED  BY <2>3, <3>1
    <2>5. Abstract!Hold(o, taken)  BY <1>4, <2>1, <2>2, <2>4 DEF Abstract!Hold
    <2> QED  BY <1>3, <1>6, <2>5
  <1> QED  BY <1>5, <1>6

\* In the beginning every artwork is free.
LEMMA InitImplements == Init => Abstract!Init
  <1> SUFFICES ASSUME Init PROVE Owner = [a \in Exclusive |-> None] /\ Sold = {}
    BY DEF Abstract!Init
  <1>1. ASSUME NEW a \in Exclusive PROVE artwork[a].stock > artwork[a].reserved /\ ~artwork[a].sold
    <2>1. a \in Artworks  BY ConstantsAssumption
    <2>2. artwork[a].stock = 1 /\ artwork[a].reserved = 0 /\ ~artwork[a].sold
      BY <2>1 DEF Init
    <2> QED  BY <2>2
  <1> QED  BY <1>1 DEF Owner, Sold

\* Every step of the checkout is a step of the allocation or a stutter.
LEMMA NextImplements ==
    TypeInv /\ AllocationInv /\ OwnerKnown /\ OwnerKnown' /\ [Next]_vars
        => [Abstract!Next]_(Abstract!vars)
  <1> SUFFICES ASSUME TypeInv, AllocationInv, OwnerKnown, OwnerKnown', [Next]_vars
               PROVE  Abstract!Next \/ UNCHANGED <<Owner, Sold>>
    BY DEF Abstract!vars
  <1>1. CASE Move
    <2>1. CASE Still  BY <2>1, StillIsQuiet, QuietStutters
    <2>2. CASE \E a \in Artworks, p \in Prices : EditPrice(a, p)
      BY <2>2, EditPriceIsQuiet, QuietStutters DEF TypeInv
    <2>3. CASE LinesKept /\ \E o \in Orders : SellReserved(o)
      BY <2>3, SellIsSell DEF TypeInv, Abstract!Next
    <2>4. CASE LinesKept /\ \E o \in Orders, status \in {"RELEASED", "EXPIRED"} :
                                ReleaseReserved(o, status)
      BY <2>4, ReleaseIsFree DEF TypeInv, Abstract!Next
    <2> QED  BY <1>1, <2>1, <2>2, <2>3, <2>4 DEF Move
  <1>2. CASE \E w \in Workers, o \in Orders : CreateOrder(w, o)
    BY <1>2, CreateIsHold DEF Abstract!Next
  <1>3. CASE UNCHANGED vars
    BY <1>3, NothingMoves, StillIsQuiet, QuietStutters DEF vars, database
  <1> QED  BY <1>1, <1>2, <1>3, EnvironmentMoves, HandlerMoves DEF Next

\* The checkout, with all its handlers, races and failures, allocates exclusive artworks
\* as the abstract specification does: all artworks of an order at once, to one order.
THEOREM CheckoutImplementsAllocation == Spec => ImplementsAllocation
  <1>1. Spec => []TypeInv  BY InitType, NextType, PTL DEF Spec
  <1>2. TypeInv /\ AllocationInv => OwnerKnown  BY OwnerDetermined DEF TypeInv
  <1>3. Spec => []OwnerKnown  BY <1>1, <1>2, AllocationHolds, PTL
  <1> QED
    BY <1>1, <1>3, AllocationHolds, InitImplements, NextImplements, PTL
       DEF Spec, ImplementsAllocation, Abstract!Spec

=============================================================================
