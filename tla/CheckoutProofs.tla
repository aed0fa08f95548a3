---------------------------- MODULE CheckoutProofs ----------------------------
(***************************************************************************)
(* What holds of the checkout for every number of buyers, artworks,        *)
(* orders, handlers and confirmations, every subset of the handlers and of *)
(* the provider's answers: the shape of the state, and that no artwork is  *)
(* ever allocated twice or counted wrong.                                  *)
(***************************************************************************)
EXTENDS Checkout, TLAPS

(***************************************************************************)
(* The vocabulary, spelled out.                                            *)
(***************************************************************************)
\* The statuses of orders and payments are the domains of their transition tables.
LEMMA Statuses ==
    /\ OrderStatuses = {"PENDING_PAYMENT", "PAYMENT_PROCESSING", "PAYMENT_FAILED",
                        "PAYMENT_REVIEW", "PAID", "PARTIALLY_REFUNDED", "CANCELED", "REFUNDED"}
    /\ PaymentStatuses = {"PENDING", "PROCESSING", "FAILED", "SUCCEEDED",
                          "PARTIALLY_REFUNDED", "CANCELED", "REFUNDED"}
  BY DEF OrderStatuses, PaymentStatuses, ORDER_TRANSITIONS, PAYMENT_TRANSITIONS

\* Every payment event aims at a status its order and its payment can have.
LEMMA Targets ==
    ASSUME NEW type \in EventTypes
    PROVE  /\ EVENT_TARGETS[type].order \in OrderStatuses
           /\ EVENT_TARGETS[type].payment \in PaymentStatuses
  BY Statuses DEF EventTypes, EVENT_TARGETS

\* Whatever the provider reports, what a checkout writes of it is a payment status.
LEMMA MappedStatus ==
    ASSUME NEW status
    PROVE  mapStripePaymentStatus(status) \in PaymentStatuses
  BY Statuses DEF mapStripePaymentStatus

\* A reconciled intent has one of the event types, unless there is nothing to reconcile.
LEMMA ReconciledType ==
    ASSUME NEW status, NEW localStatus, eventTypeForIntent(status, localStatus) # "none"
    PROVE  eventTypeForIntent(status, localStatus) \in EventTypes
  BY DEF eventTypeForIntent, EventTypes

\* Open orders have a status of the table; an order not yet created has none.
LEMMA OpenStatuses == OPEN_ORDER_STATUSES \subseteq OrderStatuses /\ "NONE" \notin OrderStatuses
  BY Statuses DEF OPEN_ORDER_STATUSES

\* The content of an empty cart is a cart content.
LEMMA EmptySnapshotType == EmptySnapshot \in Snapshots
  <1>1. EmptySnapshot \in [{} -> Prices]  BY DEF EmptySnapshot
  <1>2. {} \in SUBSET Artworks  OBVIOUS
  <1> QED  BY <1>1, <1>2 DEF Snapshots

\* A handler that has not begun has a well-formed record.
LEMMA IdleType == Idle \in WorkRecords
  <1>1. NoKey \in IdempotencyKeys  BY EmptySnapshotType DEF NoKey, IdempotencyKeys
  <1>2. "PENDING_PAYMENT" \in OrderStatuses /\ "PENDING" \in PaymentStatuses  BY Statuses
  <1> QED  BY <1>1, <1>2, EmptySnapshotType DEF Idle, WorkRecords, Steps, Jobs

(***************************************************************************)
(* Type correctness.  TypeOK alone is not inductive: a handler reads the   *)
(* rows of the order it works on, so it must work on one that exists; an   *)
(* order that exists has a buyer, and never stops existing.                *)
(***************************************************************************)
ArtworkRows == [stock : {0, 1}, reserved : {0, 1}, sold : BOOLEAN, price : Prices]
CartRows    == [version : Nat, items : SUBSET Artworks]

DatabaseOK ==
    /\ cart \in [Users -> CartRows]
    /\ artwork \in [Artworks -> ArtworkRows]
    /\ customer \in [Users -> Nat]
    /\ order \in [Orders -> OrderRows]
    /\ reservation \in [Orders -> ReservationStatuses]
    /\ payment \in [Orders -> PaymentRows]
    /\ fulfilled \in SUBSET Orders
    /\ processed \in SUBSET EventIds
    /\ \A o \in Orders : order[o].status # "NONE" => order[o].user \in Users
    /\ \A o \in Orders : payment[o].linked => order[o].status # "NONE"

ProviderOK == intent \in [Orders -> Intents] /\ sent \in SUBSET EventIds

\* The steps at which a handler works on an order.
OrderSteps == {"intent", "park", "link", "reconcile", "settle", "cart", "retrieve", "reload",
               "reopen", "cancelStripe", "cancelLocal", "protect"}

\* The handler will still look at its buyer's cart.
ForBuyer(record) ==
    \/ record.pc \in {"renew", "reread", "list", "create", "outdated", "cart"}
    \/ record.job = "checkout" /\ record.pc \in {"cancel", "cancelStripe", "cancelLocal"}

\* A handler's record makes sense when these orders exist.
Sound(record, existing) ==
    /\ record \in WorkRecords
    /\ record.pc \in OrderSteps => record.order \in existing
    /\ ForBuyer(record) => record.user \in Users
    /\ \A old \in record.todo : old.order \in existing

WorkOK ==
    /\ work \in [Workers -> WorkRecords]
    /\ \A w \in Workers : Sound(work[w], Placed)

TypeInv == DatabaseOK /\ ProviderOK /\ WorkOK

\* The inductive invariant contains the type invariant.
LEMMA TypeInvIsTypeOK == TypeInv => TypeOK
  BY DEF TypeInv, TypeOK, DatabaseOK, CartRows, ArtworkRows, ProviderOK, WorkOK

\* A handler that moves to a sound record leaves the handlers sound.
LEMMA BecomeType ==
    ASSUME WorkOK, Placed \subseteq Placed',
           NEW w \in Workers, NEW record, Become(w, record), Sound(record, Placed')
    PROVE  WorkOK'
  BY DEF WorkOK, Become, Sound

\* A step that is nobody's leaves the handlers sound: orders never stop existing.
LEMMA WorkUnchangedType ==
    ASSUME WorkOK, Placed \subseteq Placed', UNCHANGED work
    PROVE  WorkOK'
  BY DEF WorkOK, Sound

\* A handler that has not begun relies on no order.
LEMMA IdleSound == ASSUME NEW existing PROVE Sound(Idle, existing)
  BY IdleType DEF Sound, Idle, OrderSteps, ForBuyer

\* A handler that ends leaves the handlers sound.
LEMMA FinishType ==
    ASSUME WorkOK, Placed \subseteq Placed', NEW w \in Workers, Finish(w)
    PROVE  WorkOK'
  BY BecomeType, IdleSound DEF Finish

\* Only a write to the orders can create one.
LEMMA PlacedUnchanged == ASSUME UNCHANGED order PROVE Placed' = Placed
  BY DEF Placed

\* A cart of the database, priced, is a cart content.
LEMMA CartLinesType ==
    ASSUME DatabaseOK, NEW u \in Users
    PROVE  CartLines(u) \in Snapshots
  <1>1. cart[u].items \in SUBSET Artworks  BY DEF DatabaseOK, CartRows
  <1>2. CartLines(u) \in [cart[u].items -> Prices]
    BY <1>1 DEF CartLines, DatabaseOK, ArtworkRows
  <1> QED  BY <1>1, <1>2 DEF Snapshots

\* The moves of the inventory.
LEMMA ArtworkRowTypes ==
    ASSUME NEW row \in ArtworkRows
    PROVE  /\ [row EXCEPT !.stock = 0, !.reserved = 0, !.sold = TRUE] \in ArtworkRows
           /\ [row EXCEPT !.reserved = 0] \in ArtworkRows
           /\ [row EXCEPT !.reserved = 1] \in ArtworkRows
           /\ \A p \in Prices : [row EXCEPT !.price = p] \in ArtworkRows
  BY DEF ArtworkRows

\* Selling what an order holds keeps the rows well-formed.
LEMMA SellReservedType ==
    ASSUME DatabaseOK, NEW o \in Orders, SellReserved(o)
    PROVE  artwork' \in [Artworks -> ArtworkRows] /\ reservation' \in [Orders -> ReservationStatuses]
  <1>1. artwork \in [Artworks -> ArtworkRows]  BY DEF DatabaseOK
  <1>2. artwork' \in [Artworks -> ArtworkRows]  BY <1>1, ArtworkRowTypes DEF SellReserved
  <1> QED  BY <1>2 DEF DatabaseOK, SellReserved, ReservationStatuses

\* So does giving it back, as released or as expired.
LEMMA ReleaseReservedType ==
    ASSUME DatabaseOK, NEW o \in Orders, NEW status \in {"RELEASED", "EXPIRED"},
           ReleaseReserved(o, status)
    PROVE  artwork' \in [Artworks -> ArtworkRows] /\ reservation' \in [Orders -> ReservationStatuses]
  <1>1. artwork \in [Artworks -> ArtworkRows]  BY DEF DatabaseOK
  <1>2. artwork' \in [Artworks -> ArtworkRows]  BY <1>1, ArtworkRowTypes DEF ReleaseReserved
  <1> QED  BY <1>2 DEF DatabaseOK, ReleaseReserved, ReservationStatuses

\* A cart that moves to its next version keeps its shape.
LEMMA BumpIfType ==
    ASSUME DatabaseOK, NEW u, NEW condition, BumpIf(u, condition)
    PROVE  cart' \in [Users -> CartRows]
  <1>1. CASE u \in Users  BY <1>1 DEF DatabaseOK, BumpIf, CartRows
  <1>2. CASE u \notin Users
    <2>1. [cart EXCEPT ![u].version = @ + 1] = cart  BY <1>2 DEF DatabaseOK
    <2> QED  BY <2>1 DEF DatabaseOK, BumpIf, CartRows
  <1> QED  BY <1>1, <1>2

\* So does a cart that loses what its buyer has just bought.
LEMMA RemovePurchasedType ==
    ASSUME DatabaseOK, NEW o \in Orders, RemovePurchased(o)
    PROVE  cart' \in [Users -> CartRows]
  <1> DEFINE u == order[o].user
             kept == IF cart[u].version = order[o].version THEN {} ELSE cart[u].items \ Items(o)
  <1>1. cart' = IF kept = cart[u].items THEN cart
                ELSE [cart EXCEPT ![u] = [version |-> @.version + 1, items |-> kept]]
    BY DEF RemovePurchased
  <1>2. CASE u \in Users
    <2>1. kept \subseteq Artworks /\ cart[u].version \in Nat
      BY <1>2 DEF DatabaseOK, CartRows
    <2> HIDE DEF kept, u
    <2> QED  BY <1>1, <1>2, <2>1 DEF DatabaseOK, CartRows
  <1>3. CASE u \notin Users
    <2> HIDE DEF kept, u
    <2>1. [cart EXCEPT ![u] = [version |-> @.version + 1, items |-> kept]] = cart
      BY <1>3 DEF DatabaseOK
    <2> QED  BY <1>1, <2>1 DEF DatabaseOK, CartRows
  <1> QED  BY <1>2, <1>3

\* A row that takes a new status keeps its shape, and its order keeps existing.
LEMMA OrderStatusType ==
    ASSUME DatabaseOK, NEW o \in Placed, NEW status,
           status \in OrderStatuses \/ status = order[o].status,
           order' = [order EXCEPT ![o].status = status]
    PROVE  /\ order' \in [Orders -> OrderRows]
           /\ Placed' = Placed
           /\ \A o2 \in Orders : order'[o2].status # "NONE" => order'[o2].user \in Users
           /\ \A o2 \in Orders : payment[o2].linked => order'[o2].status # "NONE"
  <1>1. o \in Orders /\ order[o].status # "NONE" /\ status # "NONE"
    BY OpenStatuses DEF Placed
  <1> QED  BY <1>1, OpenStatuses DEF DatabaseOK, OrderRows, Placed

\* A payment that takes a new status keeps its shape.
LEMMA PaymentStatusType ==
    ASSUME DatabaseOK, NEW o \in Orders, NEW status \in PaymentStatuses,
           payment' = [payment EXCEPT ![o].status = status]
    PROVE  payment' \in [Orders -> PaymentRows]
  BY DEF DatabaseOK, PaymentRows

\* flagPaymentForReview keeps the rows well-formed.
LEMMA FlagForReviewType ==
    ASSUME DatabaseOK, NEW e \in EventIds, e.order \in Placed, FlagForReview(e)
    PROVE  DatabaseOK' /\ Placed \subseteq Placed'
  <1> DEFINE status == IF canTransitionOrder(order[e.order].status, "PAYMENT_REVIEW")
                       THEN "PAYMENT_REVIEW" ELSE order[e.order].status
  <1>1. e.order \in Orders  BY DEF EventIds
  <1>2. status \in OrderStatuses \/ status = order[e.order].status  BY Statuses
  <1>3. order' = [order EXCEPT ![e.order].status = status]  BY <1>1 DEF FlagForReview, DatabaseOK
  <1>4. /\ order' \in [Orders -> OrderRows]
        /\ Placed' = Placed
        /\ \A o2 \in Orders : order'[o2].status # "NONE" => order'[o2].user \in Users
        /\ \A o2 \in Orders : payment[o2].linked => order'[o2].status # "NONE"
    <2> HIDE DEF status
    <2> QED  BY <1>2, <1>3, OrderStatusType
  <1>5. processed' \in SUBSET EventIds  BY DEF FlagForReview, DatabaseOK
  <1> QED  BY <1>4, <1>5 DEF FlagForReview, DatabaseOK

\* applyPaymentEvent keeps the rows well-formed, whichever event it applies.
LEMMA ApplyEventType ==
    ASSUME DatabaseOK, NEW e \in EventIds, e.order \in Placed, ApplyEvent(e)
    PROVE  DatabaseOK' /\ Placed \subseteq Placed'
  <1> DEFINE o == e.order
             target == EVENT_TARGETS[e.type]
             nextPayment == IF canTransitionPayment(payment[o].status, target.payment)
                            THEN target.payment ELSE payment[o].status
             nextOrder == IF canTransitionOrder(order[o].status, target.order)
                          THEN target.order ELSE order[o].status
  <1>1. o \in Orders /\ e.type \in EventTypes /\ e.charge \in Nat  BY DEF EventIds
  <1>2. nextPayment \in PaymentStatuses
    BY <1>1, Targets DEF DatabaseOK, PaymentRows
  <1>3. nextOrder \in OrderStatuses \/ nextOrder = order[o].status  BY <1>1, Targets
  <1>4. /\ \/ SellReserved(o) /\ RemovePurchased(o)
           \/ ReleaseReserved(o, "RELEASED") /\ UNCHANGED cart
           \/ UNCHANGED <<artwork, reservation, cart>>
        /\ payment' = [payment EXCEPT ![o].status = nextPayment,
                                      ![o].charge = IF e.charge = 0 THEN @ ELSE e.charge]
        /\ order' = [order EXCEPT ![o].status = nextOrder]
        /\ fulfilled' \subseteq fulfilled \cup {o}
        /\ processed' = processed \cup {e}
        /\ UNCHANGED customer
    BY DEF ApplyEvent
  <1>o. o \in Placed  OBVIOUS
  <1> HIDE DEF o, nextPayment, nextOrder
  <1>5. /\ cart' \in [Users -> CartRows]
        /\ artwork' \in [Artworks -> ArtworkRows]
        /\ reservation' \in [Orders -> ReservationStatuses]
    <2>1. CASE SellReserved(o) /\ RemovePurchased(o)
      BY <1>1, <2>1, SellReservedType, RemovePurchasedType
    <2>2. CASE ReleaseReserved(o, "RELEASED") /\ UNCHANGED cart
      BY <1>1, <2>2, ReleaseReservedType DEF DatabaseOK
    <2>3. CASE UNCHANGED <<artwork, reservation, cart>>
      BY <2>3 DEF DatabaseOK
    <2> QED  BY <1>4, <2>1, <2>2, <2>3
  <1>6. /\ order' \in [Orders -> OrderRows]
        /\ Placed' = Placed
        /\ \A o2 \in Orders : order'[o2].status # "NONE" => order'[o2].user \in Users
        /\ \A o2 \in Orders : payment[o2].linked => order'[o2].status # "NONE"
    BY <1>o, <1>3, <1>4, OrderStatusType
  <1>7. /\ payment' \in [Orders -> PaymentRows]
        /\ \A o2 \in Orders : payment'[o2].linked = payment[o2].linked
    BY <1>1, <1>2, <1>4 DEF DatabaseOK, PaymentRows
  <1>8. fulfilled' \in SUBSET Orders /\ processed' \in SUBSET EventIds
    BY <1>1, <1>4 DEF DatabaseOK
  <1> QED  BY <1>4, <1>5, <1>6, <1>7, <1>8 DEF DatabaseOK

\* Whatever an event does, the rows keep their shape and the orders keep existing.
LEMMA ProcessEventType ==
    ASSUME DatabaseOK, NEW e, e \notin processed => e \in EventIds, ProcessEvent(e)
    PROVE  DatabaseOK' /\ Placed \subseteq Placed'
  <1>1. CASE UNCHANGED database
    BY <1>1, PlacedUnchanged DEF database, DatabaseOK
  <1>2. CASE /\ e \notin processed /\ payment[e.order].linked
             /\ FlagForReview(e) \/ ApplyEvent(e)
    <2>1. e \in EventIds /\ e.order \in Orders  BY <1>2 DEF EventIds
    <2>2. e.order \in Placed  BY <1>2, <2>1 DEF DatabaseOK, Placed
    <2> QED  BY <1>2, <2>1, <2>2, FlagForReviewType, ApplyEventType
  <1> QED  BY <1>1, <1>2 DEF ProcessEvent

(***************************************************************************)
(* Every step preserves TypeInv: the environment first.                    *)
(***************************************************************************)
\* What the provider announces is an event of the ledger's shape.
LEMMA AnnounceType ==
    ASSUME ProviderOK, NEW o \in Orders, NEW type \in EventTypes, NEW charge \in Nat,
           Announce(o, type, charge)
    PROVE  ProviderOK'
  <1>1. StripeEvent(o, type, charge) \in EventIds  BY DEF StripeEvent, EventIds
  <1>2. sent' \in SUBSET EventIds  BY <1>1 DEF Announce, ProviderOK
  <1>3. intent' \in [Orders -> Intents]
    BY DEF Announce, ProviderOK, Intents, IntentStatuses, EventTypes
  <1> QED  BY <1>2, <1>3 DEF ProviderOK

\* Handing out a client secret keeps the intents well-formed.
LEMMA SecretType ==
    ASSUME ProviderOK, NEW o \in Orders, NEW secret \in BOOLEAN,
           intent' = [intent EXCEPT ![o].secret = secret], UNCHANGED sent
    PROVE  ProviderOK'
  BY DEF ProviderOK, Intents

\* Cart edits, price edits, passing deadlines and new provider customers.
LEMMA CatalogueType ==
    ASSUME TypeInv,
           \/ \E u \in Users : ClearCart(u) \/ ReplaceCustomer(u)
           \/ \E u \in Users, a \in Artworks : SetCartItem(u, a) \/ RemoveCartItem(u, a)
           \/ \E a \in Artworks, p \in Prices : EditPrice(a, p)
           \/ \E o \in Orders : Expire(o)
    PROVE  TypeInv'
  <1> USE DEF TypeInv
  <1>1. ASSUME NEW u \in Users, ClearCart(u)  PROVE TypeInv'
    <2>1. DatabaseOK'  BY <1>1 DEF ClearCart, DatabaseOK, CartRows
    <2>2. Placed' = Placed  BY <1>1, PlacedUnchanged DEF ClearCart
    <2>3. WorkOK'  BY <1>1, <2>2, WorkUnchangedType DEF ClearCart
    <2> QED  BY <1>1, <2>1, <2>3 DEF ClearCart, ProviderOK, provider
  <1>2. ASSUME NEW u \in Users, ReplaceCustomer(u)  PROVE TypeInv'
    <2>1. DatabaseOK'  BY <1>2 DEF ReplaceCustomer, DatabaseOK
    <2>2. Placed' = Placed  BY <1>2, PlacedUnchanged DEF ReplaceCustomer
    <2>3. WorkOK'  BY <1>2, <2>2, WorkUnchangedType DEF ReplaceCustomer
    <2> QED  BY <1>2, <2>1, <2>3 DEF ReplaceCustomer, ProviderOK, provider
  <1>3. ASSUME NEW u \in Users, NEW a \in Artworks, SetCartItem(u, a)  PROVE TypeInv'
    <2>1. DatabaseOK'  BY <1>3 DEF SetCartItem, DatabaseOK, CartRows
    <2>2. Placed' = Placed  BY <1>3, PlacedUnchanged DEF SetCartItem
    <2>3. WorkOK'  BY <1>3, <2>2, WorkUnchangedType DEF SetCartItem
    <2> QED  BY <1>3, <2>1, <2>3 DEF SetCartItem, ProviderOK, provider
  <1>4. ASSUME NEW u \in Users, NEW a \in Artworks, RemoveCartItem(u, a)  PROVE TypeInv'
    <2>1. DatabaseOK'  BY <1>4 DEF RemoveCartItem, DatabaseOK, CartRows
    <2>2. Placed' = Placed  BY <1>4, PlacedUnchanged DEF RemoveCartItem
    <2>3. WorkOK'  BY <1>4, <2>2, WorkUnchangedType DEF RemoveCartItem
    <2> QED  BY <1>4, <2>1, <2>3 DEF RemoveCartItem, ProviderOK, provider
  <1>5. ASSUME NEW a \in Artworks, NEW p \in Prices, EditPrice(a, p)  PROVE TypeInv'
    <2>1. artwork' \in [Artworks -> ArtworkRows]
      BY <1>5, ArtworkRowTypes DEF EditPrice, DatabaseOK
    <2>2. DatabaseOK'  BY <1>5, <2>1 DEF EditPrice, DatabaseOK
    <2>3. Placed' = Placed  BY <1>5, PlacedUnchanged DEF EditPrice
    <2>4. WorkOK'  BY <1>5, <2>3, WorkUnchangedType DEF EditPrice
    <2> QED  BY <1>5, <2>2, <2>4 DEF EditPrice, ProviderOK, provider
  <1>6. ASSUME NEW o \in Orders, Expire(o)  PROVE TypeInv'
    <2>1. order[o] \in OrderRows  BY DEF DatabaseOK
    <2>2. [order[o] EXCEPT !.expired = TRUE] \in OrderRows  BY <2>1 DEF OrderRows
    <2>3. order' = [order EXCEPT ![o] = [order[o] EXCEPT !.expired = TRUE]]
      BY <1>6 DEF Expire
    <2>4. order' \in [Orders -> OrderRows]  BY <2>2, <2>3 DEF DatabaseOK
    <2>5. DatabaseOK'  BY <1>6, <2>4 DEF Expire, DatabaseOK
    <2>6. \A o2 \in Orders : order'[o2].status = order[o2].status
      BY <2>1, <2>3 DEF DatabaseOK, OrderRows
    <2>7. Placed \subseteq Placed'  BY <2>6 DEF Placed
    <2>8. WorkOK'  BY <1>6, <2>7, WorkUnchangedType DEF Expire
    <2> QED  BY <1>6, <2>5, <2>8 DEF Expire, ProviderOK, provider
  <1> QED  BY <1>1, <1>2, <1>3, <1>4, <1>5, <1>6

\* Confirmations, bank answers and cancellations at the provider.
LEMMA ProviderType ==
    ASSUME TypeInv, NEW o \in Orders, Confirm(o) \/ BankAnswers(o) \/ ProviderCancels(o)
    PROVE  TypeInv'
  <1>1. intent[o].charge \in Nat /\ intent[o].charge + 1 \in Nat
    BY DEF TypeInv, ProviderOK, Intents
  <1>2. ProviderOK'
    <2>1. CASE Confirm(o)
      <3>1. CASE \E type \in Outcomes \ {"requires_action", "canceled"} :
                    Announce(o, type, intent[o].charge + 1)
        BY <1>1, <3>1, AnnounceType, ConstantsAssumption DEF TypeInv, EventTypes
      <3>2. CASE /\ intent' = [intent EXCEPT ![o].status = "requires_action"]
                 /\ UNCHANGED sent
        BY <3>2 DEF TypeInv, ProviderOK, Intents, IntentStatuses
      <3> QED  BY <2>1, <3>1, <3>2 DEF Confirm
    <2>2. CASE BankAnswers(o)
      BY <1>1, <2>2, AnnounceType DEF BankAnswers, TypeInv, EventTypes
    <2>3. CASE ProviderCancels(o)
      BY <1>1, <2>3, AnnounceType DEF ProviderCancels, TypeInv, EventTypes
    <2> QED  BY <2>1, <2>2, <2>3
  <1>3. UNCHANGED <<database, work>>  BY DEF Confirm, BankAnswers, ProviderCancels
  <1>4. DatabaseOK' /\ Placed' = Placed
    BY <1>3, PlacedUnchanged DEF database, TypeInv, DatabaseOK
  <1>5. WorkOK'  BY <1>3, <1>4, WorkUnchangedType DEF TypeInv
  <1> QED  BY <1>2, <1>4, <1>5 DEF TypeInv

\* A delivery of any event the provider has sent.
LEMMA WebhookType ==
    ASSUME TypeInv, NEW e, Webhook(e)
    PROVE  TypeInv'
  <1>1. e \in EventIds  BY DEF Webhook, TypeInv, ProviderOK
  <1>2. DatabaseOK' /\ Placed \subseteq Placed'
    BY <1>1, ProcessEventType DEF Webhook, TypeInv
  <1>3. WorkOK'  BY <1>2, WorkUnchangedType DEF Webhook, TypeInv
  <1> QED  BY <1>2, <1>3 DEF Webhook, TypeInv, ProviderOK, provider

(***************************************************************************)
(* Handlers.  Most steps only read: they change the handler's record.      *)
(***************************************************************************)
\* A step that only moves a handler to a sound record.
LEMMA ReadingStep ==
    ASSUME TypeInv, UNCHANGED <<database, provider>>,
           NEW w \in Workers, NEW record, Become(w, record), Sound(record, Placed)
    PROVE  TypeInv'
  <1>1. Placed' = Placed  BY PlacedUnchanged DEF database
  <1>2. WorkOK'  BY <1>1, BecomeType DEF TypeInv
  <1> QED  BY <1>2 DEF TypeInv, DatabaseOK, ProviderOK, database, provider

\* Reading a payment row into a record keeps the record well-formed.
LEMMA ReadingType ==
    ASSUME DatabaseOK, NEW record \in WorkRecords, NEW o \in Orders
    PROVE  /\ Reading(record, o) \in WorkRecords
           /\ Reading(record, o).order = o
           /\ Reading(record, o).todo = record.todo
  <1>1. payment[o].status \in PaymentStatuses /\ payment[o].linked \in BOOLEAN
    BY DEF DatabaseOK, PaymentRows
  <1> QED  BY <1>1 DEF Reading, WorkRecords

\* The rows of a query name the orders of the query.
LEMMA FetchedType ==
    ASSUME DatabaseOK, NEW S \in SUBSET Orders
    PROVE  /\ Fetched(S) \in SUBSET [order : Orders, linked : BOOLEAN]
           /\ \A old \in Fetched(S) : old.order \in S
  BY DEF Fetched, DatabaseOK, PaymentRows

\* Open orders have been created.
LEMMA OpenArePlaced == OpenOrders \subseteq Placed /\ Placed \subseteq Orders
  BY OpenStatuses DEF OpenOrders, Placed

\* The row of an order that has been created, field by field.
LEMMA PlacedRow ==
    ASSUME DatabaseOK, NEW o \in Placed
    PROVE  /\ o \in Orders
           /\ order[o].status \in OrderStatuses
           /\ order[o].user \in Users
           /\ order[o].version \in Nat
           /\ order[o].lines \in Snapshots
           /\ order[o].key \in IdempotencyKeys
  BY DEF Placed, DatabaseOK, OrderRows

\* A handler that dies, or a sweep that goes on with its next order.
LEMMA FailType ==
    ASSUME TypeInv, NEW w \in Workers, Fail(w)
    PROVE  TypeInv'
  <1>1. CASE Finish(w)
    BY <1>1, ReadingStep, IdleSound DEF Finish, Fail
  <1>2. CASE work[w].job = "expiry" /\ Become(w, [work[w] EXCEPT !.pc = "cancel"])
    <2> DEFINE record == [work[w] EXCEPT !.pc = "cancel"]
    <2>1. Sound(work[w], Placed) /\ work[w] \in WorkRecords  BY DEF TypeInv, WorkOK, Sound
    <2>2. record \in WorkRecords  BY <2>1 DEF WorkRecords, Steps
    <2>3. /\ record.pc = "cancel" /\ record.job = "expiry" /\ record.todo = work[w].todo
      BY <1>2, <2>1 DEF WorkRecords
    <2> HIDE DEF record
    <2>4. Sound(record, Placed)
      BY <2>1, <2>2, <2>3 DEF Sound, OrderSteps, ForBuyer
    <2> QED  BY <1>2, <2>4, ReadingStep DEF Fail, record
  <1> QED  BY <1>1, <1>2 DEF Fail

\* A buyer submits a cart.
LEMMA BeginCheckoutType ==
    ASSUME TypeInv, NEW w \in Workers, NEW u \in Users, NEW tab \in Tabs, BeginCheckout(w, u, tab)
    PROVE  TypeInv'
  <1>1. PICK lines \in [cart[u].items -> Prices] :
            /\ Become(w, [Idle EXCEPT
                    !.pc = IF lines = CartLines(u) THEN "renew" ELSE "outdated",
                    !.job = "checkout", !.user = u, !.key = ClientKey(tab, u, lines),
                    !.version = cart[u].version, !.lines = lines])
            /\ UNCHANGED <<database, provider>>
    BY DEF BeginCheckout
  <1>2. cart[u].items \in SUBSET Artworks /\ cart[u].version \in Nat
    BY DEF TypeInv, DatabaseOK, CartRows
  <1>3. lines \in Snapshots  BY <1>2 DEF Snapshots
  <1>4. ClientKey(tab, u, lines) \in IdempotencyKeys
    BY <1>2, <1>3 DEF ClientKey, IdempotencyKeys
  <1> DEFINE record == [Idle EXCEPT
                    !.pc = IF lines = CartLines(u) THEN "renew" ELSE "outdated",
                    !.job = "checkout", !.user = u, !.key = ClientKey(tab, u, lines),
                    !.version = cart[u].version, !.lines = lines]
  <1>5. record \in WorkRecords
    BY <1>2, <1>3, <1>4, IdleType DEF WorkRecords, Steps, Jobs
  <1>6. Sound(record, Placed)
    BY <1>5, IdleType DEF Sound, OrderSteps, ForBuyer, WorkRecords, Idle
  <1> QED  BY <1>1, <1>6, ReadingStep

\* A browser repeats an old request.
LEMMA RepeatCheckoutType ==
    ASSUME TypeInv, NEW w \in Workers, NEW o \in Orders, RepeatCheckout(w, o)
    PROVE  TypeInv'
  <1> DEFINE record == [Idle EXCEPT
            !.pc = "outdated", !.job = "checkout", !.user = order[o].user, !.key = order[o].key,
            !.version = order[o].version, !.lines = order[o].lines]
  <1>1. o \in Placed  BY DEF RepeatCheckout
  <1>2. record \in WorkRecords
    BY <1>1, PlacedRow, IdleType DEF TypeInv, WorkRecords, Steps, Jobs
  <1>3. record.user \in Users  BY <1>1, PlacedRow, IdleType DEF TypeInv, WorkRecords
  <1>4. Sound(record, Placed)
    BY <1>2, <1>3, IdleType DEF Sound, OrderSteps, ForBuyer, WorkRecords, Idle
  <1> QED  BY <1>4, ReadingStep DEF RepeatCheckout

\* A buyer resumes an open order.
LEMMA BeginResumeType ==
    ASSUME TypeInv, NEW w \in Workers, NEW o \in Orders, BeginResume(w, o)
    PROVE  TypeInv'
  <1> DEFINE read == Reading(Idle, o)
             c == [read EXCEPT !.job = "resume", !.user = order[o].user,
                                !.status = order[o].status,
                                !.customer = customer[order[o].user]]
             expired == [c EXCEPT !.pc = "cancel", !.reason = "EXPIRED", !.todo = Fetched({o})]
             live == [c EXCEPT !.pc = "cart"]
  <1>1. o \in Placed  BY OpenArePlaced DEF BeginResume
  <1>2. c \in WorkRecords /\ c.order = o /\ c.todo = {} /\ c.job = "resume" /\ c.user \in Users
    <2>1. read \in WorkRecords /\ read.order = o /\ read.todo = Idle.todo
      BY ReadingType, IdleType DEF TypeInv
    <2>2. Idle.todo = {}  BY DEF Idle
    <2>3. /\ order[o].user \in Users /\ order[o].status \in OrderStatuses
          /\ customer[order[o].user] \in Nat
      BY <1>1, PlacedRow DEF TypeInv, DatabaseOK
    <2> HIDE DEF read
    <2> QED  BY <2>1, <2>2, <2>3 DEF WorkRecords, Jobs
  <1> HIDE DEF c
  <1>3. Fetched({o}) \in SUBSET [order : Orders, linked : BOOLEAN]
        /\ \A old \in Fetched({o}) : old.order = o
    BY FetchedType DEF TypeInv
  <1>4. Sound(expired, Placed)
    BY <1>1, <1>2, <1>3 DEF Sound, OrderSteps, ForBuyer, WorkRecords, Steps
  <1>5. Sound(live, Placed)
    BY <1>1, <1>2 DEF Sound, OrderSteps, ForBuyer, WorkRecords, Steps
  <1>6. Become(w, expired) \/ Become(w, live)  BY DEF BeginResume, c
  <1> HIDE DEF expired, live
  <1> QED  BY <1>4, <1>5, <1>6, ReadingStep DEF BeginResume

\* The expiration sweep begins.
LEMMA BeginExpiryType ==
    ASSUME TypeInv, NEW w \in Workers, BeginExpiry(w)
    PROVE  TypeInv'
  <1> DEFINE stale == {o \in OpenOrders : order[o].expired}
             record == [Idle EXCEPT !.pc = "cancel", !.job = "expiry", !.reason = "EXPIRED",
                                    !.todo = Fetched(stale)]
  <1>1. stale \subseteq Placed /\ stale \in SUBSET Orders  BY OpenArePlaced
  <1>2. Become(w, record) /\ UNCHANGED <<database, provider>>  BY DEF BeginExpiry
  <1> HIDE DEF stale
  <1>3. /\ Fetched(stale) \in SUBSET [order : Orders, linked : BOOLEAN]
        /\ \A old \in Fetched(stale) : old.order \in stale
    BY <1>1, FetchedType DEF TypeInv
  <1>4. Sound(record, Placed)
    BY <1>1, <1>3, IdleType DEF Sound, OrderSteps, ForBuyer, WorkRecords, Steps, Jobs
  <1> QED  BY <1>2, <1>4, ReadingStep

\* The reconciliation sweep takes an order.
LEMMA BeginMonitorType ==
    ASSUME TypeInv, NEW w \in Workers, NEW o \in Orders, BeginMonitor(w, o)
    PROVE  TypeInv'
  <1> DEFINE read == Reading(Idle, o)
             record == [read EXCEPT !.pc = "retrieve", !.job = "monitor"]
  <1>1. o \in Placed  BY OpenArePlaced DEF BeginMonitor
  <1>2. record \in WorkRecords /\ record.order = o /\ record.todo = {} /\ record.pc = "retrieve"
    <2>1. read \in WorkRecords /\ read.order = o /\ read.todo = Idle.todo
      BY ReadingType, IdleType DEF TypeInv
    <2>2. Idle.todo = {}  BY DEF Idle
    <2> HIDE DEF read
    <2> QED  BY <2>1, <2>2 DEF WorkRecords, Steps, Jobs
  <1>3. Sound(record, Placed)  BY <1>1, <1>2 DEF Sound, ForBuyer
  <1> QED  BY <1>3, ReadingStep DEF BeginMonitor

\* Every way in which a handler begins.
LEMMA HandlerStartType ==
    ASSUME TypeInv, NEW w \in Workers, HandlerStart(w)
    PROVE  TypeInv'
  BY BeginCheckoutType, RepeatCheckoutType, BeginResumeType, BeginExpiryType, BeginMonitorType
     DEF HandlerStart

\* The handler's record before a step, and what a step usually keeps of it.
LEMMA RecordType ==
    ASSUME TypeInv, NEW w \in Workers
    PROVE  Sound(work[w], Placed) /\ work[w] \in WorkRecords
  BY DEF TypeInv, WorkOK, Sound

\* The checkout moves a canceled cart version to a fresh one.
LEMMA RenewCanceledCheckoutSnapshotType ==
    ASSUME TypeInv, NEW w \in Workers, RenewCanceledCheckoutSnapshot(w)
    PROVE  TypeInv'
  <1> DEFINE r == work[w]
             renewed == [r EXCEPT !.pc = "reread", !.version = @ + 1,
                                  !.key.scope = r.version + 1]
             kept == [r EXCEPT !.pc = "list"]
  <1>1. Sound(r, Placed) /\ r \in WorkRecords /\ r.user \in Users
    BY RecordType DEF RenewCanceledCheckoutSnapshot, At, Sound, ForBuyer
  <1>2. Placed' = Placed  BY PlacedUnchanged DEF RenewCanceledCheckoutSnapshot
  <1>3. Become(w, renewed) \/ Become(w, kept)  BY DEF RenewCanceledCheckoutSnapshot
  <1>4. DatabaseOK' /\ ProviderOK'
    <2>1. cart' \in [Users -> CartRows]
      BY BumpIfType DEF RenewCanceledCheckoutSnapshot, TypeInv
    <2> QED  BY <2>1 DEF RenewCanceledCheckoutSnapshot, TypeInv, DatabaseOK, ProviderOK, provider
  <1> HIDE DEF r
  <1>5. Sound(kept, Placed')
    BY <1>1, <1>2 DEF Sound, WorkRecords, Steps, OrderSteps, ForBuyer
  <1>6. renewed \in WorkRecords
    <2>1. r.version + 1 \in Nat /\ r.key \in IdempotencyKeys  BY <1>1 DEF WorkRecords
    <2>2. [r.key EXCEPT !.scope = r.version + 1] \in IdempotencyKeys
      BY <2>1 DEF IdempotencyKeys
    <2> QED  BY <1>1, <2>1, <2>2 DEF WorkRecords, Steps
  <1>7. Sound(renewed, Placed')
    BY <1>1, <1>2, <1>6 DEF Sound, WorkRecords, OrderSteps, ForBuyer
  <1>8. WorkOK'
    <2> HIDE DEF renewed, kept
    <2> QED  BY <1>2, <1>3, <1>5, <1>7, BecomeType DEF TypeInv
  <1> QED  BY <1>4, <1>8 DEF TypeInv

\* The checkout reads the renewed cart again.
LEMMA RereadCartType ==
    ASSUME TypeInv, NEW w \in Workers, RereadCart(w)
    PROVE  TypeInv'
  <1> DEFINE r == work[w]
             u == r.user
             record == [r EXCEPT !.pc = IF cart[u].version = r.version THEN "list" ELSE "outdated",
                                 !.lines = CartLines(u)]
  <1>1. Sound(r, Placed) /\ r \in WorkRecords /\ u \in Users
    BY RecordType DEF RereadCart, At, Sound, ForBuyer
  <1>2. Become(w, record) /\ UNCHANGED <<database, provider>>  BY DEF RereadCart
  <1>3. CartLines(u) \in Snapshots  BY <1>1, CartLinesType DEF TypeInv
  <1>4. Sound(record, Placed)
    <2> HIDE DEF r
    <2> QED  BY <1>1, <1>3 DEF Sound, WorkRecords, Steps, OrderSteps, ForBuyer
  <1> QED  BY <1>2, <1>4, ReadingStep

\* The checkout lists the orders it will cancel.
LEMMA ListSupersededType ==
    ASSUME TypeInv, NEW w \in Workers, ListSuperseded(w)
    PROVE  TypeInv'
  <1> DEFINE r == work[w]
             obsolete == {o \in OpenOrders :
                /\ order[o].user = r.user
                /\ ~(order[o].version = r.version /\ order[o].lines = r.lines)}
             todo == Fetched(obsolete)
             none == [r EXCEPT !.pc = "create"]
             some == [r EXCEPT !.pc = "cancel", !.todo = todo]
  <1>1. Sound(r, Placed) /\ r \in WorkRecords /\ r.user \in Users
    BY RecordType DEF ListSuperseded, At, Sound, ForBuyer
  <1>2. Become(w, none) \/ Become(w, some)  BY DEF ListSuperseded
  <1>3. obsolete \subseteq Placed /\ obsolete \in SUBSET Orders  BY OpenArePlaced
  <1>4. todo \in SUBSET [order : Orders, linked : BOOLEAN] /\ \A old \in todo : old.order \in Placed
    BY <1>3, FetchedType DEF TypeInv
  <1> HIDE DEF todo, r
  <1>5. Sound(none, Placed)
    BY <1>1 DEF Sound, WorkRecords, Steps, OrderSteps, ForBuyer
  <1>6. Sound(some, Placed)
    BY <1>1, <1>4 DEF Sound, WorkRecords, Steps, OrderSteps, ForBuyer
  <1>7. UNCHANGED <<database, provider>>  BY DEF ListSuperseded
  <1> HIDE DEF none, some
  <1> QED  BY <1>2, <1>5, <1>6, <1>7, ReadingStep

\* The checkout finds the order of its key.
LEMMA ReuseOrderType ==
    ASSUME TypeInv, NEW w \in Workers, ReuseOrder(w)
    PROVE  TypeInv'
  <1>1. PICK o \in Placed :
            Become(w, [Reading(Idle, o) EXCEPT !.pc = "intent", !.job = "checkout"])
    BY DEF ReuseOrder
  <1> DEFINE read == Reading(Idle, o)
             record == [read EXCEPT !.pc = "intent", !.job = "checkout"]
  <1>2. o \in Orders  BY DEF Placed
  <1>3. read \in WorkRecords /\ read.order = o /\ read.todo = Idle.todo
    BY <1>2, ReadingType, IdleType DEF TypeInv
  <1>4. Idle.todo = {}  BY DEF Idle
  <1>5. Become(w, record) /\ UNCHANGED <<database, provider>>  BY <1>1 DEF ReuseOrder
  <1> HIDE DEF read
  <1>6. Sound(record, Placed)
    BY <1>3, <1>4 DEF Sound, WorkRecords, Steps, Jobs, OrderSteps, ForBuyer
  <1> QED  BY <1>5, <1>6, ReadingStep

\* The checkout creates an order: from now on it exists.
LEMMA CreateOrderType ==
    ASSUME TypeInv, NEW w \in Workers, NEW o \in Orders, CreateOrder(w, o)
    PROVE  TypeInv'
  <1> DEFINE c == work[w]
             row == [status |-> "PENDING_PAYMENT", user |-> c.user, version |-> c.version,
                     lines |-> c.lines, key |-> c.key, expired |-> FALSE]
             record == [Idle EXCEPT !.pc = "intent", !.job = "checkout", !.order = o]
  <1>1. Sound(c, Placed) /\ c \in WorkRecords /\ c.user \in Users
    BY RecordType DEF CreateOrder, Creating, At, Sound, ForBuyer
  <1>2. /\ order' = [order EXCEPT ![o] = row]
        /\ Become(w, record)
        /\ UNCHANGED <<cart, customer, fulfilled, processed, provider>>
    BY DEF CreateOrder
  <1> HIDE DEF c
  <1>3. row \in OrderRows /\ row.status # "NONE" /\ row.user \in Users
    BY <1>1, Statuses DEF WorkRecords, OrderRows
  <1> HIDE DEF row
  <1>4. order' \in [Orders -> OrderRows]  BY <1>2, <1>3 DEF TypeInv, DatabaseOK
  <1>5. Placed \subseteq Placed' /\ o \in Placed'
    BY <1>2, <1>3 DEF TypeInv, DatabaseOK, Placed
  <1>6. /\ payment' = [payment EXCEPT ![o] = NoPayment]
        /\ payment' \in [Orders -> PaymentRows]
    BY Statuses DEF CreateOrder, TypeInv, DatabaseOK, NoPayment, PaymentRows
  <1>7. reservation' \in [Orders -> ReservationStatuses]
    BY DEF CreateOrder, TypeInv, DatabaseOK, ReservationStatuses
  <1>8. artwork' \in [Artworks -> ArtworkRows]
    BY ArtworkRowTypes DEF CreateOrder, TypeInv, DatabaseOK
  <1>9. DatabaseOK' /\ ProviderOK'
    BY <1>2, <1>3, <1>4, <1>6, <1>7, <1>8
       DEF TypeInv, DatabaseOK, NoPayment, ProviderOK, provider
  <1>10. Sound(record, Placed')
    BY <1>5, IdleType DEF Sound, WorkRecords, Steps, Jobs, OrderSteps, ForBuyer, Idle
  <1>11. WorkOK'
    <2> HIDE DEF record
    <2> QED  BY <1>2, <1>5, <1>10, BecomeType DEF TypeInv
  <1> QED  BY <1>9, <1>11 DEF TypeInv

\* A handler that works on an order: the order exists, and so do its rows.
LEMMA WorkedOnOrder ==
    ASSUME TypeInv, NEW w \in Workers, work[w].pc \in OrderSteps
    PROVE  work[w].order \in Placed /\ work[w].order \in Orders
  BY RecordType DEF Sound, Placed

\* A handler parks an order whose intent is not its buyer's.
LEMMA MarkOrderForReviewType ==
    ASSUME TypeInv, NEW w \in Workers, MarkOrderForReview(w)
    PROVE  TypeInv'
  <1> DEFINE o == work[w].order
             status == IF order[o].status \in OPEN_ORDER_STATUSES
                       THEN "PAYMENT_REVIEW" ELSE order[o].status
  <1>1. o \in Placed /\ o \in Orders
    BY WorkedOnOrder DEF MarkOrderForReview, At, OrderSteps
  <1>2. status \in OrderStatuses \/ status = order[o].status  BY Statuses
  <1>3. order' = [order EXCEPT ![o].status = status]
    BY <1>1 DEF MarkOrderForReview, TypeInv, DatabaseOK
  <1> HIDE DEF status
  <1>4. /\ order' \in [Orders -> OrderRows]
        /\ Placed' = Placed
        /\ \A o2 \in Orders : order'[o2].status # "NONE" => order'[o2].user \in Users
        /\ \A o2 \in Orders : payment[o2].linked => order'[o2].status # "NONE"
    BY <1>1, <1>2, <1>3, OrderStatusType DEF TypeInv
  <1>5. WorkOK'  BY <1>4, FinishType DEF MarkOrderForReview, TypeInv
  <1> QED
    BY <1>4, <1>5 DEF MarkOrderForReview, TypeInv, DatabaseOK, ProviderOK, provider

\* Seeing an intent, and going on at another step, leaves a record sound.
LEMMA SeeType ==
    ASSUME NEW existing, NEW r, Sound(r, existing), r.order \in existing,
           NEW status \in IntentStatuses \cup {"none"}, NEW charge \in Nat,
           NEW pc \in OrderSteps \ {"cart", "cancelStripe", "cancelLocal"}
    PROVE  /\ Sound([r EXCEPT !.pc = pc], existing)
           /\ Sound([r EXCEPT !.pc = pc, !.seen = [status |-> status, charge |-> charge]], existing)
  <1> DEFINE moved == [r EXCEPT !.pc = pc]
             seen == [status |-> status, charge |-> charge]
             seeing == [moved EXCEPT !.seen = seen]
  <1>1. r \in WorkRecords /\ \A old \in r.todo : old.order \in existing  BY DEF Sound
  <1>2. pc \in Steps /\ ~(pc \in {"renew", "reread", "list", "create", "outdated", "cart"})
        /\ ~(pc \in {"cancel", "cancelStripe", "cancelLocal"})
    BY DEF OrderSteps, Steps
  <1>3. moved \in WorkRecords /\ moved.pc = pc /\ moved.order = r.order /\ moved.todo = r.todo
    BY <1>1, <1>2 DEF WorkRecords
  <1>4. seen \in [status : IntentStatuses \cup {"none"}, charge : Nat]  OBVIOUS
  <1> HIDE DEF moved, seen
  <1>5. seeing \in WorkRecords /\ seeing.pc = pc /\ seeing.order = r.order /\ seeing.todo = r.todo
    BY <1>3, <1>4 DEF WorkRecords
  <1> HIDE DEF seeing
  <1>6. Sound(moved, existing) /\ Sound(seeing, existing)
    BY <1>1, <1>2, <1>3, <1>5 DEF Sound, ForBuyer
  <1>7. seeing = [r EXCEPT !.pc = pc, !.seen = [status |-> status, charge |-> charge]]
    BY <1>1 DEF seeing, moved, seen, WorkRecords
  <1> QED  BY <1>6, <1>7 DEF moved

\* The checkout asks the provider for the intent of its order.
LEMMA CreateOrRetrieveIntentType ==
    ASSUME TypeInv, NEW w \in Workers, CreateOrRetrieveIntent(w)
    PROVE  TypeInv'
  <1> DEFINE o == work[w].order
             See(status, charge) ==
                [work[w] EXCEPT !.pc = "link", !.seen = [status |-> status, charge |-> charge]]
  <1>1. o \in Placed /\ o \in Orders /\ Sound(work[w], Placed)
    BY WorkedOnOrder, RecordType DEF CreateOrRetrieveIntent, At, OrderSteps
  <1>2. CASE UNCHANGED <<database, provider>> /\ Become(w, [work[w] EXCEPT !.pc = "park"])
    <2>1. Sound([work[w] EXCEPT !.pc = "park"], Placed)
      BY <1>1, SeeType, Statuses DEF OrderSteps, IntentStatuses
    <2> QED  BY <1>2, <2>1, ReadingStep
  <1>3. CASE UNCHANGED database /\ Become(w, See(intent[o].status, intent[o].charge))
             /\ UNCHANGED provider
    <2>1. intent[o].status \in IntentStatuses \cup {"none"} /\ intent[o].charge \in Nat
      BY <1>1 DEF TypeInv, ProviderOK, Intents
    <2>2. Sound(See(intent[o].status, intent[o].charge), Placed)
      BY <1>1, <2>1, SeeType DEF OrderSteps
    <2> QED  BY <1>3, <2>2, ReadingStep
  <1>4. CASE /\ UNCHANGED database /\ Become(w, See("requires_payment_method", 0))
             /\ UNCHANGED sent
             /\ \/ UNCHANGED intent
                \/ intent' = [intent EXCEPT ![o].status = "requires_payment_method",
                                            ![o].customer = customer[order[o].user]]
    <2>1. Sound(See("requires_payment_method", 0), Placed)
      BY <1>1, SeeType DEF OrderSteps, IntentStatuses
    <2>2. DatabaseOK' /\ Placed' = Placed
      BY <1>4, PlacedUnchanged DEF database, TypeInv, DatabaseOK
    <2>3. WorkOK'  BY <1>4, <2>1, <2>2, BecomeType DEF TypeInv
    <2>4. customer[order[o].user] \in Nat
      BY <1>1, PlacedRow DEF TypeInv, DatabaseOK
    <2>5. ProviderOK'
      BY <1>1, <1>4, <2>4 DEF TypeInv, ProviderOK, Intents, IntentStatuses
    <2> QED  BY <2>2, <2>3, <2>5 DEF TypeInv
  <1> QED  BY <1>2, <1>3, <1>4 DEF CreateOrRetrieveIntent, provider

\* The checkout links the intent to the payment of an order that exists.
LEMMA LinkIntentType ==
    ASSUME TypeInv, NEW w \in Workers, LinkIntent(w)
    PROVE  TypeInv'
  <1> DEFINE o == work[w].order
             record == [work[w] EXCEPT !.pc = "reconcile"]
             row == [payment[o] EXCEPT !.linked = TRUE]
  <1>1. o \in Placed /\ o \in Orders /\ Sound(work[w], Placed)
    BY WorkedOnOrder, RecordType DEF LinkIntent, At, OrderSteps
  <1>2. row \in PaymentRows  BY <1>1 DEF TypeInv, DatabaseOK, PaymentRows
  <1>3. payment' = [payment EXCEPT ![o] = row] /\ Become(w, record)  BY DEF LinkIntent
  <1> HIDE DEF row
  <1>4. payment' \in [Orders -> PaymentRows]  BY <1>1, <1>2, <1>3 DEF TypeInv, DatabaseOK
  <1>5. Placed' = Placed  BY PlacedUnchanged DEF LinkIntent
  <1>6. \A o2 \in Orders : payment'[o2].linked => order[o2].status # "NONE"
    BY <1>1, <1>3 DEF TypeInv, DatabaseOK, Placed
  <1>7. DatabaseOK' /\ ProviderOK'
    BY <1>4, <1>6 DEF LinkIntent, TypeInv, DatabaseOK, ProviderOK, provider
  <1>8. Sound(record, Placed')  BY <1>1, <1>5, SeeType, Statuses DEF OrderSteps, IntentStatuses
  <1>9. WorkOK'
    <2> HIDE DEF record
    <2> QED  BY <1>3, <1>5, <1>8, BecomeType DEF TypeInv
  <1> QED  BY <1>7, <1>9 DEF TypeInv

\* A response changes what the browser may do, and ends the handler.
LEMMA RespondType ==
    ASSUME ProviderOK, WorkOK, Placed \subseteq Placed', NEW w \in Workers,
           work[w].order \in Orders, Respond(w)
    PROVE  ProviderOK' /\ WorkOK'
  <1> DEFINE o == work[w].order
             secret == intent[o].secret \/ isPaymentIntentReusable(work[w].seen.status)
  <1>1. secret \in BOOLEAN  BY DEF ProviderOK, Intents, isPaymentIntentReusable
  <1>2. intent' = [intent EXCEPT ![o].secret = secret] /\ UNCHANGED sent  BY DEF Respond
  <1> HIDE DEF secret
  <1>3. ProviderOK'  BY <1>1, <1>2, SecretType
  <1> QED  BY <1>3, FinishType DEF Respond

\* A handler reconciles the intent it has read.
LEMMA ReconcileType ==
    ASSUME TypeInv, NEW w \in Workers, Reconcile(w)
    PROVE  TypeInv'
  <1> DEFINE o == work[w].order
             type == eventTypeForIntent(work[w].seen.status, work[w].paid)
  <1>1. o \in Placed /\ o \in Orders /\ Sound(work[w], Placed)
    BY WorkedOnOrder, RecordType DEF Reconcile, At, OrderSteps
  <1>2. DatabaseOK' /\ Placed \subseteq Placed'
    <2>1. CASE type = "none"
      BY <2>1, PlacedUnchanged DEF Reconcile, database, TypeInv, DatabaseOK
    <2>2. CASE type # "none"
      <3>1. ProcessEvent(SeenEvent(w))  BY <2>2 DEF Reconcile
      <3>2. type \in EventTypes  BY <2>2, ReconciledType
      <3>3. work[w].seen.charge \in Nat  BY <1>1 DEF Sound, WorkRecords
      <3>4. SeenEvent(w) \in EventIds
        BY <1>1, <3>2, <3>3 DEF SeenEvent, EventIds
      <3> QED  BY <3>1, <3>4, ProcessEventType DEF TypeInv
    <2> QED  BY <2>1, <2>2
  <1>3. \A pc \in {"settle", "reopen", "reload"} : Sound([work[w] EXCEPT !.pc = pc], Placed')
    <2> SUFFICES ASSUME NEW pc \in {"settle", "reopen", "reload"}
                 PROVE  Sound([work[w] EXCEPT !.pc = pc], Placed')
      OBVIOUS
    <2>1. Sound(work[w], Placed') /\ o \in Placed'  BY <1>1, <1>2 DEF Sound
    <2> QED  BY <2>1, SeeType DEF OrderSteps, IntentStatuses
  <1>4. \/ Respond(w)
        \/ Finish(w) /\ UNCHANGED provider
        \/ \E pc \in {"settle", "reopen", "reload"} :
              Become(w, [work[w] EXCEPT !.pc = pc]) /\ UNCHANGED provider
    BY DEF Reconcile
  <1>5. ProviderOK' /\ WorkOK'
    <2>1. CASE Respond(w)  BY <1>1, <1>2, <2>1, RespondType DEF TypeInv
    <2>2. CASE Finish(w) /\ UNCHANGED provider
      BY <1>2, <2>2, FinishType DEF TypeInv, ProviderOK, provider
    <2>3. CASE \E pc \in {"settle", "reopen", "reload"} :
                  Become(w, [work[w] EXCEPT !.pc = pc]) /\ UNCHANGED provider
      BY <1>2, <1>3, <2>3, BecomeType DEF TypeInv, ProviderOK, provider
    <2> QED  BY <1>4, <2>1, <2>2, <2>3
  <1> QED  BY <1>2, <1>5 DEF TypeInv

\* The checkout writes the status of the intent it had read.
LEMMA SettleType ==
    ASSUME TypeInv, NEW w \in Workers, Settle(w)
    PROVE  TypeInv'
  <1> DEFINE o == work[w].order
             status == mapStripePaymentStatus(work[w].seen.status)
  <1>1. o \in Placed /\ o \in Orders
    BY WorkedOnOrder DEF Settle, At, OrderSteps
  <1>2. status \in PaymentStatuses /\ payment' = [payment EXCEPT ![o].status = status]
    BY MappedStatus DEF Settle
  <1> HIDE DEF status
  <1>3. payment' \in [Orders -> PaymentRows]  BY <1>1, <1>2, PaymentStatusType DEF TypeInv
  <1>4. \A o2 \in Orders : payment'[o2].linked = payment[o2].linked
    BY <1>2 DEF TypeInv, DatabaseOK, PaymentRows
  <1>5. DatabaseOK'  BY <1>3, <1>4 DEF Settle, TypeInv, DatabaseOK
  <1>6. Placed' = Placed  BY PlacedUnchanged DEF Settle
  <1>7. ProviderOK' /\ WorkOK'  BY <1>1, <1>6, RespondType DEF Settle, TypeInv
  <1> QED  BY <1>5, <1>7 DEF TypeInv

\* The resume compares the cart with the order.
LEMMA CheckCartType ==
    ASSUME TypeInv, NEW w \in Workers, CheckCart(w)
    PROVE  TypeInv'
  <1> DEFINE r == work[w]
             old == [order |-> r.order, linked |-> r.linked]
             canceling == [r EXCEPT !.pc = "cancel", !.todo = {old}]
             retrieving == [r EXCEPT !.pc = "retrieve"]
  <1>1. r.order \in Placed /\ r.order \in Orders /\ Sound(r, Placed) /\ r.user \in Users
    BY WorkedOnOrder, RecordType DEF CheckCart, At, OrderSteps, Sound, ForBuyer
  <1>2. UNCHANGED <<database, provider>>
        /\ (Become(w, canceling) \/ Become(w, retrieving) \/ Finish(w))
    BY DEF CheckCart
  <1>3. Sound(retrieving, Placed)  BY <1>1, SeeType DEF OrderSteps, IntentStatuses
  <1>4. Sound(canceling, Placed)
    <2>1. r \in WorkRecords  BY <1>1 DEF Sound
    <2>2. old \in [order : Orders, linked : BOOLEAN] /\ old.order \in Placed
      BY <1>1, <2>1 DEF WorkRecords
    <2> HIDE DEF r, old
    <2> QED  BY <1>1, <2>1, <2>2 DEF Sound, WorkRecords, Steps, OrderSteps
  <1> HIDE DEF canceling, retrieving
  <1> QED  BY <1>2, <1>3, <1>4, ReadingStep, IdleSound DEF Finish

\* The resume or the reconciliation sweep reads the intent.
LEMMA RetrieveIntentType ==
    ASSUME TypeInv, NEW w \in Workers, RetrieveIntent(w)
    PROVE  TypeInv'
  <1> DEFINE r == work[w]
             o == r.order
             old == [order |-> o, linked |-> TRUE]
             parking == [r EXCEPT !.pc = "park"]
             canceling == [r EXCEPT !.pc = "cancel", !.todo = {old}]
             reconciling == [r EXCEPT !.pc = "reconcile",
                                !.seen = [status |-> intent[o].status,
                                          charge |-> intent[o].charge]]
  <1>1. o \in Placed /\ o \in Orders /\ Sound(r, Placed)
    BY WorkedOnOrder, RecordType DEF RetrieveIntent, At, OrderSteps
  <1>2. UNCHANGED <<database, provider>>
        /\ \/ Become(w, parking)
           \/ r.job = "resume" /\ Become(w, canceling)
           \/ Become(w, reconciling)
    BY DEF RetrieveIntent
  <1>p. Sound(parking, Placed)  BY <1>1, SeeType, Statuses DEF OrderSteps, IntentStatuses
  <1>3. Sound(reconciling, Placed)
    <2>1. intent[o].status \in IntentStatuses \cup {"none"} /\ intent[o].charge \in Nat
      BY <1>1 DEF TypeInv, ProviderOK, Intents
    <2> QED  BY <1>1, <2>1, SeeType DEF OrderSteps
  <1>4. r.job = "resume" => Sound(canceling, Placed)
    <2>1. r \in WorkRecords  BY <1>1 DEF Sound
    <2>2. old \in [order : Orders, linked : BOOLEAN] /\ old.order \in Placed
      BY <1>1 DEF WorkRecords
    <2> HIDE DEF r, old
    <2> QED  BY <1>1, <2>1, <2>2 DEF Sound, WorkRecords, Steps, OrderSteps, ForBuyer
  <1> HIDE DEF parking, canceling, reconciling
  <1> QED  BY <1>2, <1>p, <1>3, <1>4, ReadingStep

\* The resume reads its order again.
LEMMA ReloadOrderType ==
    ASSUME TypeInv, NEW w \in Workers, ReloadOrder(w)
    PROVE  TypeInv'
  <1> DEFINE r == work[w]
             o == r.order
             read == Reading(r, o)
             record == [read EXCEPT !.pc = "reopen", !.status = order[o].status]
  <1>1. o \in Placed /\ o \in Orders /\ Sound(r, Placed) /\ r \in WorkRecords
    BY WorkedOnOrder, RecordType DEF ReloadOrder, At, OrderSteps
  <1>2. read \in WorkRecords /\ read.order = o /\ read.todo = r.todo
    BY <1>1, ReadingType DEF TypeInv
  <1>3. order[o].status \in OrderStatuses  BY <1>1, PlacedRow DEF TypeInv
  <1>4. Become(w, record) /\ UNCHANGED <<database, provider>>  BY DEF ReloadOrder
  <1> HIDE DEF read, r
  <1>5. Sound(record, Placed)
    <2>1. record \in WorkRecords /\ record.pc = "reopen" /\ record.order = read.order
          /\ record.todo = read.todo
      BY <1>2, <1>3 DEF WorkRecords, Steps
    <2> HIDE DEF record
    <2> QED  BY <1>1, <1>2, <2>1 DEF Sound, ForBuyer, OrderSteps
  <1> QED  BY <1>4, <1>5, ReadingStep

\* The resume writes the statuses it has decided on.
LEMMA ReopenType ==
    ASSUME TypeInv, NEW w \in Workers, Reopen(w)
    PROVE  TypeInv'
  <1> DEFINE o == work[w].order
             paid == IF canTransitionPayment(work[w].paid, "PENDING") THEN "PENDING"
                     ELSE payment[o].status
             status == IF canTransitionOrder(work[w].status, "PENDING_PAYMENT")
                       THEN "PENDING_PAYMENT" ELSE order[o].status
  <1>1. o \in Placed /\ o \in Orders
    BY WorkedOnOrder DEF Reopen, At, OrderSteps
  <1>2. paid \in PaymentStatuses  BY <1>1, Statuses DEF TypeInv, DatabaseOK, PaymentRows
  <1>3. status \in OrderStatuses \/ status = order[o].status  BY Statuses
  <1>4. /\ payment' = [payment EXCEPT ![o].status = paid]
        /\ order' = [order EXCEPT ![o].status = status]
    BY <1>1 DEF Reopen, TypeInv, DatabaseOK
  <1> HIDE DEF paid, status
  <1>5. /\ payment' \in [Orders -> PaymentRows]
        /\ \A o2 \in Orders : payment'[o2].linked = payment[o2].linked
    BY <1>1, <1>2, <1>4 DEF TypeInv, DatabaseOK, PaymentRows
  <1>6. /\ order' \in [Orders -> OrderRows]
        /\ Placed' = Placed
        /\ \A o2 \in Orders : order'[o2].status # "NONE" => order'[o2].user \in Users
        /\ \A o2 \in Orders : payment[o2].linked => order'[o2].status # "NONE"
    BY <1>1, <1>3, <1>4, OrderStatusType DEF TypeInv
  <1>7. DatabaseOK'  BY <1>5, <1>6 DEF Reopen, TypeInv, DatabaseOK
  <1>8. ProviderOK' /\ WorkOK'  BY <1>1, <1>6, RespondType DEF Reopen, TypeInv
  <1> QED  BY <1>7, <1>8 DEF TypeInv

(***************************************************************************)
(* The cancellation loop.                                                  *)
(***************************************************************************)
\* The loop takes one of the orders it had listed.
LEMMA CancelNextType ==
    ASSUME TypeInv, NEW w \in Workers, NEW old \in work[w].todo, CancelNext(w, old)
    PROVE  TypeInv'
  <1> DEFINE r == work[w]
             pc == IF ~old.linked \/ intent[old.order].status = "canceled" THEN "cancelLocal"
                   ELSE IF intent[old.order].status = "succeeded" THEN "protect"
                   ELSE "cancelStripe"
             charge == intent[old.order].charge
             record == [r EXCEPT !.todo = @ \ {old}, !.order = old.order,
                                 !.seen.charge = charge, !.pc = pc]
  <1>1. Sound(r, Placed) /\ r \in WorkRecords /\ r.pc = "cancel"
    BY RecordType DEF CancelNext, At
  <1>2. old.order \in Placed /\ old.order \in Orders
    BY <1>1 DEF Sound, Placed
  <1>3. charge \in Nat  BY <1>2 DEF TypeInv, ProviderOK, Intents
  <1>4. pc \in {"cancelLocal", "protect", "cancelStripe"}  OBVIOUS
  <1>5. Become(w, record) /\ UNCHANGED <<database, provider>>  BY DEF CancelNext
  <1> HIDE DEF pc, charge, r
  <1>6. Sound(record, Placed)
    <2>1. [r.seen EXCEPT !.charge = charge]
              \in [status : IntentStatuses \cup {"none"}, charge : Nat]
      BY <1>1, <1>3 DEF WorkRecords
    <2>2. record \in WorkRecords /\ record.pc = pc /\ record.order = old.order
          /\ record.todo \subseteq r.todo /\ record.job = r.job /\ record.user = r.user
      BY <1>1, <1>2, <1>4, <2>1 DEF WorkRecords, Steps
    <2> HIDE DEF record
    <2> QED  BY <1>1, <1>2, <1>4, <2>2 DEF Sound, OrderSteps, ForBuyer
  <1> QED  BY <1>5, <1>6, ReadingStep

\* The loop cancels the intent at the provider.
LEMMA CancelAtProviderType ==
    ASSUME TypeInv, NEW w \in Workers, CancelAtProvider(w)
    PROVE  TypeInv'
  <1> DEFINE r == work[w]
             o == r.order
             record == [r EXCEPT !.pc = "cancelLocal"]
  <1>1. o \in Placed /\ o \in Orders /\ Sound(r, Placed) /\ r \in WorkRecords
        /\ r.pc = "cancelStripe"
    BY WorkedOnOrder, RecordType DEF CancelAtProvider, At, OrderSteps
  <1>2. ProviderOK'
    <2>1. CASE UNCHANGED provider  BY <2>1 DEF TypeInv, ProviderOK, provider
    <2>2. CASE Announce(o, "canceled", intent[o].charge)
      <3>1. intent[o].charge \in Nat  BY <1>1 DEF TypeInv, ProviderOK, Intents
      <3> QED  BY <1>1, <2>2, <3>1, AnnounceType DEF TypeInv, EventTypes
    <2> QED  BY <2>1, <2>2 DEF CancelAtProvider
  <1>3. DatabaseOK' /\ Placed' = Placed
    BY PlacedUnchanged DEF CancelAtProvider, database, TypeInv, DatabaseOK
  <1>4. Become(w, record)  BY DEF CancelAtProvider
  <1>5. Sound(record, Placed')
    <2> HIDE DEF r
    <2> QED  BY <1>1, <1>3 DEF Sound, WorkRecords, Steps, OrderSteps, ForBuyer
  <1>6. WorkOK'
    <2> HIDE DEF record
    <2> QED  BY <1>3, <1>4, <1>5, BecomeType DEF TypeInv
  <1> QED  BY <1>2, <1>3, <1>6 DEF TypeInv

\* After one order, the loop takes the next one, or the handler goes on.
LEMMA AfterCancelType ==
    ASSUME WorkOK, Placed \subseteq Placed', NEW w \in Workers, NEW refused \in BOOLEAN,
           work[w].job = "checkout" => work[w].user \in Users,
           AfterCancel(w, refused)
    PROVE  WorkOK'
  <1> DEFINE r == work[w]
             again == [r EXCEPT !.pc = "cancel", !.refused = refused]
             create == [r EXCEPT !.pc = "create", !.order = None, !.seen = Idle.seen]
  <1>1. r \in WorkRecords /\ \A old \in r.todo : old.order \in Placed'
    BY DEF WorkOK, Sound
  <1>2. \/ Become(w, again)
        \/ r.job = "checkout" /\ Become(w, create)
        \/ Become(w, Idle)
    BY DEF AfterCancel
  <1>3. Idle.seen \in [status : IntentStatuses \cup {"none"}, charge : Nat]
    BY IdleType DEF WorkRecords
  <1> HIDE DEF r
  <1>4. Sound(again, Placed')
    BY <1>1 DEF r, Sound, WorkRecords, Steps, OrderSteps, ForBuyer
  <1>5. r.job = "checkout" => Sound(create, Placed')
    <2>1. create \in WorkRecords  BY <1>1, <1>3 DEF WorkRecords, Steps
    <2>2. create.pc = "create" /\ create.user = r.user /\ create.todo = r.todo
      BY <1>1 DEF WorkRecords
    <2> HIDE DEF create
    <2> QED  BY <1>1, <2>1, <2>2 DEF r, Sound, OrderSteps
  <1> HIDE DEF again, create
  <1> QED  BY <1>2, <1>4, <1>5, IdleSound, BecomeType

\* finalizeLocalCancellation keeps every row well-formed.
LEMMA CancelLocallyType ==
    ASSUME TypeInv, NEW w \in Workers, CancelLocally(w)
    PROVE  TypeInv'
  <1> DEFINE r == work[w]
             o == r.order
             u == order[o].user
             paid == IF canTransitionPayment(payment[o].status, "CANCELED") THEN "CANCELED"
                     ELSE payment[o].status
             refused == r.refused \/ order[o].version = r.version
  <1>1. o \in Placed /\ o \in Orders /\ Sound(r, Placed) /\ r \in WorkRecords
        /\ r.pc = "cancelLocal"
    BY WorkedOnOrder, RecordType DEF CancelLocally, At, OrderSteps
  <1>2. paid \in PaymentStatuses /\ "CANCELED" \in OrderStatuses
    BY <1>1, Statuses DEF TypeInv, DatabaseOK, PaymentRows
  <1>3. /\ ReleaseReserved(o, r.reason)
        /\ order' = [order EXCEPT ![o].status = "CANCELED"]
        /\ BumpIf(u, cart[u].version = order[o].version)
        /\ payment' = [payment EXCEPT ![o].status = paid]
        /\ AfterCancel(w, refused)
        /\ UNCHANGED <<customer, fulfilled, processed, provider>>
    BY <1>1 DEF CancelLocally, TypeInv, DatabaseOK
  <1>4. r.reason \in {"RELEASED", "EXPIRED"} /\ r.refused \in BOOLEAN
        /\ (r.job = "checkout" => r.user \in Users)
    BY <1>1 DEF Sound, WorkRecords, ForBuyer
  <1>5. refused \in BOOLEAN  BY <1>4
  <1> HIDE DEF paid, refused, u
  <1>6. cart' \in [Users -> CartRows]  BY <1>3, BumpIfType DEF TypeInv
  <1>7. artwork' \in [Artworks -> ArtworkRows] /\ reservation' \in [Orders -> ReservationStatuses]
    BY <1>1, <1>3, <1>4, ReleaseReservedType DEF TypeInv
  <1>8. /\ payment' \in [Orders -> PaymentRows]
        /\ \A o2 \in Orders : payment'[o2].linked = payment[o2].linked
    BY <1>1, <1>2, <1>3 DEF TypeInv, DatabaseOK, PaymentRows
  <1>9. /\ order' \in [Orders -> OrderRows]
        /\ Placed' = Placed
        /\ \A o2 \in Orders : order'[o2].status # "NONE" => order'[o2].user \in Users
        /\ \A o2 \in Orders : payment[o2].linked => order'[o2].status # "NONE"
    BY <1>1, <1>2, <1>3, OrderStatusType DEF TypeInv
  <1>10. DatabaseOK' /\ ProviderOK'
    BY <1>3, <1>6, <1>7, <1>8, <1>9 DEF TypeInv, DatabaseOK, ProviderOK, provider
  <1>11. WorkOK'  BY <1>3, <1>4, <1>5, <1>9, AfterCancelType DEF TypeInv
  <1> QED  BY <1>10, <1>11 DEF TypeInv

\* The loop finds the order closed.
LEMMA AlreadyClosedType ==
    ASSUME TypeInv, NEW w \in Workers, AlreadyClosed(w)
    PROVE  TypeInv'
  <1>1. work[w].refused \in BOOLEAN /\ (work[w].job = "checkout" => work[w].user \in Users)
    BY RecordType DEF AlreadyClosed, At, Sound, WorkRecords, ForBuyer
  <1>2. DatabaseOK' /\ ProviderOK' /\ Placed' = Placed
    BY PlacedUnchanged
       DEF AlreadyClosed, database, provider, TypeInv, DatabaseOK, ProviderOK
  <1>3. WorkOK'  BY <1>1, <1>2, AfterCancelType DEF AlreadyClosed, TypeInv
  <1> QED  BY <1>2, <1>3 DEF TypeInv

\* The loop finds the payment captured, and finalizes it.
LEMMA ProtectPaymentType ==
    ASSUME TypeInv, NEW w \in Workers, ProtectPayment(w)
    PROVE  TypeInv'
  <1> DEFINE r == work[w]
             e == [source |-> "reconcile", order |-> r.order, type |-> "succeeded",
                   charge |-> r.seen.charge]
  <1>1. r.order \in Orders /\ r.seen.charge \in Nat
    BY WorkedOnOrder, RecordType DEF ProtectPayment, At, OrderSteps, WorkRecords
  <1>2. e \in EventIds  BY <1>1 DEF EventIds, EventTypes
  <1>3. ProcessEvent(e)  BY DEF ProtectPayment
  <1> HIDE DEF e
  <1>4. DatabaseOK' /\ Placed \subseteq Placed'  BY <1>2, <1>3, ProcessEventType DEF TypeInv
  <1>5. WorkOK'
    <2>1. CASE r.job = "expiry" /\ AfterCancel(w, FALSE)
      BY <1>4, <2>1, AfterCancelType DEF TypeInv
    <2>2. CASE Finish(w)  BY <1>4, <2>2, FinishType DEF TypeInv
    <2> QED  BY <2>1, <2>2 DEF ProtectPayment
  <1> QED  BY <1>4, <1>5 DEF ProtectPayment, TypeInv, ProviderOK, provider

(***************************************************************************)
(* All together.                                                           *)
(***************************************************************************)
\* Every step of a handler in progress.
LEMMA HandlerStepType ==
    ASSUME TypeInv, NEW w \in Workers, HandlerStep(w)
    PROVE  TypeInv'
  BY RenewCanceledCheckoutSnapshotType, RereadCartType, ListSupersededType, ReuseOrderType,
     CreateOrderType, CreateOrRetrieveIntentType, LinkIntentType, ReconcileType, SettleType,
     MarkOrderForReviewType, CheckCartType, RetrieveIntentType, ReloadOrderType, ReopenType,
     CancelNextType, CancelAtProviderType, CancelLocallyType, AlreadyClosedType, ProtectPaymentType
     DEF HandlerStep

\* The empty database satisfies the inductive invariant.
LEMMA InitType == Init => TypeInv
  <1> SUFFICES ASSUME Init PROVE TypeInv
    OBVIOUS
  <1>1. NoOrder \in OrderRows /\ NoOrder.status = "NONE"
    BY EmptySnapshotType DEF NoOrder, NoKey, OrderRows, IdempotencyKeys
  <1>2. NoPayment \in PaymentRows /\ ~NoPayment.linked
    BY Statuses DEF NoPayment, PaymentRows
  <1>3. NoIntent \in Intents  BY DEF NoIntent, Intents
  <1>4. artwork \in [Artworks -> ArtworkRows]  BY DEF Init, ArtworkRows
  <1>5. cart \in [Users -> CartRows]  BY DEF Init, CartRows
  <1>6. DatabaseOK
    BY <1>1, <1>2, <1>4, <1>5 DEF Init, DatabaseOK, ReservationStatuses
  <1>7. ProviderOK  BY <1>3 DEF Init, ProviderOK
  <1>8. WorkOK  BY IdleType, IdleSound DEF Init, WorkOK
  <1> QED  BY <1>6, <1>7, <1>8 DEF TypeInv

\* Every step preserves the inductive invariant.
LEMMA NextType == TypeInv /\ [Next]_vars => TypeInv'
  <1> SUFFICES ASSUME TypeInv, [Next]_vars PROVE TypeInv'
    OBVIOUS
  <1>1. CASE Environment
    BY <1>1, CatalogueType, ProviderType, WebhookType DEF Environment
  <1>2. CASE \E w \in Workers : HandlerStart(w) \/ HandlerStep(w) \/ Fail(w)
    BY <1>2, HandlerStartType, HandlerStepType, FailType
  <1>3. CASE UNCHANGED vars
    <2>1. Placed' = Placed  BY <1>3, PlacedUnchanged DEF vars, database
    <2>2. WorkOK'  BY <1>3, <2>1, WorkUnchangedType DEF vars, TypeInv
    <2> QED  BY <1>3, <2>2 DEF vars, database, provider, TypeInv, DatabaseOK, ProviderOK
  <1> QED  BY <1>1, <1>2, <1>3 DEF Next

\* The state keeps its shape whatever the handlers, the provider and the buyers do: no
\* handler ever works on an order, a cart or a status that does not exist.
THEOREM TypeCorrect == Spec => []TypeOK
  <1>1. Spec => []TypeInv  BY InitType, NextType, PTL DEF Spec
  <1> QED  BY <1>1, TypeInvIsTypeOK, PTL

===============================================================================
