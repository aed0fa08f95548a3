-------------------------- MODULE FinalizationProofs --------------------------
(***************************************************************************)
(* What a payment event settles, and on whose word: an order is paid, its  *)
(* artworks sold and its fulfillment enqueued together, only for money the *)
(* provider has captured, and a closed order keeps nothing reserved.       *)
(*                                                                         *)
(* The handlers read an intent in one step and use what they read in a     *)
(* later one.  A capture is final, so a reading that says "succeeded" can  *)
(* be old but not wrong; every other reading may be wrong by then, and the *)
(* proof shows that none of them makes an order paid.                      *)
(*                                                                         *)
(* The last part is about the checkouts of one buyer: a request lists what *)
(* it supersedes long before it creates its own order, and still leaves no *)
(* other order of the buyer open with artworks.                            *)
(***************************************************************************)
EXTENDS InventoryProofs

\* The provider has captured this charge for the order.
Captured(o, charge) == intent[o].status = "succeeded" /\ intent[o].charge = charge

\* An intent that a bank works on, or has answered, names a charge.
IntentsOK ==
    \A o \in Orders : intent[o].status \in {"processing", "succeeded"} => intent[o].charge # 0

EventsCaptured == \A e \in sent : e.type = "succeeded" => Captured(e.order, e.charge)

\* What a handler that is going to act on a capture has read of it.
ReadingOK(record) ==
    /\ (record.pc \in {"link", "reconcile"} /\ record.seen.status = "succeeded")
       \/ record.pc = "protect"
          => Captured(record.order, record.seen.charge)
    /\ record.pc = "settle" => mapStripePaymentStatus(record.seen.status) = "PENDING"

ReadingsOK == \A w \in Workers : ReadingOK(work[w])

\* An order that was given something, or is called paid, was paid.
PaidFor(o) ==
    /\ o \in fulfilled \/ order[o].status = "PAID" \/ reservation[o] = "CONSUMED"
          => intent[o].status = "succeeded"
    /\ payment[o].status = "SUCCEEDED" => Captured(o, payment[o].charge)

\* How order, payment, reservation and fulfillment go together.
Together(o) ==
    /\ order[o].status = "PAID" \/ reservation[o] = "CONSUMED" => o \in fulfilled
    /\ o \in fulfilled => reservation[o] # "ACTIVE" /\ order[o].status # "NONE"
    /\ reservation[o] = "ACTIVE" => order[o].status \in OPEN_ORDER_STATUSES \cup {"PAYMENT_REVIEW"}
    /\ payment[o].status = "CANCELED" => reservation[o] # "ACTIVE"
    /\ payment[o].status \notin {"PARTIALLY_REFUNDED", "REFUNDED"}
    /\ order[o].status \notin {"PARTIALLY_REFUNDED", "REFUNDED"}

OrdersOK == \A o \in Orders : PaidFor(o) /\ Together(o)

FinalizationInv == IntentsOK /\ EventsCaptured /\ ReadingsOK /\ OrdersOK

(***************************************************************************)
(* The provider: what it has captured stays captured.                      *)
(***************************************************************************)
CaptureKept ==
    \A o \in Orders : intent[o].status = "succeeded" =>
        intent'[o].status = "succeeded" /\ intent'[o].charge = intent[o].charge

ProviderMove == CaptureKept /\ IntentsOK' /\ EventsCaptured'

LEMMA ProviderStill ==
    ASSUME FinalizationInv, UNCHANGED provider
    PROVE  ProviderMove
  BY DEF FinalizationInv, IntentsOK, EventsCaptured, Captured, CaptureKept, ProviderMove, provider

\* Events sent before stay true, whatever happens to intents that are not captured.
LEMMA SentStaysTrue ==
    ASSUME TypeInv, FinalizationInv, CaptureKept
    PROVE  \A e \in sent : e.type = "succeeded" => Captured(e.order, e.charge)'
  <1> SUFFICES ASSUME NEW e \in sent, e.type = "succeeded"
               PROVE  Captured(e.order, e.charge)'
    OBVIOUS
  <1>1. e.order \in Orders  BY DEF TypeInv, ProviderOK, EventIds
  <1>2. Captured(e.order, e.charge)  BY DEF FinalizationInv, EventsCaptured
  <1> QED  BY <1>1, <1>2 DEF Captured, CaptureKept

\* Handing out a client secret touches no capture.
LEMMA SecretMoves ==
    ASSUME TypeInv, FinalizationInv, NEW o \in Orders, NEW secret,
           intent' = [intent EXCEPT ![o].secret = secret], UNCHANGED sent
    PROVE  ProviderMove
  <1>1. \A q \in Orders : intent'[q].status = intent[q].status /\ intent'[q].charge = intent[q].charge
    BY DEF TypeInv, ProviderOK, Intents
  <1>2. CaptureKept  BY <1>1 DEF CaptureKept
  <1>3. EventsCaptured'  BY <1>2, SentStaysTrue DEF EventsCaptured
  <1>4. IntentsOK'  BY <1>1 DEF IntentsOK, FinalizationInv
  <1> QED  BY <1>2, <1>3, <1>4 DEF ProviderMove

\* A new intent replaces none.
LEMMA NewIntentMoves ==
    ASSUME TypeInv, FinalizationInv, NEW o \in Orders, NEW c, intent[o].status = "none",
           intent' = [intent EXCEPT ![o].status = "requires_payment_method", ![o].customer = c],
           UNCHANGED sent
    PROVE  ProviderMove
  <1>1. /\ intent'[o].status = "requires_payment_method"
        /\ \A q \in Orders \ {o} : intent'[q] = intent[q]
    BY DEF TypeInv, ProviderOK, Intents
  <1>2. CaptureKept  BY <1>1 DEF CaptureKept
  <1>3. EventsCaptured'  BY <1>2, SentStaysTrue DEF EventsCaptured
  <1>4. IntentsOK'  BY <1>1 DEF IntentsOK, FinalizationInv
  <1> QED  BY <1>2, <1>3, <1>4 DEF ProviderMove

\* What is announced of an intent that was not captured is true of it.
LEMMA AnnounceMoves ==
    ASSUME TypeInv, FinalizationInv, NEW o \in Orders, NEW type \in EventTypes,
           NEW charge \in Nat, Announce(o, type, charge), intent[o].status # "succeeded",
           type \in {"processing", "succeeded"} => charge # 0
    PROVE  ProviderMove
  <1>1. /\ intent'[o].charge = charge
        /\ intent'[o].status = IF type = "payment_failed" THEN "requires_payment_method" ELSE type
        /\ \A q \in Orders \ {o} : intent'[q] = intent[q]
        /\ sent' = sent \cup {StripeEvent(o, type, charge)}
    BY DEF Announce, TypeInv, ProviderOK, Intents
  <1>2. CaptureKept  BY <1>1 DEF CaptureKept
  <1>3. EventsCaptured'
    BY <1>1, <1>2, SentStaysTrue DEF EventsCaptured, StripeEvent, Captured
  <1>4. IntentsOK'  BY <1>1 DEF IntentsOK, FinalizationInv
  <1> QED  BY <1>2, <1>3, <1>4 DEF ProviderMove

\* The provider's own steps.
LEMMA ProviderMoves ==
    ASSUME TypeInv, FinalizationInv, NEW o \in Orders,
           Confirm(o) \/ BankAnswers(o) \/ ProviderCancels(o)
    PROVE  ProviderMove
  <1>1. intent[o].charge \in Nat  BY DEF TypeInv, ProviderOK, Intents
  <1>2. CASE Confirm(o)
    <2>1. CASE \E type \in Outcomes \ {"requires_action", "canceled"} :
                   Announce(o, type, intent[o].charge + 1)
      <3>1. PICK type \in Outcomes \ {"requires_action", "canceled"} :
                   Announce(o, type, intent[o].charge + 1)
        BY <2>1
      <3>2. type \in EventTypes  BY ConstantsAssumption DEF EventTypes
      <3>3. intent[o].charge + 1 \in Nat /\ intent[o].charge + 1 # 0  BY <1>1
      <3>4. intent[o].status # "succeeded"  BY <1>2 DEF Confirm, isPaymentIntentReusable
      <3> QED  BY <3>1, <3>2, <3>3, <3>4, AnnounceMoves
    <2>2. CASE /\ intent[o].status = "requires_payment_method"
               /\ intent' = [intent EXCEPT ![o].status = "requires_action"]
               /\ UNCHANGED sent
      <3>1. /\ intent'[o].status = "requires_action"
            /\ \A q \in Orders \ {o} : intent'[q] = intent[q]
        BY <2>2 DEF TypeInv, ProviderOK, Intents
      <3>2. CaptureKept  BY <2>2, <3>1 DEF CaptureKept
      <3>3. EventsCaptured'  BY <2>2, <3>2, SentStaysTrue DEF EventsCaptured
      <3>4. IntentsOK'  BY <3>1 DEF IntentsOK, FinalizationInv
      <3> QED  BY <3>2, <3>3, <3>4 DEF ProviderMove
    <2> QED  BY <1>2, <2>1, <2>2 DEF Confirm
  <1>3. CASE BankAnswers(o)
    <2>1. PICK type \in Outcomes \cap {"succeeded", "payment_failed"} :
                 Announce(o, type, intent[o].charge)
      BY <1>3 DEF BankAnswers
    <2>2. intent[o].status = "processing" /\ intent[o].charge # 0
      BY <1>3 DEF BankAnswers, FinalizationInv, IntentsOK
    <2> QED  BY <1>1, <2>1, <2>2, AnnounceMoves DEF EventTypes
  <1>4. CASE ProviderCancels(o)
    BY <1>1, <1>4, AnnounceMoves DEF ProviderCancels, isPaymentIntentReusable, EventTypes
  <1> QED  BY <1>2, <1>3, <1>4

(***************************************************************************)
(* The rows of one order.                                                  *)
(***************************************************************************)
RowsSame(o) ==
    /\ order'[o].status = order[o].status /\ reservation'[o] = reservation[o]
    /\ payment'[o].status = payment[o].status /\ payment'[o].charge = payment[o].charge
    /\ o \in fulfilled' <=> o \in fulfilled

LEMMA RowsSameKeep ==
    ASSUME OrdersOK, CaptureKept, NEW o \in Orders, RowsSame(o)
    PROVE  PaidFor(o)' /\ Together(o)'
  BY DEF OrdersOK, CaptureKept, RowsSame, PaidFor, Together, Captured

\* What the tables make of an event that aims at an order and its payment.
LEMMA EventOutcome ==
    ASSUME NEW type \in EventTypes,
           NEW s \in OrderStatuses \ {"PARTIALLY_REFUNDED", "REFUNDED"},
           NEW p \in PaymentStatuses \ {"PARTIALLY_REFUNDED", "REFUNDED"},
           NEW nextOrder, nextOrder = IF canTransitionOrder(s, EVENT_TARGETS[type].order)
                                      THEN EVENT_TARGETS[type].order ELSE s,
           NEW nextPayment, nextPayment = IF canTransitionPayment(p, EVENT_TARGETS[type].payment)
                                          THEN EVENT_TARGETS[type].payment ELSE p
    PROVE  /\ s = "PAID" => nextOrder = "PAID"
           /\ s = "CANCELED" => nextOrder = "CANCELED"
           /\ nextOrder = "PAID" => s = "PAID" \/ type = "succeeded"
           /\ nextOrder = "CANCELED" => s = "CANCELED" \/ type = "canceled"
           /\ nextPayment = "SUCCEEDED" => p = "SUCCEEDED" \/ type = "succeeded"
           /\ nextPayment = "CANCELED" => p = "CANCELED" \/ type = "canceled"
           /\ type = "succeeded" => nextPayment = "SUCCEEDED" \/ p = "CANCELED"
           /\ type = "canceled" => nextOrder = "CANCELED" \/ s = "PAID"
           /\ nextOrder \in OPEN_ORDER_STATUSES \cup {"PAYMENT_REVIEW", "PAID", "CANCELED"}
           /\ nextPayment \in {"PENDING", "PROCESSING", "FAILED", "SUCCEEDED", "CANCELED"}
  <1>1. s \in {"PENDING_PAYMENT", "PAYMENT_PROCESSING", "PAYMENT_FAILED", "PAYMENT_REVIEW",
               "PAID", "CANCELED"}
        /\ p \in {"PENDING", "PROCESSING", "FAILED", "SUCCEEDED", "CANCELED"}
    BY Statuses
  <1>2. CASE type = "processing"
    BY <1>1, <1>2 DEF canTransitionOrder, canTransitionPayment, ORDER_TRANSITIONS,
       PAYMENT_TRANSITIONS, EVENT_TARGETS, OPEN_ORDER_STATUSES
  <1>3. CASE type = "succeeded"
    BY <1>1, <1>3 DEF canTransitionOrder, canTransitionPayment, ORDER_TRANSITIONS,
       PAYMENT_TRANSITIONS, EVENT_TARGETS, OPEN_ORDER_STATUSES
  <1>4. CASE type = "payment_failed"
    BY <1>1, <1>4 DEF canTransitionOrder, canTransitionPayment, ORDER_TRANSITIONS,
       PAYMENT_TRANSITIONS, EVENT_TARGETS, OPEN_ORDER_STATUSES
  <1>5. CASE type = "canceled"
    BY <1>1, <1>5 DEF canTransitionOrder, canTransitionPayment, ORDER_TRANSITIONS,
       PAYMENT_TRANSITIONS, EVENT_TARGETS, OPEN_ORDER_STATUSES
  <1> QED  BY <1>2, <1>3, <1>4, <1>5 DEF EventTypes

\* Selling and giving back write the reservation of one order, if it is active.
LEMMA ReservationAfter ==
    ASSUME DatabaseOK, NEW o \in Orders, NEW status,
           SellReserved(o) \/ ReleaseReserved(o, status)
    PROVE  /\ \A q \in Orders \ {o} : reservation'[q] = reservation[q]
           /\ reservation[o] # "ACTIVE" => reservation'[o] = reservation[o]
           /\ reservation[o] = "ACTIVE" =>
                 reservation'[o] = IF SellReserved(o) THEN "CONSUMED" ELSE status
  BY DEF SellReserved, ReleaseReserved, DatabaseOK

\* An event that is applied: order, payment, reservation and fulfillment move together,
\* and to "paid" only for a capture.
LEMMA ApplyEventFinalizes ==
    ASSUME TypeInv, FinalizationInv, CaptureKept, NEW e \in EventIds,
           e.type = "succeeded" => Captured(e.order, e.charge),
           payment[e.order].linked, ~ChargeMismatch(e.order, e.charge), ApplyEvent(e)
    PROVE  OrdersOK'
  <1> DEFINE o == e.order
             target == EVENT_TARGETS[e.type]
             s == order[o].status
             p == payment[o].status
             nextPayment == IF canTransitionPayment(p, target.payment) THEN target.payment ELSE p
             nextOrder == IF canTransitionOrder(s, target.order) THEN target.order ELSE s
             selling == /\ e.type = "succeeded" /\ nextOrder = "PAID"
                        /\ nextPayment = "SUCCEEDED" /\ s # "PAID"
             releasing == e.type = "canceled" /\ nextOrder = "CANCELED"
  <1>1. o \in Orders /\ e.type \in EventTypes /\ e.charge \in Nat  BY DEF EventIds
  <1>2. /\ s \in OrderStatuses \ {"PARTIALLY_REFUNDED", "REFUNDED"}
        /\ p \in PaymentStatuses \ {"PARTIALLY_REFUNDED", "REFUNDED"}
    BY <1>1 DEF TypeInv, DatabaseOK, OrderRows, PaymentRows, FinalizationInv, OrdersOK, Together
  <1>3. PaidFor(o) /\ Together(o)  BY <1>1 DEF FinalizationInv, OrdersOK
  <1>4. /\ s = "PAID" => nextOrder = "PAID"
        /\ s = "CANCELED" => nextOrder = "CANCELED"
        /\ nextOrder = "PAID" => s = "PAID" \/ e.type = "succeeded"
        /\ nextOrder = "CANCELED" => s = "CANCELED" \/ e.type = "canceled"
        /\ nextPayment = "SUCCEEDED" => p = "SUCCEEDED" \/ e.type = "succeeded"
        /\ nextPayment = "CANCELED" => p = "CANCELED" \/ e.type = "canceled"
        /\ e.type = "succeeded" => nextPayment = "SUCCEEDED" \/ p = "CANCELED"
        /\ e.type = "canceled" => nextOrder = "CANCELED" \/ s = "PAID"
        /\ nextOrder \in OPEN_ORDER_STATUSES \cup {"PAYMENT_REVIEW", "PAID", "CANCELED"}
        /\ nextPayment \in {"PENDING", "PROCESSING", "FAILED", "SUCCEEDED", "CANCELED"}
    <2> HIDE DEF s, p
    <2> QED  BY <1>1, <1>2, EventOutcome
  <1>5. /\ \/ selling /\ SellReserved(o)
           \/ releasing /\ ReleaseReserved(o, "RELEASED")
           \/ ~selling /\ ~releasing /\ UNCHANGED reservation
        /\ payment' = [payment EXCEPT ![o].status = nextPayment,
                                      ![o].charge = IF e.charge = 0 THEN @ ELSE e.charge]
        /\ order' = [order EXCEPT ![o].status = nextOrder]
        /\ fulfilled' = IF nextOrder = "PAID" THEN fulfilled \cup {o} ELSE fulfilled
    BY DEF ApplyEvent
  <1> HIDE DEF nextPayment, nextOrder
  <1>6. /\ order'[o].status = nextOrder /\ payment'[o].status = nextPayment
        /\ payment'[o].charge = IF e.charge = 0 THEN payment[o].charge ELSE e.charge
        /\ \A q \in Orders \ {o} : order'[q] = order[q] /\ payment'[q] = payment[q]
    BY <1>1, <1>5 DEF TypeInv, DatabaseOK, OrderRows, PaymentRows
  <1>7. /\ \A q \in Orders \ {o} : reservation'[q] = reservation[q]
        /\ reservation[o] # "ACTIVE" => reservation'[o] = reservation[o]
        /\ reservation[o] = "ACTIVE" =>
              reservation'[o] = IF selling THEN "CONSUMED" ELSE IF releasing THEN "RELEASED"
                                ELSE "ACTIVE"
    <2>1. ~(selling /\ releasing)  OBVIOUS
    <2>2. CASE selling /\ SellReserved(o)
      <3> HIDE DEF o, selling, releasing
      <3> QED  BY <1>1, <2>2, ReservationAfter DEF TypeInv
    <2>3. CASE releasing /\ ReleaseReserved(o, "RELEASED")
      <3> HIDE DEF o, selling, releasing
      <3> QED  BY <1>1, <2>1, <2>3 DEF TypeInv, DatabaseOK, ReleaseReserved
    <2>4. CASE ~selling /\ ~releasing /\ UNCHANGED reservation
      BY <2>4
    <2> QED  BY <1>5, <2>2, <2>3, <2>4
  <1>8. p = "SUCCEEDED" => payment'[o].charge = payment[o].charge
    <2>1. p = "SUCCEEDED" => payment[o].charge # 0
      BY <1>1, <1>3 DEF PaidFor, Captured, FinalizationInv, IntentsOK
    <2> QED  BY <1>6, <2>1 DEF ChargeMismatch, canRotateProviderCharge
  <1>9. e.type = "succeeded" => payment'[o].charge = e.charge
    BY <1>1, <1>6 DEF Captured, FinalizationInv, IntentsOK
  <1>10. PaidFor(o)'
    BY <1>1, <1>3, <1>4, <1>5, <1>6, <1>7, <1>8, <1>9 DEF PaidFor, Captured, CaptureKept
  <1>11. Together(o)'
    <2>1. order'[o].status = "PAID" \/ reservation'[o] = "CONSUMED" => o \in fulfilled'
      BY <1>3, <1>5, <1>6, <1>7 DEF Together
    <2>2. o \in fulfilled' => reservation'[o] # "ACTIVE" /\ order'[o].status # "NONE"
      BY <1>2, <1>3, <1>4, <1>5, <1>6, <1>7, OpenStatuses DEF Together, OPEN_ORDER_STATUSES
    <2>3. reservation'[o] = "ACTIVE"
            => order'[o].status \in OPEN_ORDER_STATUSES \cup {"PAYMENT_REVIEW"}
      BY <1>3, <1>4, <1>5, <1>6, <1>7 DEF Together, OPEN_ORDER_STATUSES
    <2>4. payment'[o].status = "CANCELED" => reservation'[o] # "ACTIVE"
      BY <1>3, <1>4, <1>6, <1>7 DEF Together
    <2>5. /\ payment'[o].status \notin {"PARTIALLY_REFUNDED", "REFUNDED"}
          /\ order'[o].status \notin {"PARTIALLY_REFUNDED", "REFUNDED"}
      BY <1>4, <1>6 DEF OPEN_ORDER_STATUSES
    <2> QED  BY <2>1, <2>2, <2>3, <2>4, <2>5 DEF Together
  <1>12. ASSUME NEW q \in Orders, q # o PROVE PaidFor(q)' /\ Together(q)'
    <2>1. RowsSame(q)  BY <1>5, <1>6, <1>7, <1>12 DEF RowsSame
    <2> QED  BY <2>1, RowsSameKeep DEF FinalizationInv
  <1> QED  BY <1>10, <1>11, <1>12 DEF OrdersOK

\* Any event that is true of its intent keeps the orders right.
LEMMA ProcessEventFinalizes ==
    ASSUME TypeInv, FinalizationInv, CaptureKept, NEW e \in EventIds,
           e.type = "succeeded" => Captured(e.order, e.charge), ProcessEvent(e)
    PROVE  OrdersOK'
  <1>1. CASE UNCHANGED database
    BY <1>1, RowsSameKeep DEF database, RowsSame, OrdersOK, FinalizationInv
  <1>2. CASE payment[e.order].linked /\ FlagForReview(e)
    <2> DEFINE status == IF canTransitionOrder(order[e.order].status, "PAYMENT_REVIEW")
                         THEN "PAYMENT_REVIEW" ELSE order[e.order].status
    <2>1. e.order \in Orders  BY DEF EventIds
    <2>2. order[e.order].status \in OrderStatuses \ {"PARTIALLY_REFUNDED", "REFUNDED"}
      BY <1>2, <2>1
         DEF TypeInv, DatabaseOK, OrderRows, FinalizationInv, OrdersOK, Together
    <2>3. status # order[e.order].status =>
             /\ status = "PAYMENT_REVIEW"
             /\ order[e.order].status \in OPEN_ORDER_STATUSES
      BY <2>2, Statuses DEF canTransitionOrder, ORDER_TRANSITIONS, OPEN_ORDER_STATUSES
    <2>4. order' = [order EXCEPT ![e.order].status = status]
          /\ UNCHANGED <<reservation, payment, fulfilled>>
      BY <1>2, <2>1 DEF FlagForReview, TypeInv, DatabaseOK
    <2> HIDE DEF status
    <2>5. /\ order'[e.order].status = status
          /\ \A q \in Orders \ {e.order} : order'[q] = order[q]
      BY <2>1, <2>4 DEF TypeInv, DatabaseOK, OrderRows
    <2>6. ASSUME NEW q \in Orders PROVE PaidFor(q)' /\ Together(q)'
      <3>1. CASE order'[q].status = order[q].status
        BY <2>4, <3>1, RowsSameKeep DEF RowsSame, FinalizationInv
      <3>2. CASE order'[q].status # order[q].status
        BY <2>3, <2>4, <2>5, <3>2
           DEF FinalizationInv, OrdersOK, PaidFor, Together, Captured, CaptureKept,
               OPEN_ORDER_STATUSES
      <3> QED  BY <3>1, <3>2
    <2> QED  BY <2>6 DEF OrdersOK
  <1>3. CASE payment[e.order].linked /\ ~ChargeMismatch(e.order, e.charge) /\ ApplyEvent(e)
    BY <1>3, ApplyEventFinalizes
  <1> QED  BY <1>1, <1>2, <1>3 DEF ProcessEvent

(***************************************************************************)
(* The other writes of the handlers.                                       *)
(***************************************************************************)
\* Steps that write none of this.
LEMMA DatabaseStill ==
    ASSUME FinalizationInv, CaptureKept,
           \A o \in Orders : order'[o].status = order[o].status,
           UNCHANGED <<reservation, payment, fulfilled>>
    PROVE  OrdersOK'
  BY RowsSameKeep DEF RowsSame, OrdersOK, FinalizationInv

\* A new order starts with everything open.
LEMMA CreateFinalizes ==
    ASSUME TypeInv, FinalizationInv, CaptureKept, NEW w \in Workers, NEW o \in Orders,
           CreateOrder(w, o)
    PROVE  OrdersOK'
  <1>1. order[o].status = "NONE"  BY DEF CreateOrder, Placed
  <1>2. /\ order'[o].status = "PENDING_PAYMENT" /\ payment'[o] = NoPayment
        /\ reservation'[o] \in {"NONE", "ACTIVE"} /\ fulfilled' = fulfilled
        /\ \A q \in Orders \ {o} : /\ order'[q] = order[q] /\ payment'[q] = payment[q]
                                   /\ reservation'[q] = reservation[q]
    BY DEF CreateOrder, TypeInv, DatabaseOK, OrderRows
  <1>3. o \notin fulfilled  BY <1>1 DEF FinalizationInv, OrdersOK, Together
  <1>4. PaidFor(o)' /\ Together(o)'
    BY <1>2, <1>3 DEF PaidFor, Together, NoPayment, OPEN_ORDER_STATUSES
  <1>5. ASSUME NEW q \in Orders, q # o PROVE PaidFor(q)' /\ Together(q)'
    BY <1>2, <1>5, RowsSameKeep DEF RowsSame, FinalizationInv
  <1> QED  BY <1>4, <1>5 DEF OrdersOK

\* An open order is parked.
LEMMA ReviewFinalizes ==
    ASSUME TypeInv, FinalizationInv, CaptureKept, NEW w \in Workers, MarkOrderForReview(w)
    PROVE  OrdersOK'
  <1> DEFINE o == work[w].order
  <1>0. o \in Orders  BY WorkedOnOrder DEF MarkOrderForReview, At, OrderSteps
  <1>1. /\ order'[o].status = IF order[o].status \in OPEN_ORDER_STATUSES THEN "PAYMENT_REVIEW"
                              ELSE order[o].status
        /\ \A q \in Orders \ {o} : order'[q] = order[q]
        /\ UNCHANGED <<reservation, payment, fulfilled>>
    BY <1>0 DEF MarkOrderForReview, TypeInv, DatabaseOK, OrderRows
  <1> HIDE DEF o
  <1>2. ASSUME NEW q \in Orders PROVE PaidFor(q)' /\ Together(q)'
    <2>1. CASE order'[q].status = order[q].status
      BY <1>1, <2>1, RowsSameKeep DEF RowsSame, FinalizationInv
    <2>2. CASE order'[q].status # order[q].status
      BY <1>1, <2>2 DEF FinalizationInv, OrdersOK, PaidFor, Together, Captured, CaptureKept,
                        OPEN_ORDER_STATUSES
    <2> QED  BY <2>1, <2>2
  <1> QED  BY <1>2 DEF OrdersOK

\* Linking an intent to a payment is not a payment.
LEMMA LinkFinalizes ==
    ASSUME TypeInv, FinalizationInv, CaptureKept, NEW w \in Workers, LinkIntent(w)
    PROVE  OrdersOK'
  <1>1. work[w].order \in Orders  BY WorkedOnOrder DEF LinkIntent, At, OrderSteps
  <1>2. \A q \in Orders : payment'[q].status = payment[q].status /\ payment'[q].charge = payment[q].charge
    BY <1>1 DEF LinkIntent, TypeInv, DatabaseOK, PaymentRows
  <1> QED  BY <1>2, RowsSameKeep DEF LinkIntent, RowsSame, OrdersOK, FinalizationInv

\* The last write of a checkout can only call a payment pending.
LEMMA SettleFinalizes ==
    ASSUME TypeInv, FinalizationInv, CaptureKept, NEW w \in Workers, Settle(w)
    PROVE  OrdersOK'
  <1> DEFINE o == work[w].order
  <1>1. o \in Orders  BY WorkedOnOrder DEF Settle, At, OrderSteps
  <1>2. mapStripePaymentStatus(work[w].seen.status) = "PENDING"
    BY DEF Settle, At, FinalizationInv, ReadingsOK, ReadingOK
  <1>3. /\ payment'[o].status = "PENDING"
        /\ \A q \in Orders \ {o} : payment'[q] = payment[q]
        /\ UNCHANGED <<order, reservation, fulfilled>>
    BY <1>1, <1>2 DEF Settle, TypeInv, DatabaseOK, PaymentRows
  <1> HIDE DEF o
  <1>4. ASSUME NEW q \in Orders, q = o PROVE PaidFor(q)' /\ Together(q)'
    BY <1>3, <1>4 DEF FinalizationInv, OrdersOK, PaidFor, Together, CaptureKept
  <1>5. ASSUME NEW q \in Orders, q # o PROVE PaidFor(q)' /\ Together(q)'
    BY <1>3, <1>5, RowsSameKeep DEF RowsSame, FinalizationInv
  <1> QED  BY <1>4, <1>5 DEF OrdersOK

\* The last write of a resume can only call payment and order pending.
LEMMA ReopenFinalizes ==
    ASSUME TypeInv, FinalizationInv, CaptureKept, NEW w \in Workers, Reopen(w)
    PROVE  OrdersOK'
  <1> DEFINE o == work[w].order
  <1>1. o \in Orders /\ order[o].status # "NONE"
    BY WorkedOnOrder DEF Reopen, At, OrderSteps, Placed
  <1>2. /\ payment'[o].status \in {"PENDING", payment[o].status}
        /\ payment'[o].charge = payment[o].charge
        /\ order'[o].status \in {"PENDING_PAYMENT", order[o].status}
        /\ \A q \in Orders \ {o} : payment'[q] = payment[q] /\ order'[q] = order[q]
        /\ UNCHANGED <<reservation, fulfilled>>
    BY <1>1 DEF Reopen, TypeInv, DatabaseOK, PaymentRows, OrderRows
  <1> HIDE DEF o
  <1>4. ASSUME NEW q \in Orders, q = o PROVE PaidFor(q)' /\ Together(q)'
    BY <1>1, <1>2, <1>4 DEF FinalizationInv, OrdersOK, PaidFor, Together, Captured, CaptureKept,
                      OPEN_ORDER_STATUSES
  <1>5. ASSUME NEW q \in Orders, q # o PROVE PaidFor(q)' /\ Together(q)'
    BY <1>2, <1>5, RowsSameKeep DEF RowsSame, FinalizationInv
  <1> QED  BY <1>4, <1>5 DEF OrdersOK

\* A cancellation gives back what it closes.
LEMMA CancelFinalizes ==
    ASSUME TypeInv, FinalizationInv, CaptureKept, NEW w \in Workers, CancelLocally(w)
    PROVE  OrdersOK'
  <1> DEFINE o == work[w].order
             reason == work[w].reason
  <1>1. o \in Orders /\ reason \in {"RELEASED", "EXPIRED"}
    BY WorkedOnOrder, RecordType DEF CancelLocally, At, OrderSteps, WorkRecords
  <1>2. /\ ReleaseReserved(o, reason) /\ order[o].status \in OPEN_ORDER_STATUSES
        /\ order' = [order EXCEPT ![o].status = "CANCELED"]
        /\ payment' = [payment EXCEPT ![o].status =
                IF canTransitionPayment(@, "CANCELED") THEN "CANCELED" ELSE @]
        /\ UNCHANGED fulfilled
    BY DEF CancelLocally, OpenOrders
  <1> HIDE DEF o, reason
  <1>3. /\ order'[o].status = "CANCELED"
        /\ payment'[o].status \in {"CANCELED", payment[o].status}
        /\ payment'[o].charge = payment[o].charge
        /\ \A q \in Orders \ {o} : payment'[q] = payment[q] /\ order'[q] = order[q]
    BY <1>1, <1>2 DEF TypeInv, DatabaseOK, PaymentRows, OrderRows
  <1>4. /\ \A q \in Orders \ {o} : reservation'[q] = reservation[q]
        /\ reservation'[o] = IF reservation[o] = "ACTIVE" THEN reason ELSE reservation[o]
    BY <1>1, <1>2 DEF ReleaseReserved, TypeInv, DatabaseOK
  <1>5. ASSUME NEW q \in Orders, q = o PROVE PaidFor(q)' /\ Together(q)'
    BY <1>1, <1>2, <1>3, <1>4, <1>5
       DEF FinalizationInv, OrdersOK, PaidFor, Together, Captured, CaptureKept
  <1>6. ASSUME NEW q \in Orders, q # o PROVE PaidFor(q)' /\ Together(q)'
    BY <1>2, <1>3, <1>4, <1>6, RowsSameKeep DEF RowsSame, FinalizationInv
  <1> QED  BY <1>5, <1>6 DEF OrdersOK

(***************************************************************************)
(* What the handlers have read.                                            *)
(***************************************************************************)
\* The steps at which a handler holds a reading it is going to act on.
ReadSteps == {"link", "reconcile", "settle", "protect"}

\* A capture that was read stays true until it is used.
LEMMA ReadingStays ==
    ASSUME TypeInv, FinalizationInv, CaptureKept, NEW w \in Workers, work'[w] = work[w]
    PROVE  ReadingOK(work[w])'
  <1>1. ReadingOK(work[w])  BY DEF FinalizationInv, ReadingsOK
  <1>2. work[w].pc \in {"link", "reconcile", "protect"} => work[w].order \in Orders
    BY WorkedOnOrder DEF OrderSteps
  <1> QED  BY <1>1, <1>2 DEF ReadingOK, Captured, CaptureKept

LEMMA OneReads ==
    ASSUME TypeInv, FinalizationInv, CaptureKept, NEW w \in Workers, NEW record,
           Become(w, record), ReadingOK(work[w])'
    PROVE  ReadingsOK'
  <1>1. \A v \in Workers : v # w => work'[v] = work[v]
    BY DEF Become, TypeInv, WorkOK
  <1> QED  BY <1>1, ReadingStays DEF ReadingsOK

LEMMA NobodyReads ==
    ASSUME TypeInv, FinalizationInv, CaptureKept, UNCHANGED work
    PROVE  ReadingsOK'
  BY ReadingStays DEF ReadingsOK

LEMMA OneMovesOn ==
    ASSUME TypeInv, FinalizationInv, CaptureKept, NEW w \in Workers, NEW record,
           Become(w, record), record.pc \notin ReadSteps
    PROVE  ReadingsOK'
  <1>1. work'[w] = record  BY DEF Become, TypeInv, WorkOK
  <1>2. ReadingOK(work[w])'  BY <1>1 DEF ReadingOK, ReadSteps
  <1> QED  BY <1>2, OneReads

LEMMA OneFinishes ==
    ASSUME TypeInv, FinalizationInv, CaptureKept, NEW w \in Workers, Finish(w)
    PROVE  ReadingsOK'
  BY OneMovesOn DEF Finish, Idle, ReadSteps

LEMMA CancelMovesOn ==
    ASSUME TypeInv, FinalizationInv, CaptureKept, NEW w \in Workers, NEW refused,
           AfterCancel(w, refused)
    PROVE  ReadingsOK'
  <1> DEFINE again  == [work[w] EXCEPT !.pc = "cancel", !.refused = refused]
             create == [work[w] EXCEPT !.pc = "create", !.order = None, !.seen = Idle.seen]
  <1>1. \/ Become(w, again)
        \/ Become(w, create)
        \/ Become(w, Idle)
    BY DEF AfterCancel
  <1>2. again.pc = "cancel" /\ create.pc = "create" /\ Idle.pc = "idle"
    BY RecordType DEF WorkRecords, Idle
  <1> HIDE DEF again, create
  <1> QED  BY <1>1, <1>2, OneMovesOn DEF ReadSteps

\* A handler begins, or gives up, without a reading.
LEMMA StartsUnread ==
    ASSUME TypeInv, FinalizationInv, CaptureKept, NEW w \in Workers,
           HandlerStart(w) \/ Fail(w)
    PROVE  ReadingsOK'
  <1>1. ASSUME NEW u \in Users, NEW tab \in Tabs, BeginCheckout(w, u, tab) PROVE ReadingsOK'
    <2>1. PICK lines \in [cart[u].items -> Prices] :
            Become(w, [Idle EXCEPT
                !.pc = IF lines = CartLines(u) THEN "renew" ELSE "outdated",
                !.job = "checkout", !.user = u, !.key = ClientKey(tab, u, lines),
                !.version = cart[u].version, !.lines = lines])
      BY <1>1 DEF BeginCheckout
    <2> QED  BY <2>1, OneMovesOn DEF Idle, ReadSteps
  <1>2. ASSUME NEW o \in Orders, RepeatCheckout(w, o) PROVE ReadingsOK'
    BY <1>2, OneMovesOn DEF RepeatCheckout, Idle, ReadSteps
  <1>3. ASSUME NEW o \in Orders, BeginResume(w, o) PROVE ReadingsOK'
    <2> DEFINE c == [Reading(Idle, o) EXCEPT !.job = "resume", !.user = order[o].user,
                                             !.status = order[o].status,
                                             !.customer = customer[order[o].user]]
               gone == [c EXCEPT !.pc = "cancel", !.reason = "EXPIRED", !.todo = Fetched({o})]
               open == [c EXCEPT !.pc = "cart"]
    <2>1. gone.pc = "cancel" /\ open.pc = "cart"  BY DEF Reading, Idle
    <2>2. Become(w, gone) \/ Become(w, open)  BY <1>3 DEF BeginResume
    <2> HIDE DEF gone, open
    <2> QED  BY <2>1, <2>2, OneMovesOn DEF ReadSteps
  <1>4. ASSUME NEW o \in Orders, BeginMonitor(w, o) PROVE ReadingsOK'
    <2> DEFINE record == [Reading(Idle, o) EXCEPT !.pc = "retrieve", !.job = "monitor"]
    <2>1. record.pc = "retrieve"  BY DEF Reading, Idle
    <2>2. Become(w, record)  BY <1>4 DEF BeginMonitor
    <2> HIDE DEF record
    <2> QED  BY <2>1, <2>2, OneMovesOn DEF ReadSteps
  <1>5. CASE BeginExpiry(w)
    BY <1>5, OneMovesOn DEF BeginExpiry, Idle, ReadSteps
  <1>6. CASE Fail(w)
    <2>1. CASE Finish(w)
      BY <2>1, OneFinishes
    <2>2. CASE Become(w, [work[w] EXCEPT !.pc = "cancel"])
      <3>1. [work[w] EXCEPT !.pc = "cancel"].pc = "cancel"  BY RecordType DEF WorkRecords
      <3> QED  BY <2>2, <3>1, OneMovesOn DEF ReadSteps
    <2> QED  BY <1>6, <2>1, <2>2 DEF Fail
  <1> QED  BY <1>1, <1>2, <1>3, <1>4, <1>5, <1>6 DEF HandlerStart

(***************************************************************************)
(* Every step of a handler.                                                *)
(***************************************************************************)
Kept == ProviderMove /\ OrdersOK' /\ ReadingsOK'

\* Steps that only read, or write the cart.
LEMMA ReadingSteps ==
    ASSUME TypeInv, FinalizationInv, NEW w \in Workers,
           \/ RenewCanceledCheckoutSnapshot(w) \/ RereadCart(w) \/ ListSuperseded(w)
           \/ ReuseOrder(w) \/ CheckCart(w) \/ ReloadOrder(w) \/ AlreadyClosed(w)
    PROVE  Kept
  <1>1. UNCHANGED <<provider, order, reservation, payment, fulfilled>>
    BY DEF RenewCanceledCheckoutSnapshot, RereadCart, ListSuperseded, ReuseOrder, CheckCart,
           ReloadOrder, AlreadyClosed, database
  <1>2. ProviderMove  BY <1>1, ProviderStill
  <1>3. CaptureKept  BY <1>2 DEF ProviderMove
  <1>4. OrdersOK'  BY <1>1, <1>3, DatabaseStill
  <1>r. work[w] \in WorkRecords  BY RecordType
  <1>5. ReadingsOK'
    <2>1. CASE RenewCanceledCheckoutSnapshot(w)
      <3> DEFINE renewed == [work[w] EXCEPT !.pc = "reread", !.version = @ + 1,
                                            !.key.scope = work[w].version + 1]
                 kept == [work[w] EXCEPT !.pc = "list"]
      <3>1. renewed.pc = "reread" /\ kept.pc = "list"  BY <1>r DEF WorkRecords
      <3>2. Become(w, renewed) \/ Become(w, kept)
        BY <2>1 DEF RenewCanceledCheckoutSnapshot
      <3> HIDE DEF renewed, kept
      <3> QED  BY <1>3, <3>1, <3>2, OneMovesOn DEF ReadSteps
    <2>2. CASE RereadCart(w)
      <3> DEFINE next == IF cart[work[w].user].version = work[w].version THEN "list" ELSE "outdated"
                 record == [work[w] EXCEPT !.pc = next, !.lines = CartLines(work[w].user)]
      <3>1. record.pc \in {"list", "outdated"}  BY <1>r DEF WorkRecords
      <3>2. Become(w, record)  BY <2>2 DEF RereadCart
      <3> HIDE DEF record
      <3> QED  BY <1>3, <3>1, <3>2, OneMovesOn DEF ReadSteps
    <2>3. CASE ListSuperseded(w)
      <3>1. PICK todo : \/ Become(w, [work[w] EXCEPT !.pc = "create"])
                        \/ Become(w, [work[w] EXCEPT !.pc = "cancel", !.todo = todo])
        BY <2>3 DEF ListSuperseded
      <3>2. /\ [work[w] EXCEPT !.pc = "create"].pc = "create"
            /\ [work[w] EXCEPT !.pc = "cancel", !.todo = todo].pc = "cancel"
        BY <1>r DEF WorkRecords
      <3> QED  BY <1>3, <3>1, <3>2, OneMovesOn DEF ReadSteps
    <2>4. CASE ReuseOrder(w)
      <3>1. PICK o \in Placed :
               Become(w, [Reading(Idle, o) EXCEPT !.pc = "intent", !.job = "checkout"])
        BY <2>4 DEF ReuseOrder
      <3>2. [Reading(Idle, o) EXCEPT !.pc = "intent", !.job = "checkout"].pc = "intent"
        BY DEF Reading, Idle
      <3> QED  BY <1>3, <3>1, <3>2, OneMovesOn DEF ReadSteps
    <2>5. CASE CheckCart(w)
      <3>1. PICK todo : \/ Become(w, [work[w] EXCEPT !.pc = "cancel", !.todo = todo])
                        \/ Become(w, [work[w] EXCEPT !.pc = "retrieve"])
                        \/ Finish(w)
        BY <2>5 DEF CheckCart
      <3>2. /\ [work[w] EXCEPT !.pc = "cancel", !.todo = todo].pc = "cancel"
            /\ [work[w] EXCEPT !.pc = "retrieve"].pc = "retrieve"
        BY <1>r DEF WorkRecords
      <3> QED  BY <1>3, <3>1, <3>2, OneMovesOn, OneFinishes DEF ReadSteps
    <2>6. CASE ReloadOrder(w)
      <3> DEFINE o == work[w].order
                 record == [Reading(work[w], o) EXCEPT !.pc = "reopen", !.status = order[o].status]
      <3>1. record.pc = "reopen"  BY <1>r DEF WorkRecords, Reading
      <3>2. Become(w, record)  BY <2>6 DEF ReloadOrder
      <3> HIDE DEF record
      <3> QED  BY <1>3, <3>1, <3>2, OneMovesOn DEF ReadSteps
    <2>7. CASE AlreadyClosed(w)
      BY <1>3, <2>7, CancelMovesOn DEF AlreadyClosed
    <2> QED  BY <2>1, <2>2, <2>3, <2>4, <2>5, <2>6, <2>7
  <1> QED  BY <1>2, <1>4, <1>5 DEF Kept

\* Answering the browser hands out a secret and ends the request.
LEMMA RespondMoves ==
    ASSUME TypeInv, FinalizationInv, NEW w \in Workers, work[w].order \in Orders, Respond(w)
    PROVE  ProviderMove /\ ReadingsOK'
  <1> DEFINE o == work[w].order
             secret == intent[o].secret \/ isPaymentIntentReusable(work[w].seen.status)
  <1>1. intent' = [intent EXCEPT ![o].secret = secret] /\ UNCHANGED sent
    BY DEF Respond, TypeInv, ProviderOK
  <1> HIDE DEF o, secret
  <1>2. ProviderMove  BY <1>1, SecretMoves DEF o
  <1>3. CaptureKept  BY <1>2 DEF ProviderMove
  <1> QED  BY <1>2, <1>3, OneFinishes DEF Respond

\* Steps that write the database.
LEMMA WritingSteps ==
    ASSUME TypeInv, FinalizationInv, NEW w \in Workers,
           \/ \E o \in Orders : CreateOrder(w, o)
           \/ Settle(w) \/ Reopen(w) \/ CancelLocally(w) \/ MarkOrderForReview(w)
    PROVE  Kept
  <1>1. ASSUME NEW o \in Orders, CreateOrder(w, o) PROVE Kept
    <2>1. ProviderMove  BY <1>1, ProviderStill DEF CreateOrder
    <2>2. CaptureKept  BY <2>1 DEF ProviderMove
    <2>3. [Idle EXCEPT !.pc = "intent", !.job = "checkout", !.order = o].pc = "intent"
      BY DEF Idle
    <2>4. Become(w, [Idle EXCEPT !.pc = "intent", !.job = "checkout", !.order = o])
      BY <1>1 DEF CreateOrder
    <2>5. ReadingsOK'  BY <2>2, <2>3, <2>4, OneMovesOn DEF ReadSteps
    <2> QED  BY <1>1, <2>1, <2>2, <2>5, CreateFinalizes DEF Kept
  <1>2. CASE Settle(w) \/ Reopen(w)
    <2>1. work[w].order \in Orders /\ Respond(w)
      BY <1>2, WorkedOnOrder DEF Settle, Reopen, At, OrderSteps
    <2>2. ProviderMove /\ ReadingsOK'  BY <2>1, RespondMoves
    <2> QED  BY <1>2, <2>2, SettleFinalizes, ReopenFinalizes DEF Kept, ProviderMove
  <1>3. CASE CancelLocally(w)
    <2>1. ProviderMove  BY <1>3, ProviderStill DEF CancelLocally
    <2>2. CaptureKept  BY <2>1 DEF ProviderMove
    <2>3. ReadingsOK'  BY <1>3, <2>2, CancelMovesOn DEF CancelLocally
    <2> QED  BY <1>3, <2>1, <2>2, <2>3, CancelFinalizes DEF Kept
  <1>4. CASE MarkOrderForReview(w)
    <2>1. ProviderMove  BY <1>4, ProviderStill DEF MarkOrderForReview
    <2>2. CaptureKept  BY <2>1 DEF ProviderMove
    <2>3. ReadingsOK'  BY <1>4, <2>2, OneFinishes DEF MarkOrderForReview
    <2> QED  BY <1>4, <2>1, <2>2, <2>3, ReviewFinalizes DEF Kept
  <1> QED  BY <1>1, <1>2, <1>3, <1>4

\* Steps that read an intent, and that write what they have read.
LEMMA SeeingSteps ==
    ASSUME TypeInv, FinalizationInv, NEW w \in Workers,
           CreateOrRetrieveIntent(w) \/ LinkIntent(w) \/ RetrieveIntent(w)
    PROVE  Kept
  <1> DEFINE o == work[w].order
  <1>0. o \in Orders /\ work[w] \in WorkRecords
    BY WorkedOnOrder, RecordType DEF CreateOrRetrieveIntent, LinkIntent, RetrieveIntent, At, OrderSteps
  <1>1. ASSUME NEW record, record.pc \notin ReadSteps, Become(w, record),
               UNCHANGED <<database, provider>>
        PROVE  Kept
    <2>1. ProviderMove  BY <1>1, ProviderStill
    <2>2. CaptureKept  BY <2>1 DEF ProviderMove
    <2>3. OrdersOK'  BY <1>1, <2>2, DatabaseStill DEF database
    <2>4. ReadingsOK'  BY <1>1, <2>2, OneMovesOn
    <2> QED  BY <2>1, <2>3, <2>4 DEF Kept
  <1>p. CASE /\ UNCHANGED <<database, provider>>
             /\ Become(w, [work[w] EXCEPT !.pc = "park"])
    <2>1. [work[w] EXCEPT !.pc = "park"].pc = "park"  BY <1>0 DEF WorkRecords
    <2> QED  BY <1>p, <1>1, <2>1 DEF ReadSteps
  <1>2. ASSUME NEW pc \in {"link", "reconcile"}, NEW status, NEW charge, ProviderMove,
               UNCHANGED database,
               status = "succeeded" => Captured(o, charge),
               Become(w, [work[w] EXCEPT !.pc = pc,
                                         !.seen = [status |-> status, charge |-> charge]])
        PROVE  Kept
    <2>1. CaptureKept  BY <1>2 DEF ProviderMove
    <2>2. OrdersOK'  BY <1>2, <2>1, DatabaseStill DEF database
    <2>3. /\ work'[w].pc = pc /\ work'[w].order = o
          /\ work'[w].seen = [status |-> status, charge |-> charge]
      BY <1>0, <1>2 DEF Become, TypeInv, WorkOK, WorkRecords
    <2>4. status = "succeeded" =>
             intent'[o].status = "succeeded" /\ intent'[o].charge = charge
      BY <1>0, <1>2, <2>1 DEF Captured, CaptureKept
    <2>5. ReadingOK(work[w])'
      <3> HIDE DEF o
      <3> QED  BY <1>2, <2>3, <2>4 DEF ReadingOK, Captured
    <2>6. ReadingsOK'  BY <1>2, <2>1, <2>5, OneReads
    <2> QED  BY <1>2, <2>2, <2>6 DEF Kept
  <1>3. CASE CreateOrRetrieveIntent(w)
    <2>1. CASE /\ UNCHANGED <<database, provider>>
               /\ Become(w, [work[w] EXCEPT !.pc = "park"])
      BY <1>p, <2>1
    <2>2. CASE /\ UNCHANGED <<database, provider>>
               /\ Become(w, [work[w] EXCEPT !.pc = "link",
                     !.seen = [status |-> intent[o].status, charge |-> intent[o].charge]])
      <3>1. ProviderMove  BY <2>2, ProviderStill
      <3>2. intent[o].status = "succeeded" => Captured(o, intent[o].charge)  BY DEF Captured
      <3> QED  BY <1>2, <2>2, <3>1, <3>2
    <2>3. CASE /\ UNCHANGED <<database, sent>>
               /\ intent' = IF intent[o].status # "none" THEN intent ELSE
                       [intent EXCEPT ![o].status = "requires_payment_method",
                                      ![o].customer = customer[order[o].user]]
               /\ Become(w, [work[w] EXCEPT !.pc = "link",
                     !.seen = [status |-> "requires_payment_method", charge |-> 0]])
      <3>1. ProviderMove
        BY <1>0, <2>3, ProviderStill, NewIntentMoves DEF provider
      <3>2. "requires_payment_method" = "succeeded" => Captured(o, 0)  OBVIOUS
      <3>3. UNCHANGED database  BY <2>3
      <3> HIDE DEF o
      <3> QED  BY <1>2, <2>3, <3>1, <3>2, <3>3
    <2> QED  BY <1>3, <2>1, <2>2, <2>3 DEF CreateOrRetrieveIntent, provider
  <1>4. CASE LinkIntent(w)
    <2>1. ProviderMove  BY <1>4, ProviderStill DEF LinkIntent
    <2>2. CaptureKept  BY <2>1 DEF ProviderMove
    <2>3. OrdersOK'  BY <1>4, <2>2, LinkFinalizes
    <2>4. work[w].seen.status = "succeeded" => Captured(o, work[w].seen.charge)
      BY <1>4 DEF LinkIntent, At, FinalizationInv, ReadingsOK, ReadingOK
    <2>5. /\ work'[w].pc = "reconcile" /\ work'[w].order = o
          /\ work'[w].seen = work[w].seen
      BY <1>0, <1>4 DEF LinkIntent, Become, TypeInv, WorkOK, WorkRecords
    <2>6. ReadingOK(work[w])'
      BY <1>0, <2>2, <2>4, <2>5 DEF ReadingOK, Captured, CaptureKept
    <2>7. Become(w, [work[w] EXCEPT !.pc = "reconcile"])  BY <1>4 DEF LinkIntent
    <2>8. ReadingsOK'  BY <2>2, <2>6, <2>7, OneReads
    <2> QED  BY <2>1, <2>3, <2>8 DEF Kept
  <1>5. CASE RetrieveIntent(w)
    <2>1. CASE /\ UNCHANGED <<database, provider>>
               /\ Become(w, [work[w] EXCEPT !.pc = "park"])
      BY <1>p, <2>1
    <2>2. CASE /\ UNCHANGED <<database, provider>>
               /\ Become(w, [work[w] EXCEPT !.pc = "cancel",
                                            !.todo = {[order |-> o, linked |-> TRUE]}])
      <3>1. [work[w] EXCEPT !.pc = "cancel", !.todo = {[order |-> o, linked |-> TRUE]}].pc
               = "cancel"
        BY <1>0 DEF WorkRecords
      <3> QED  BY <1>1, <2>2, <3>1 DEF ReadSteps
    <2>3. CASE /\ UNCHANGED <<database, provider>>
               /\ Become(w, [work[w] EXCEPT !.pc = "reconcile",
                     !.seen = [status |-> intent[o].status, charge |-> intent[o].charge]])
      <3>1. ProviderMove  BY <2>3, ProviderStill
      <3>2. intent[o].status = "succeeded" => Captured(o, intent[o].charge)  BY DEF Captured
      <3> QED  BY <1>2, <2>3, <3>1, <3>2
    <2> QED  BY <1>5, <2>1, <2>2, <2>3 DEF RetrieveIntent
  <1> QED  BY <1>3, <1>4, <1>5

\* The event a handler makes up of a capture it has read is true.
LEMMA SeenIsTrue ==
    ASSUME TypeInv, FinalizationInv, NEW w \in Workers, At(w, "reconcile"),
           eventTypeForIntent(work[w].seen.status, work[w].paid) # "none"
    PROVE  /\ SeenEvent(w) \in EventIds
           /\ SeenEvent(w).type = "succeeded" => Captured(SeenEvent(w).order, SeenEvent(w).charge)
  <1>1. work[w].order \in Orders /\ work[w].seen.charge \in Nat
    BY WorkedOnOrder, RecordType DEF At, OrderSteps, WorkRecords
  <1>2. SeenEvent(w) \in EventIds  BY <1>1, ReconciledType DEF SeenEvent, EventIds
  <1>3. SeenEvent(w).type = "succeeded" => work[w].seen.status = "succeeded"
    BY DEF SeenEvent, eventTypeForIntent
  <1>4. work[w].seen.status = "succeeded" => Captured(work[w].order, work[w].seen.charge)
    BY DEF At, FinalizationInv, ReadingsOK, ReadingOK
  <1> QED  BY <1>2, <1>3, <1>4 DEF SeenEvent

\* Reconciling acts on the reading; what is not final is read again.
LEMMA ReconcileFinalizes ==
    ASSUME TypeInv, FinalizationInv, NEW w \in Workers, Reconcile(w)
    PROVE  Kept
  <1> DEFINE nothing == eventTypeForIntent(work[w].seen.status, work[w].paid) = "none"
  <1>0. work[w].order \in Orders /\ work[w] \in WorkRecords
    BY WorkedOnOrder, RecordType DEF Reconcile, At, OrderSteps
  <1>1. At(w, "reconcile") /\ (nothing => UNCHANGED database)
        /\ (~nothing => ProcessEvent(SeenEvent(w)))
    BY DEF Reconcile
  <1>2. \/ /\ nothing /\ UNCHANGED provider
           /\ Become(w, [work[w] EXCEPT !.pc = "settle"])
        \/ /\ UNCHANGED provider
           /\ \/ Become(w, [work[w] EXCEPT !.pc = "reopen"])
              \/ Become(w, [work[w] EXCEPT !.pc = "reload"])
        \/ Respond(w)
        \/ UNCHANGED provider /\ Finish(w)
    BY DEF Reconcile
  <1>3. ProviderMove /\ ReadingsOK'
    <2>1. CASE /\ nothing /\ UNCHANGED provider
               /\ Become(w, [work[w] EXCEPT !.pc = "settle"])
      <3>1. ProviderMove  BY <2>1, ProviderStill
      <3>2. mapStripePaymentStatus(work[w].seen.status) = "PENDING"
        BY <2>1 DEF eventTypeForIntent, mapStripePaymentStatus
      <3>3. work'[w].pc = "settle" /\ work'[w].seen = work[w].seen
        BY <1>0, <2>1 DEF Become, TypeInv, WorkOK, WorkRecords
      <3>4. ReadingOK(work[w])'  BY <3>2, <3>3 DEF ReadingOK
      <3> QED  BY <2>1, <3>1, <3>4, OneReads DEF ProviderMove
    <2>2. CASE /\ UNCHANGED provider
               /\ \/ Become(w, [work[w] EXCEPT !.pc = "reopen"])
                  \/ Become(w, [work[w] EXCEPT !.pc = "reload"])
      <3>1. ProviderMove  BY <2>2, ProviderStill
      <3>2. /\ [work[w] EXCEPT !.pc = "reopen"].pc = "reopen"
            /\ [work[w] EXCEPT !.pc = "reload"].pc = "reload"
        BY <1>0 DEF WorkRecords
      <3> QED  BY <2>2, <3>1, <3>2, OneMovesOn DEF ProviderMove, ReadSteps
    <2>3. CASE Respond(w)
      BY <1>0, <2>3, RespondMoves
    <2>4. CASE UNCHANGED provider /\ Finish(w)
      BY <2>4, ProviderStill, OneFinishes DEF ProviderMove
    <2> QED  BY <1>2, <2>1, <2>2, <2>3, <2>4
  <1>4. CaptureKept  BY <1>3 DEF ProviderMove
  <1>5. OrdersOK'
    <2>1. CASE nothing
      BY <1>1, <1>4, <2>1, DatabaseStill DEF database
    <2>2. CASE ~nothing
      <3> DEFINE e == SeenEvent(w)
      <3>1. e \in EventIds /\ (e.type = "succeeded" => Captured(e.order, e.charge))
        BY <1>1, <2>2, SeenIsTrue
      <3>2. ProcessEvent(e)  BY <1>1, <2>2
      <3> HIDE DEF e
      <3> QED  BY <1>4, <3>1, <3>2, ProcessEventFinalizes
    <2> QED  BY <2>1, <2>2
  <1> QED  BY <1>3, <1>5 DEF Kept

\* A payment that succeeded before it could be canceled is finalized with its charge.
LEMMA ProtectFinalizes ==
    ASSUME TypeInv, FinalizationInv, NEW w \in Workers, ProtectPayment(w)
    PROVE  Kept
  <1> DEFINE e == [source |-> "reconcile", order |-> work[w].order, type |-> "succeeded",
                   charge |-> work[w].seen.charge]
  <1>1. work[w].order \in Orders /\ work[w].seen.charge \in Nat
    BY WorkedOnOrder, RecordType DEF ProtectPayment, At, OrderSteps, WorkRecords
  <1>2. e \in EventIds  BY <1>1 DEF EventIds, EventTypes
  <1>3. Captured(e.order, e.charge)
    BY DEF ProtectPayment, At, FinalizationInv, ReadingsOK, ReadingOK
  <1>4. ProcessEvent(e) /\ UNCHANGED provider /\ (AfterCancel(w, FALSE) \/ Finish(w))
    BY DEF ProtectPayment
  <1> HIDE DEF e
  <1>5. ProviderMove  BY <1>4, ProviderStill
  <1>6. CaptureKept  BY <1>5 DEF ProviderMove
  <1>7. OrdersOK'  BY <1>2, <1>3, <1>4, <1>6, ProcessEventFinalizes
  <1>8. ReadingsOK'  BY <1>4, <1>6, CancelMovesOn, OneFinishes
  <1> QED  BY <1>5, <1>7, <1>8 DEF Kept

\* The cancellation loop: it protects what is captured, and cancels only what is not.
LEMMA CancelingSteps ==
    ASSUME TypeInv, FinalizationInv, NEW w \in Workers,
           CancelAtProvider(w) \/ \E old \in work[w].todo : CancelNext(w, old)
    PROVE  Kept
  <1>0. work[w] \in WorkRecords  BY RecordType
  <1>1. CASE CancelAtProvider(w)
    <2>1. work[w].order \in Orders
      BY <1>1, WorkedOnOrder DEF CancelAtProvider, At, OrderSteps
    <2>2. intent[work[w].order].charge \in Nat
      BY <2>1 DEF TypeInv, ProviderOK, Intents
    <2>3. ProviderMove
      BY <1>1, <2>1, <2>2, ProviderStill, AnnounceMoves
         DEF CancelAtProvider, isPaymentIntentReusable, EventTypes
    <2>4. CaptureKept  BY <2>3 DEF ProviderMove
    <2>5. OrdersOK'  BY <1>1, <2>4, DatabaseStill DEF CancelAtProvider, database
    <2>6. [work[w] EXCEPT !.pc = "cancelLocal"].pc = "cancelLocal"  BY <1>0 DEF WorkRecords
    <2>7. ReadingsOK'  BY <1>1, <2>4, <2>6, OneMovesOn DEF CancelAtProvider, ReadSteps
    <2> QED  BY <2>3, <2>5, <2>7 DEF Kept
  <1>2. ASSUME NEW old \in work[w].todo, CancelNext(w, old) PROVE Kept
    <2> DEFINE pc == IF ~old.linked \/ intent[old.order].status = "canceled" THEN "cancelLocal"
                     ELSE IF intent[old.order].status = "succeeded" THEN "protect"
                     ELSE "cancelStripe"
               record == [work[w] EXCEPT !.todo = @ \ {old}, !.order = old.order,
                             !.seen.charge = intent[old.order].charge, !.pc = pc]
    <2>1. UNCHANGED <<database, provider>> /\ Become(w, record)
      BY <1>2 DEF CancelNext
    <2>2. ProviderMove  BY <2>1, ProviderStill
    <2>3. CaptureKept  BY <2>2 DEF ProviderMove
    <2>4. OrdersOK'  BY <2>1, <2>3, DatabaseStill DEF database
    <2>5. work'[w] = record  BY <2>1 DEF Become, TypeInv, WorkOK
    <2>6. /\ record.pc = pc /\ record.order = old.order
          /\ record.seen.charge = intent[old.order].charge
      BY <1>0 DEF WorkRecords
    <2>7. intent' = intent  BY <2>1 DEF provider
    <2>8. ReadingOK(work[w])'
      <3>1. pc \notin {"link", "reconcile", "settle"}
            /\ (pc = "protect" => intent[old.order].status = "succeeded")
        OBVIOUS
      <3> HIDE DEF pc, record
      <3> QED  BY <2>5, <2>6, <2>7, <3>1 DEF ReadingOK, Captured
    <2> HIDE DEF record
    <2>9. ReadingsOK'  BY <2>1, <2>3, <2>8, OneReads
    <2> QED  BY <2>2, <2>4, <2>9 DEF Kept
  <1> QED  BY <1>1, <1>2

LEMMA HandlerKeeps ==
    ASSUME TypeInv, FinalizationInv, NEW w \in Workers,
           HandlerStart(w) \/ HandlerStep(w) \/ Fail(w)
    PROVE  Kept
  <1>1. CASE HandlerStart(w) \/ Fail(w)
    <2>1. UNCHANGED <<database, provider>>
      BY <1>1 DEF HandlerStart, Fail, BeginCheckout, RepeatCheckout, BeginResume, BeginMonitor,
                  BeginExpiry
    <2>2. ProviderMove  BY <2>1, ProviderStill
    <2>3. CaptureKept  BY <2>2 DEF ProviderMove
    <2>4. OrdersOK'  BY <2>1, <2>3, DatabaseStill DEF database
    <2>5. ReadingsOK'  BY <1>1, <2>3, StartsUnread
    <2> QED  BY <2>2, <2>4, <2>5 DEF Kept
  <1>2. CASE HandlerStep(w)
    BY <1>2, ReadingSteps, WritingSteps, SeeingSteps, ReconcileFinalizes, ProtectFinalizes,
       CancelingSteps DEF HandlerStep
  <1> QED  BY <1>1, <1>2

(***************************************************************************)
(* The environment.                                                        *)
(***************************************************************************)
LEMMA EnvironmentKeeps ==
    ASSUME TypeInv, FinalizationInv, Environment
    PROVE  Kept
  <1>0. UNCHANGED work
    BY DEF Environment, ClearCart, ReplaceCustomer, SetCartItem, RemoveCartItem, EditPrice,
           Expire, Confirm, BankAnswers, ProviderCancels, Webhook
  <1>1. CASE \/ \E u \in Users : ClearCart(u) \/ ReplaceCustomer(u)
             \/ \E u \in Users, a \in Artworks : SetCartItem(u, a) \/ RemoveCartItem(u, a)
             \/ \E a \in Artworks, p \in Prices : EditPrice(a, p)
             \/ \E o \in Orders : Expire(o)
    <2>1. /\ UNCHANGED <<provider, reservation, payment, fulfilled>>
          /\ \A o \in Orders : order'[o].status = order[o].status
      BY <1>1 DEF ClearCart, ReplaceCustomer, SetCartItem, RemoveCartItem, EditPrice, Expire,
                  TypeInv, DatabaseOK, OrderRows
    <2>2. ProviderMove  BY <2>1, ProviderStill
    <2>3. CaptureKept  BY <2>2 DEF ProviderMove
    <2> QED  BY <1>0, <2>1, <2>2, <2>3, DatabaseStill, NobodyReads DEF Kept
  <1>2. CASE \E o \in Orders : Confirm(o) \/ BankAnswers(o) \/ ProviderCancels(o)
    <2>1. ProviderMove  BY <1>2, ProviderMoves
    <2>2. CaptureKept  BY <2>1 DEF ProviderMove
    <2>3. UNCHANGED database  BY <1>2 DEF Confirm, BankAnswers, ProviderCancels
    <2> QED  BY <1>0, <2>1, <2>2, <2>3, DatabaseStill, NobodyReads DEF Kept, database
  <1>3. ASSUME NEW e \in sent, Webhook(e) PROVE Kept
    <2>1. ProviderMove  BY <1>3, ProviderStill DEF Webhook
    <2>2. CaptureKept  BY <2>1 DEF ProviderMove
    <2>3. e \in EventIds /\ (e.type = "succeeded" => Captured(e.order, e.charge))
      BY DEF TypeInv, ProviderOK, FinalizationInv, EventsCaptured
    <2>4. OrdersOK'  BY <1>3, <2>2, <2>3, ProcessEventFinalizes DEF Webhook
    <2> QED  BY <1>0, <2>1, <2>2, <2>4, NobodyReads DEF Kept
  <1> QED  BY <1>1, <1>2, <1>3 DEF Environment

(***************************************************************************)
(* The theorems.                                                           *)
(***************************************************************************)
LEMMA FinalizationStart == Init => FinalizationInv
  <1> SUFFICES ASSUME Init PROVE FinalizationInv
    OBVIOUS
  <1>1. IntentsOK /\ EventsCaptured  BY DEF Init, IntentsOK, EventsCaptured, NoIntent
  <1>2. ReadingsOK  BY DEF Init, ReadingsOK, ReadingOK, Idle
  <1>3. OrdersOK
    BY DEF Init, OrdersOK, PaidFor, Together, NoOrder, NoPayment
  <1> QED  BY <1>1, <1>2, <1>3 DEF FinalizationInv

LEMMA FinalizationStep == TypeInv /\ FinalizationInv /\ [Next]_vars => FinalizationInv'
  <1> SUFFICES ASSUME TypeInv, FinalizationInv, [Next]_vars PROVE FinalizationInv'
    OBVIOUS
  <1>1. Kept
    <2>1. CASE Environment  BY <2>1, EnvironmentKeeps
    <2>2. CASE \E w \in Workers : HandlerStart(w) \/ HandlerStep(w) \/ Fail(w)
      BY <2>2, HandlerKeeps
    <2>3. CASE UNCHANGED vars
      <3>1. ProviderMove  BY <2>3, ProviderStill DEF vars
      <3>2. CaptureKept  BY <3>1 DEF ProviderMove
      <3> QED  BY <2>3, <3>1, <3>2, DatabaseStill, NobodyReads DEF Kept, vars, database
    <2> QED  BY <2>1, <2>2, <2>3 DEF Next
  <1> QED  BY <1>1 DEF Kept, ProviderMove, FinalizationInv

LEMMA FinalizationHolds == Spec => []FinalizationInv
  <1>1. Spec => []TypeInv  BY InitType, NextType, PTL DEF Spec
  <1> QED  BY <1>1, FinalizationStart, FinalizationStep, PTL DEF Spec

\* Whatever events and handlers race, no order is called paid and no artwork sold without
\* its fulfillment, and none is fulfilled whose artworks are only reserved
\* (processStripePaymentEvent: one transaction for all of it).
THEOREM PaidIsFulfilled == Spec => []FinalizedTogether
  <1>1. FinalizationInv => FinalizedTogether
    BY DEF FinalizationInv, OrdersOK, Together, FinalizedTogether
  <1> QED  BY <1>1, FinalizationHolds, PTL

\* Nothing is sold, delivered or called paid that the provider has not captured, however
\* old the reading of the intent that a handler acts on.
THEOREM GivenIsPaid == Spec => []NothingGivenUnpaid
  <1>1. FinalizationInv => NothingGivenUnpaid
    BY DEF FinalizationInv, OrdersOK, PaidFor, NothingGivenUnpaid
  <1> QED  BY <1>1, FinalizationHolds, PTL

\* A payment called succeeded names the captured charge, in whatever order the events of
\* earlier attempts arrive (canRotateProviderCharge).
THEOREM SucceededNamesItsCharge == Spec => []SucceededByItsCharge
  <1>1. FinalizationInv => SucceededByItsCharge
    BY DEF FinalizationInv, OrdersOK, PaidFor, Captured, SucceededByItsCharge
  <1> QED  BY <1>1, FinalizationHolds, PTL

\* Artworks are held only for an order that can still be paid, expire or be reviewed.
THEOREM ReservationsHaveOrders == Spec => []NoOrphanReservation
  <1>1. FinalizationInv => NoOrphanReservation
    BY DEF FinalizationInv, OrdersOK, Together, NoOrphanReservation
  <1> QED  BY <1>1, FinalizationHolds, PTL

(***************************************************************************)
(* What reopens a paid order.                                              *)
(***************************************************************************)
PaidKept == \A o \in Orders : order[o].status = "PAID" => order'[o].status = "PAID"

\* No event moves an order out of "paid": the table of transitions has no such target.
LEMMA EventKeepsPaid ==
    ASSUME TypeInv, NEW e \in EventIds, ProcessEvent(e)
    PROVE  PaidKept
  <1>1. e.order \in Orders /\ e.type \in EventTypes  BY DEF EventIds
  <1>2. ~canTransitionOrder("PAID", "PAYMENT_REVIEW")
    BY DEF canTransitionOrder, ORDER_TRANSITIONS
  <1>3. canTransitionOrder("PAID", EVENT_TARGETS[e.type].order)
           => EVENT_TARGETS[e.type].order = "PAID"
    BY <1>1 DEF canTransitionOrder, ORDER_TRANSITIONS, EVENT_TARGETS, EventTypes
  <1>4. CASE UNCHANGED database
    BY <1>4 DEF database, PaidKept
  <1>5. CASE FlagForReview(e)
    BY <1>1, <1>2, <1>5 DEF FlagForReview, PaidKept, TypeInv, DatabaseOK, OrderRows
  <1>6. CASE ApplyEvent(e)
    <2> DEFINE next == IF canTransitionOrder(order[e.order].status, EVENT_TARGETS[e.type].order)
                       THEN EVENT_TARGETS[e.type].order ELSE order[e.order].status
    <2>1. order' = [order EXCEPT ![e.order].status = next]  BY <1>6 DEF ApplyEvent
    <2>2. order[e.order].status = "PAID" => next = "PAID"  BY <1>3
    <2> HIDE DEF next
    <2> QED  BY <1>1, <2>1, <2>2 DEF PaidKept, TypeInv, DatabaseOK, OrderRows
  <1> QED  BY <1>4, <1>5, <1>6 DEF ProcessEvent

\* Nor does any other step of a handler than the last one of a resume.
LEMMA HandlerKeepsPaid ==
    ASSUME TypeInv, FinalizationInv, NEW w \in Workers,
           HandlerStart(w) \/ HandlerStep(w) \/ Fail(w), ~Reopen(w)
    PROVE  PaidKept
  <1>1. CASE \/ HandlerStart(w) \/ Fail(w)
             \/ RenewCanceledCheckoutSnapshot(w) \/ RereadCart(w) \/ ListSuperseded(w)
             \/ ReuseOrder(w) \/ CheckCart(w) \/ ReloadOrder(w) \/ AlreadyClosed(w)
             \/ (\E old \in work[w].todo : CancelNext(w, old)) \/ CancelAtProvider(w)
             \/ LinkIntent(w) \/ Settle(w)
    <2>1. UNCHANGED order
      BY <1>1 DEF HandlerStart, Fail, BeginCheckout, RepeatCheckout, BeginResume, BeginMonitor,
            BeginExpiry, RenewCanceledCheckoutSnapshot, RereadCart, ListSuperseded, ReuseOrder,
            CheckCart, ReloadOrder, AlreadyClosed, CancelNext, CancelAtProvider, LinkIntent,
            Settle, database
    <2> QED  BY <2>1 DEF PaidKept
  <1>2. ASSUME NEW o \in Orders, CreateOrder(w, o) PROVE PaidKept
    BY <1>2 DEF CreateOrder, Placed, PaidKept, TypeInv, DatabaseOK
  <1>3. CASE MarkOrderForReview(w)
    BY <1>3 DEF MarkOrderForReview, OPEN_ORDER_STATUSES, PaidKept, TypeInv, DatabaseOK, OrderRows
  <1>4. CASE CancelLocally(w)
    BY <1>4 DEF CancelLocally, OpenOrders, OPEN_ORDER_STATUSES, PaidKept, TypeInv, DatabaseOK,
                OrderRows
  <1>5. CASE CreateOrRetrieveIntent(w) \/ RetrieveIntent(w)
    BY <1>5 DEF CreateOrRetrieveIntent, RetrieveIntent, database, PaidKept
  <1>6. CASE Reconcile(w)
    <2>1. CASE UNCHANGED database
      BY <2>1 DEF database, PaidKept
    <2>2. CASE /\ eventTypeForIntent(work[w].seen.status, work[w].paid) # "none"
               /\ ProcessEvent(SeenEvent(w))
      <3>1. SeenEvent(w) \in EventIds  BY <1>6, <2>2, SeenIsTrue DEF Reconcile
      <3> QED  BY <2>2, <3>1, EventKeepsPaid
    <2> QED  BY <1>6, <2>1, <2>2 DEF Reconcile
  <1>7. CASE ProtectPayment(w)
    <2> DEFINE e == [source |-> "reconcile", order |-> work[w].order, type |-> "succeeded",
                     charge |-> work[w].seen.charge]
    <2>1. work[w].order \in Orders /\ work[w].seen.charge \in Nat
      BY <1>7, WorkedOnOrder, RecordType DEF ProtectPayment, At, OrderSteps, WorkRecords
    <2>2. e \in EventIds  BY <2>1 DEF EventIds, EventTypes
    <2>3. ProcessEvent(e)  BY <1>7 DEF ProtectPayment
    <2> HIDE DEF e
    <2> QED  BY <2>2, <2>3, EventKeepsPaid
  <1> QED  BY <1>1, <1>2, <1>3, <1>4, <1>5, <1>6, <1>7 DEF HandlerStep

\* A paid order is reopened by the last write of a stale resume, and by nothing else: the
\* transition table has no way out, and only that write decides from an older status.
THEOREM PaidStaysUnlessResumed == Spec => OnlyStaleResumeReopensPaid
  <1> DEFINE Reopened ==
         \A o \in Orders : order[o].status = "PAID" /\ order'[o].status # "PAID"
                               => \E w \in Workers : Reopen(w) /\ work[w].order = o
  <1>1. TypeInv /\ FinalizationInv /\ [Next]_vars => Reopened
    <2> SUFFICES ASSUME TypeInv, FinalizationInv, [Next]_vars PROVE Reopened
      OBVIOUS
    <2>1. ASSUME NEW w \in Workers, Reopen(w) PROVE Reopened
      <3>1. \A o \in Orders : o # work[w].order => order'[o] = order[o]
        BY <2>1 DEF Reopen, TypeInv, DatabaseOK
      <3> QED  BY <2>1, <3>1
    <2>2. ASSUME NEW w \in Workers, HandlerStart(w) \/ HandlerStep(w) \/ Fail(w), ~Reopen(w)
          PROVE  Reopened
      <3>1. PaidKept  BY <2>2, HandlerKeepsPaid
      <3> QED  BY <3>1 DEF PaidKept
    <2>3. CASE Environment
      <3>1. PaidKept
        <4>1. CASE \E e \in sent : Webhook(e)
          BY <4>1, EventKeepsPaid DEF Webhook, TypeInv, ProviderOK
        <4>2. CASE ~\E e \in sent : Webhook(e)
          BY <2>3, <4>2 DEF Environment, ClearCart, ReplaceCustomer, SetCartItem,
             RemoveCartItem, EditPrice, Expire, Confirm, BankAnswers, ProviderCancels, database,
             PaidKept, TypeInv, DatabaseOK, OrderRows
        <4> QED  BY <4>1, <4>2
      <3> QED  BY <3>1 DEF PaidKept
    <2>4. CASE UNCHANGED vars
      BY <2>4 DEF vars, database
    <2> QED  BY <2>1, <2>2, <2>3, <2>4 DEF Next
  <1>2. Spec => []TypeInv  BY InitType, NextType, PTL DEF Spec
  <1> QED  BY <1>1, <1>2, FinalizationHolds, PTL DEF Spec, OnlyStaleResumeReopensPaid

(***************************************************************************)
(* Two checkouts of one buyer.                                             *)
(*                                                                         *)
(* A checkout lists the buyer's superseded orders in one step, cancels     *)
(* them in many, and creates its own order in a last one.  Orders that     *)
(* appear meanwhile are no danger: an order is always created from the     *)
(* cart's current version, so either the cart has left the version of this *)
(* checkout, whose creation is then refused, or the new order has the same *)
(* version, and the checkout takes it over.                                *)
(***************************************************************************)
Held(o) == o \in OpenOrders /\ reservation[o] = "ACTIVE"

\* An intent was made for an order, under a customer its buyer has or had.
IntentsBelong ==
    \A o \in Orders :
        /\ order[o].status = "NONE" => intent[o].status = "none"
        /\ intent[o].status # "none" => intent[o].customer <= customer[order[o].user]
        /\ payment[o].linked => intent[o].status # "none"

\* What holds artworks is not paid; it is parked only for its customer's sake.
ParkedOK(o) ==
    reservation[o] = "ACTIVE" =>
        /\ payment[o].status # "SUCCEEDED"
        /\ order[o].status = "PAYMENT_REVIEW" => Outgrown(o)

AllParkedOK == \A o \in Orders : ParkedOK(o)

\* A checkout on its way to an order of its own, its page having been up to date.
Preparing(record) ==
    \/ record.pc \in {"renew", "reread", "list", "create"}
    \/ record.job = "checkout" /\ record.pc \in {"cancel", "cancelStripe", "cancelLocal"}

\* It still has to cancel this order.
Pending(record, o) ==
    /\ record.pc # "create"
    /\ \/ \E old \in record.todo : old.order = o
       \/ record.pc # "cancel" /\ record.order = o

\* What it has to cancel: the buyer's orders for other versions of the cart.
Superseded(o, u, v) ==
    Held(o) /\ order[o].user = u /\ order[o].version # v /\ ~Outgrown(o)

PreparedOK(record) ==
    /\ record.version <= cart[record.user].version
    /\ record.pc \notin {"renew", "reread", "list"} /\ cart[record.user].version = record.version
          => \A o \in Orders : Superseded(o, record.user, record.version) => Pending(record, o)

\* A handler that knows of an intent: there is one.
KnowsIntent(record) ==
    record.pc \in {"link", "retrieve"} \/ (record.pc \in {"cart", "intent"} /\ record.linked)

\* A resume compares the intent's customer with the one its first query read, which is no
\* newer than the buyer's and no older than the intent's.  Only what the buyer has outgrown
\* is parked.
CustomerOK(record) ==
    /\ record.pc = "park" => Outgrown(record.order)
    /\ record.pc \in {"cart", "retrieve"} /\ KnowsIntent(record) /\ record.job = "resume" =>
          /\ intent[record.order].customer <= record.customer
          /\ record.customer <= customer[order[record.order].user]

HandlerOK(record) ==
    /\ Preparing(record) => PreparedOK(record)
    /\ KnowsIntent(record) => intent[record.order].status # "none"
    /\ record.pc = "cart" => record.job = "resume"
    /\ CustomerOK(record)

HandlersOK == \A w \in Workers : HandlerOK(work[w])

CheckoutInv == IntentsBelong /\ AllParkedOK /\ HandlersOK

AllInv == TypeInv /\ AllocationInv /\ FinalizationInv /\ CheckoutInv

(***************************************************************************)
(* What never goes back: versions, customers and intents.                  *)
(***************************************************************************)
CartsForward == \A u \in Users : cart[u].version <= cart'[u].version

CustomersForward == \A u \in Users : customer[u] <= customer'[u]

IntentsForward ==
    \A o \in Orders :
        /\ intent[o].status # "none" => /\ intent'[o].status # "none"
                                        /\ intent'[o].customer = intent[o].customer
        /\ intent[o].status = "none" /\ intent'[o].status # "none" =>
              o \in Placed /\ intent'[o].customer = customer[order[o].user]

Forward == CartsForward /\ CustomersForward /\ IntentsForward

LEMMA CartsStay == ASSUME DatabaseOK, UNCHANGED cart PROVE CartsForward
  BY DEF CartsForward, DatabaseOK, CartRows

LEMMA BumpForward == ASSUME DatabaseOK, NEW u, NEW c, BumpIf(u, c) PROVE CartsForward
  BY DEF BumpIf, CartsForward, DatabaseOK, CartRows

\* A payment event may empty the cart, which gives it a new version.
LEMMA EventForward ==
    ASSUME DatabaseOK, NEW e, ProcessEvent(e)
    PROVE  CartsForward /\ UNCHANGED customer
  <1>1. CASE UNCHANGED cart
    BY <1>1, CartsStay DEF ProcessEvent, FlagForReview, ApplyEvent, database
  <1>2. CASE RemovePurchased(e.order) /\ UNCHANGED customer
    <2> DEFINE u == order[e.order].user
               kept == IF cart[u].version = order[e.order].version THEN {}
                       ELSE cart[u].items \ Items(e.order)
    <2>1. cart' = IF kept = cart[u].items THEN cart
                  ELSE [cart EXCEPT ![u] = [version |-> @.version + 1, items |-> kept]]
      BY <1>2 DEF RemovePurchased
    <2> HIDE DEF u, kept
    <2> QED  BY <1>2, <2>1 DEF CartsForward, DatabaseOK, CartRows
  <1>3. (UNCHANGED cart \/ RemovePurchased(e.order)) /\ UNCHANGED customer
    BY DEF ProcessEvent, FlagForReview, ApplyEvent, database
  <1> QED  BY <1>1, <1>2, <1>3

\* Only new intents take a customer, and every announcement is of an intent there is.
LEMMA AnnounceForward ==
    ASSUME TypeInv, NEW o \in Orders, NEW type \in EventTypes, NEW charge,
           Announce(o, type, charge), intent[o].status # "none"
    PROVE  IntentsForward
  <1> DEFINE status == IF type = "payment_failed" THEN "requires_payment_method" ELSE type
  <1>1. status # "none"  BY DEF EventTypes
  <1>2. intent' = [intent EXCEPT ![o].charge = charge, ![o].status = status]
    BY DEF Announce
  <1> HIDE DEF status
  <1> QED  BY <1>1, <1>2 DEF IntentsForward, TypeInv, ProviderOK, Intents

LEMMA IntentsStay == UNCHANGED intent => IntentsForward
  BY DEF IntentsForward

LEMMA RespondForward ==
    ASSUME TypeInv, NEW w \in Workers, Respond(w)
    PROVE  IntentsForward
  <1> DEFINE o == work[w].order
             secret == intent[o].secret \/ isPaymentIntentReusable(work[w].seen.status)
  <1>1. CASE o \in Orders
    <2>1. intent' = [intent EXCEPT ![o].secret = secret]
      BY <1>1 DEF Respond, TypeInv, ProviderOK
    <2> HIDE DEF o, secret
    <2> QED  BY <2>1 DEF IntentsForward, TypeInv, ProviderOK, Intents
  <1>2. CASE o \notin Orders
    <2>1. intent' = intent
      BY <1>2 DEF Respond, TypeInv, ProviderOK
    <2> QED  BY <2>1, IntentsStay
  <1> QED  BY <1>1, <1>2

LEMMA EnvironmentForward == ASSUME TypeInv, Environment PROVE Forward
  <1>1. CASE \E e \in sent : Webhook(e)
    <2>1. CartsForward /\ UNCHANGED <<customer, intent>>
      BY <1>1, EventForward DEF Webhook, provider, TypeInv
    <2> QED  BY <2>1, IntentsStay DEF Forward, CustomersForward, TypeInv, DatabaseOK
  <1>2. CASE \/ \E u \in Users : ClearCart(u) \/ ReplaceCustomer(u)
             \/ \E u \in Users, a \in Artworks : SetCartItem(u, a) \/ RemoveCartItem(u, a)
             \/ \E a \in Artworks, p \in Prices : EditPrice(a, p)
             \/ \E o \in Orders : Expire(o)
    <2>1. CartsForward
      BY <1>2, CartsStay DEF ClearCart, ReplaceCustomer, SetCartItem, RemoveCartItem, EditPrice,
                  Expire, CartsForward, TypeInv, DatabaseOK, CartRows
    <2>2. CustomersForward
      BY <1>2 DEF ClearCart, ReplaceCustomer, SetCartItem, RemoveCartItem, EditPrice, Expire,
                  CustomersForward, TypeInv, DatabaseOK
    <2>3. UNCHANGED intent
      BY <1>2 DEF ClearCart, ReplaceCustomer, SetCartItem, RemoveCartItem, EditPrice, Expire,
                  provider
    <2> QED  BY <2>1, <2>2, <2>3, IntentsStay DEF Forward
  <1>3. ASSUME NEW o \in Orders, Confirm(o) \/ BankAnswers(o) \/ ProviderCancels(o)
        PROVE  Forward
    <2>1. UNCHANGED <<cart, customer>>
      BY <1>3 DEF Confirm, BankAnswers, ProviderCancels, database
    <2>2. intent[o].status # "none"
      BY <1>3 DEF Confirm, BankAnswers, ProviderCancels, isPaymentIntentReusable
    <2>3. \/ \E type \in EventTypes, charge \in Nat : Announce(o, type, charge)
          \/ intent' = [intent EXCEPT ![o].status = "requires_action"]
      <3>1. intent[o].charge \in Nat  BY DEF TypeInv, ProviderOK, Intents
      <3>2. Outcomes \ {"requires_action"} \subseteq EventTypes
        BY ConstantsAssumption DEF EventTypes
      <3> QED  BY <1>3, <3>1, <3>2 DEF Confirm, BankAnswers, ProviderCancels, EventTypes
    <2>4. IntentsForward
      <3>1. CASE intent' = [intent EXCEPT ![o].status = "requires_action"]
        BY <2>2, <3>1 DEF IntentsForward, TypeInv, ProviderOK, Intents
      <3> QED  BY <2>2, <2>3, <3>1, AnnounceForward
    <2> QED  BY <2>1, <2>4, CartsStay DEF Forward, CustomersForward, TypeInv, DatabaseOK
  <1> QED  BY <1>1, <1>2, <1>3 DEF Environment

LEMMA HandlerForward ==
    ASSUME TypeInv, FinalizationInv, NEW w \in Workers,
           HandlerStart(w) \/ HandlerStep(w) \/ Fail(w)
    PROVE  Forward
  <1>1. ASSUME CartsForward, IntentsForward, UNCHANGED customer PROVE Forward
    BY <1>1 DEF Forward, CustomersForward, TypeInv, DatabaseOK
  <1>2. CASE \/ HandlerStart(w) \/ Fail(w) \/ RereadCart(w) \/ ListSuperseded(w) \/ ReuseOrder(w)
             \/ CheckCart(w) \/ ReloadOrder(w) \/ AlreadyClosed(w)
             \/ (\E old \in work[w].todo : CancelNext(w, old)) \/ LinkIntent(w)
             \/ (\E o \in Orders : CreateOrder(w, o)) \/ RetrieveIntent(w)
             \/ MarkOrderForReview(w)
    <2>1. UNCHANGED <<cart, customer, intent>>
      BY <1>2 DEF HandlerStart, Fail, BeginCheckout, RepeatCheckout, BeginResume, BeginMonitor,
            BeginExpiry, RereadCart, ListSuperseded, ReuseOrder, CheckCart, ReloadOrder,
            AlreadyClosed, CancelNext, LinkIntent, CreateOrder, RetrieveIntent,
            MarkOrderForReview,
            database, provider
    <2> QED  BY <1>1, <2>1, CartsStay, IntentsStay DEF TypeInv
  <1>3. CASE RenewCanceledCheckoutSnapshot(w) \/ CancelLocally(w)
    BY <1>1, <1>3, BumpForward, IntentsStay
       DEF RenewCanceledCheckoutSnapshot, CancelLocally, provider, TypeInv
  <1>4. CASE Settle(w) \/ Reopen(w)
    BY <1>1, <1>4, CartsStay, RespondForward DEF Settle, Reopen, TypeInv
  <1>5. CASE CreateOrRetrieveIntent(w)
    <2> DEFINE o == work[w].order
    <2>1. o \in Placed /\ o \in Orders
      BY <1>5, WorkedOnOrder DEF CreateOrRetrieveIntent, At, OrderSteps
    <2>2. UNCHANGED <<cart, customer>>
      BY <1>5 DEF CreateOrRetrieveIntent, database
    <2>3. \/ UNCHANGED intent
          \/ /\ intent[o].status = "none"
             /\ intent' = [intent EXCEPT ![o].status = "requires_payment_method",
                                         ![o].customer = customer[order[o].user]]
      BY <1>5 DEF CreateOrRetrieveIntent, provider
    <2>4. IntentsForward
      <3> HIDE DEF o
      <3> QED  BY <2>1, <2>3 DEF IntentsForward, TypeInv, ProviderOK, Intents
    <2> QED  BY <1>1, <2>2, <2>4, CartsStay DEF TypeInv
  <1>6. CASE Reconcile(w)
    <2>1. CartsForward /\ UNCHANGED customer
      BY <1>6, CartsStay, EventForward DEF Reconcile, database, TypeInv
    <2>2. UNCHANGED provider \/ Respond(w)  BY <1>6 DEF Reconcile
    <2> QED  BY <1>1, <2>1, <2>2, IntentsStay, RespondForward DEF provider
  <1>7. CASE ProtectPayment(w)
    BY <1>1, <1>7, EventForward, IntentsStay DEF ProtectPayment, provider, TypeInv
  <1>8. CASE CancelAtProvider(w)
    <2>1. work[w].order \in Orders
      BY <1>8, WorkedOnOrder DEF CancelAtProvider, At, OrderSteps
    <2>2. IntentsForward
      BY <1>8, <2>1, AnnounceForward, IntentsStay
         DEF CancelAtProvider, isPaymentIntentReusable, EventTypes, provider
    <2> QED  BY <1>1, <1>8, <2>2, CartsStay DEF CancelAtProvider, database, TypeInv
  <1> QED  BY <1>2, <1>3, <1>4, <1>5, <1>6, <1>7, <1>8 DEF HandlerStep

LEMMA NextForward == ASSUME TypeInv, FinalizationInv, [Next]_vars PROVE Forward
  <1>1. CASE UNCHANGED vars
    BY <1>1, CartsStay, IntentsStay
       DEF Forward, CustomersForward, vars, database, provider, TypeInv, DatabaseOK
  <1> QED  BY <1>1, EnvironmentForward, HandlerForward DEF Next

(***************************************************************************)
(* Which orders still hold artworks, and what became of their payment.     *)
(***************************************************************************)
\* What was outgrown stays so: a customer that was replaced does not come back.
LEMMA OutgrownStays ==
    ASSUME TypeInv, TypeInv', IntentsBelong, Forward,
           NEW o \in Orders, order'[o].user = order[o].user, Outgrown(o)
    PROVE  Outgrown(o)'
  <1> DEFINE u == order[o].user
  <1>1. u \in Users /\ intent[o].customer <= customer[u]
    BY DEF Outgrown, IntentsBelong, TypeInv, DatabaseOK
  <1>2. customer[u] \in Nat /\ customer'[u] \in Nat /\ customer[u] <= customer'[u]
    BY <1>1 DEF Forward, CustomersForward, TypeInv, DatabaseOK
  <1>3. intent[o].customer \in Nat  BY DEF TypeInv, ProviderOK, Intents
  <1>4. intent[o].customer # customer[u]  BY DEF Outgrown, Mismatched
  <1>5. intent'[o].status # "none" /\ intent'[o].customer = intent[o].customer
    BY DEF Forward, IntentsForward, Outgrown
  <1>6. intent'[o].customer # customer'[u]
    <2> HIDE DEF u
    <2> QED  BY <1>1, <1>2, <1>3, <1>4, <1>5
  <1> QED  BY <1>5, <1>6 DEF Outgrown, Mismatched

\* An order that keeps its artworks is not paid, and is parked only if outgrown.
Parks ==
    \A o \in Orders : reservation'[o] = "ACTIVE" =>
        /\ payment'[o].status = "SUCCEEDED" => payment[o].status = "SUCCEEDED"
        /\ order'[o].status = "PAYMENT_REVIEW" =>
              order[o].status = "PAYMENT_REVIEW" \/ Outgrown(o)

Links == \A o \in Orders : payment'[o].linked => payment[o].linked \/ intent[o].status # "none"

LEMMA DatabaseParks ==
    (\A o \in Orders : order'[o].status = order[o].status) /\ UNCHANGED payment => Parks /\ Links
  BY DEF Parks, Links

\* The provider's charge can be replaced as long as the order holds artworks.
LEMMA HeldCanRotate ==
    ASSUME TypeInv, FinalizationInv, CheckoutInv, NEW o \in Orders, reservation[o] = "ACTIVE",
           order[o].status # "PAYMENT_REVIEW", NEW charge
    PROVE  ~ChargeMismatch(o, charge)
  <1>1. Together(o) /\ ParkedOK(o)  BY DEF FinalizationInv, OrdersOK, CheckoutInv, AllParkedOK
  <1>2. payment[o].status \in PaymentStatuses  BY DEF TypeInv, DatabaseOK, PaymentRows
  <1>3. payment[o].status \in {"PENDING", "PROCESSING", "FAILED"}
    BY <1>1, <1>2 DEF Together, ParkedOK, PaymentStatuses, PAYMENT_TRANSITIONS
  <1>4. order[o].status \in OPEN_ORDER_STATUSES  BY <1>1 DEF Together
  <1> QED  BY <1>3, <1>4 DEF ChargeMismatch, canRotateProviderCharge

\* An event that is applied to an order that holds artworks: a success sells them.
LEMMA ApplyEventParks ==
    ASSUME TypeInv, FinalizationInv, CheckoutInv, NEW e \in EventIds, ~Mismatched(e.order),
           ApplyEvent(e)
    PROVE  Parks /\ Links
  <1> DEFINE o == e.order
             target == EVENT_TARGETS[e.type]
             s == order[o].status
             p == payment[o].status
             nextPayment == IF canTransitionPayment(p, target.payment) THEN target.payment ELSE p
             nextOrder == IF canTransitionOrder(s, target.order) THEN target.order ELSE s
             selling == /\ e.type = "succeeded" /\ nextOrder = "PAID"
                        /\ nextPayment = "SUCCEEDED" /\ s # "PAID"
  <1>1. o \in Orders /\ e.type \in EventTypes  BY DEF EventIds
  <1>2. /\ payment' = [payment EXCEPT ![o].status = nextPayment,
                                      ![o].charge = IF e.charge = 0 THEN @ ELSE e.charge]
        /\ order' = [order EXCEPT ![o].status = nextOrder]
        /\ selling => SellReserved(o)
        /\ \A q \in Orders : reservation'[q] = "ACTIVE" => reservation[q] = "ACTIVE"
    <2>1. \/ SellReserved(o)
          \/ ReleaseReserved(o, "RELEASED")
          \/ UNCHANGED reservation
      BY DEF ApplyEvent
    <2>2. \A q \in Orders : reservation'[q] = "ACTIVE" => reservation[q] = "ACTIVE"
      <3> HIDE DEF o
      <3> QED  BY <1>1, <2>1 DEF SellReserved, ReleaseReserved, TypeInv, DatabaseOK
    <2>3. selling => SellReserved(o)  BY DEF ApplyEvent
    <2> QED  BY <2>2, <2>3 DEF ApplyEvent
  <1>3. ASSUME reservation'[o] = "ACTIVE"
        PROVE  nextPayment # "SUCCEEDED" /\ nextOrder # "PAYMENT_REVIEW"
    <2>1. reservation[o] = "ACTIVE"  BY <1>1, <1>2, <1>3
    <2>2. Together(o) /\ ParkedOK(o)
      BY <1>1 DEF FinalizationInv, OrdersOK, CheckoutInv, AllParkedOK
    <2>3. s \in OPEN_ORDER_STATUSES /\ p # "SUCCEEDED"
      BY <2>1, <2>2 DEF Together, ParkedOK, Outgrown
    <2>4. ~selling
      <3>1. selling => reservation'[o] = "CONSUMED"
        BY <1>1, <1>2, <2>1 DEF SellReserved, TypeInv, DatabaseOK
      <3> QED  BY <1>3, <3>1
    <2>5. e.type = "succeeded" => nextOrder = "PAID"
      BY <2>3 DEF canTransitionOrder, ORDER_TRANSITIONS, OPEN_ORDER_STATUSES, EVENT_TARGETS
    <2>6. nextPayment = "SUCCEEDED" => e.type = "succeeded"
      BY <1>1, <2>3 DEF EVENT_TARGETS, EventTypes
    <2>7. nextOrder # "PAYMENT_REVIEW"
      BY <1>1, <2>3 DEF EVENT_TARGETS, EventTypes, OPEN_ORDER_STATUSES
    <2>8. s # "PAID"  BY <2>3 DEF OPEN_ORDER_STATUSES
    <2> HIDE DEF nextPayment, nextOrder, s, p
    <2> QED  BY <2>4, <2>5, <2>6, <2>7, <2>8
  <1> HIDE DEF nextPayment, nextOrder, selling
  <1>4. /\ order'[o].status = nextOrder /\ payment'[o].status = nextPayment
        /\ payment'[o].linked = payment[o].linked
        /\ \A q \in Orders \ {o} : order'[q] = order[q] /\ payment'[q] = payment[q]
    BY <1>1, <1>2 DEF TypeInv, DatabaseOK, OrderRows, PaymentRows
  <1> HIDE DEF o
  <1>5. Links
    <2> SUFFICES ASSUME NEW q \in Orders, payment'[q].linked PROVE payment[q].linked
      BY DEF Links
    <2>1. CASE q = o  BY <1>4, <2>1
    <2>2. CASE q # o  BY <1>4, <2>2
    <2> QED  BY <2>1, <2>2
  <1>6. Parks
    <2> SUFFICES ASSUME NEW q \in Orders, reservation'[q] = "ACTIVE"
                 PROVE  /\ payment'[q].status = "SUCCEEDED" => payment[q].status = "SUCCEEDED"
                        /\ order'[q].status = "PAYMENT_REVIEW" => order[q].status = "PAYMENT_REVIEW"
      BY DEF Parks
    <2>1. CASE q = o  BY <1>3, <1>4, <2>1
    <2>2. CASE q # o  BY <1>4, <2>2
    <2> QED  BY <2>1, <2>2
  <1> QED  BY <1>5, <1>6

\* An event is refused for an order that holds artworks only if its customer was replaced.
LEMMA EventParks ==
    ASSUME TypeInv, FinalizationInv, CheckoutInv, NEW e \in EventIds, ProcessEvent(e)
    PROVE  Parks /\ Links
  <1> DEFINE o == e.order
  <1>0. o \in Orders  BY DEF EventIds
  <1>1. CASE UNCHANGED database
    BY <1>1, DatabaseParks DEF database
  <1>2. CASE /\ payment[o].linked /\ (Mismatched(o) \/ ChargeMismatch(o, e.charge))
             /\ FlagForReview(e)
    <2>1. UNCHANGED <<payment, reservation>>
          /\ \A q \in Orders : q # o => order'[q] = order[q]
      BY <1>0, <1>2 DEF FlagForReview, TypeInv, DatabaseOK
    <2>2. ASSUME reservation[o] = "ACTIVE" PROVE order[o].status = "PAYMENT_REVIEW" \/ Outgrown(o)
      <3>1. intent[o].status # "none"
        BY <1>0, <1>2 DEF CheckoutInv, IntentsBelong
      <3> QED  BY <1>0, <1>2, <2>2, <3>1, HeldCanRotate DEF Outgrown
    <2> HIDE DEF o
    <2> QED  BY <2>1, <2>2 DEF Parks, Links
  <1>3. CASE ~Mismatched(o) /\ ApplyEvent(e)
    BY <1>3, ApplyEventParks
  <1> QED  BY <1>1, <1>2, <1>3 DEF ProcessEvent

LEMMA EnvironmentParks ==
    ASSUME TypeInv, FinalizationInv, CheckoutInv, Environment
    PROVE  Parks /\ Links
  <1>1. CASE \E e \in sent : Webhook(e)
    BY <1>1, EventParks DEF Webhook, TypeInv, ProviderOK
  <1>2. CASE ~\E e \in sent : Webhook(e)
    <2>1. UNCHANGED payment /\ \A o \in Orders : order'[o].status = order[o].status
      BY <1>2 DEF Environment, ClearCart, ReplaceCustomer, SetCartItem, RemoveCartItem,
                  EditPrice, Expire, Confirm, BankAnswers, ProviderCancels, database,
                  TypeInv, DatabaseOK, OrderRows
    <2> QED  BY <2>1, DatabaseParks
  <1> QED  BY <1>1, <1>2

\* A handler parks only an order whose intent it has found to be another customer's.
LEMMA ReviewParks ==
    ASSUME TypeInv, CheckoutInv, NEW w \in Workers, MarkOrderForReview(w)
    PROVE  Parks /\ Links
  <1> DEFINE o == work[w].order
  <1>1. Outgrown(o)
    BY DEF MarkOrderForReview, At, CheckoutInv, HandlersOK, HandlerOK, CustomerOK
  <1>2. UNCHANGED payment /\ \A q \in Orders : q # o => order'[q] = order[q]
    BY DEF MarkOrderForReview, TypeInv, DatabaseOK
  <1> HIDE DEF o
  <1> QED  BY <1>1, <1>2 DEF Parks, Links

LEMMA HandlerParks ==
    ASSUME TypeInv, FinalizationInv, CheckoutInv, NEW w \in Workers,
           HandlerStart(w) \/ HandlerStep(w) \/ Fail(w)
    PROVE  Parks /\ Links
  <1> DEFINE o == work[w].order
  <1>1. CASE \/ HandlerStart(w) \/ Fail(w) \/ RereadCart(w) \/ ListSuperseded(w) \/ ReuseOrder(w)
             \/ CheckCart(w) \/ ReloadOrder(w) \/ AlreadyClosed(w)
             \/ (\E old \in work[w].todo : CancelNext(w, old))
             \/ RenewCanceledCheckoutSnapshot(w) \/ CancelAtProvider(w)
    <2>1. UNCHANGED <<order, payment>>
      BY <1>1 DEF HandlerStart, Fail, BeginCheckout, RepeatCheckout, BeginResume, BeginMonitor,
            BeginExpiry, RereadCart, ListSuperseded, ReuseOrder, CheckCart, ReloadOrder,
            AlreadyClosed, CancelNext, RenewCanceledCheckoutSnapshot, CancelAtProvider, database
    <2> QED  BY <2>1, DatabaseParks
  <1>2. ASSUME NEW q \in Orders, CreateOrder(w, q) PROVE Parks /\ Links
    <2>1. /\ order'[q].status = "PENDING_PAYMENT" /\ payment'[q] = NoPayment
          /\ \A r \in Orders \ {q} : order'[r] = order[r] /\ payment'[r] = payment[r]
      BY <1>2 DEF CreateOrder, TypeInv, DatabaseOK
    <2> QED  BY <2>1 DEF Parks, Links, NoPayment
  <1>3. CASE CreateOrRetrieveIntent(w) \/ RetrieveIntent(w)
    BY <1>3, DatabaseParks DEF CreateOrRetrieveIntent, RetrieveIntent, database
  <1>4. CASE LinkIntent(w)
    <2>1. o \in Orders  BY <1>4, WorkedOnOrder DEF LinkIntent, At, OrderSteps
    <2>2. intent[o].status # "none"
      BY <1>4 DEF LinkIntent, At, CheckoutInv, HandlersOK, HandlerOK, KnowsIntent
    <2>3. /\ UNCHANGED order
          /\ \A q \in Orders : payment'[q].status = payment[q].status
          /\ \A q \in Orders : q # o => payment'[q] = payment[q]
      BY <1>4 DEF LinkIntent, TypeInv, DatabaseOK, PaymentRows
    <2> HIDE DEF o
    <2> QED  BY <2>2, <2>3 DEF Parks, Links
  <1>5. CASE Settle(w)
    <2>1. o \in Orders  BY <1>5, WorkedOnOrder DEF Settle, At, OrderSteps
    <2>2. mapStripePaymentStatus(work[w].seen.status) = "PENDING"
      BY <1>5 DEF Settle, At, FinalizationInv, ReadingsOK, ReadingOK
    <2>3. /\ UNCHANGED order
          /\ payment'[o].status = "PENDING"
          /\ \A q \in Orders : payment'[q].linked = payment[q].linked
          /\ \A q \in Orders : q # o => payment'[q] = payment[q]
      BY <1>5, <2>1, <2>2 DEF Settle, TypeInv, DatabaseOK, PaymentRows
    <2> HIDE DEF o
    <2> QED  BY <2>3 DEF Parks, Links
  <1>6. CASE Reopen(w)
    <2>1. o \in Orders  BY <1>6, WorkedOnOrder DEF Reopen, At, OrderSteps
    <2>2. /\ order'[o].status \in {"PENDING_PAYMENT", order[o].status}
          /\ payment'[o].status \in {"PENDING", payment[o].status}
          /\ \A q \in Orders : payment'[q].linked = payment[q].linked
          /\ \A q \in Orders : q # o => payment'[q] = payment[q] /\ order'[q] = order[q]
      BY <1>6, <2>1 DEF Reopen, TypeInv, DatabaseOK, PaymentRows, OrderRows
    <2> HIDE DEF o
    <2> QED  BY <2>2 DEF Parks, Links
  <1>7. CASE CancelLocally(w)
    <2>1. o \in Orders  BY <1>7, WorkedOnOrder DEF CancelLocally, At, OrderSteps
    <2>2. /\ order'[o].status = "CANCELED"
          /\ payment'[o].status \in {"CANCELED", payment[o].status}
          /\ \A q \in Orders : payment'[q].linked = payment[q].linked
          /\ \A q \in Orders : q # o => payment'[q] = payment[q] /\ order'[q] = order[q]
      BY <1>7, <2>1 DEF CancelLocally, TypeInv, DatabaseOK, PaymentRows, OrderRows
    <2> HIDE DEF o
    <2> QED  BY <2>2 DEF Parks, Links
  <1>8. CASE Reconcile(w)
    <2>1. CASE UNCHANGED database
      BY <2>1, DatabaseParks DEF database
    <2>2. CASE /\ eventTypeForIntent(work[w].seen.status, work[w].paid) # "none"
               /\ ProcessEvent(SeenEvent(w))
      <3>1. SeenEvent(w) \in EventIds  BY <1>8, <2>2, SeenIsTrue DEF Reconcile
      <3> QED  BY <2>2, <3>1, EventParks
    <2> QED  BY <1>8, <2>1, <2>2 DEF Reconcile
  <1>9. CASE ProtectPayment(w)
    <2> DEFINE e == [source |-> "reconcile", order |-> work[w].order, type |-> "succeeded",
                     charge |-> work[w].seen.charge]
    <2>1. work[w].order \in Orders /\ work[w].seen.charge \in Nat
      BY <1>9, WorkedOnOrder, RecordType DEF ProtectPayment, At, OrderSteps, WorkRecords
    <2>2. e \in EventIds  BY <2>1 DEF EventIds, EventTypes
    <2>3. ProcessEvent(e)  BY <1>9 DEF ProtectPayment
    <2> HIDE DEF e
    <2> QED  BY <2>2, <2>3, EventParks
  <1> QED
    BY <1>1, <1>2, <1>3, <1>4, <1>5, <1>6, <1>7, <1>8, <1>9, ReviewParks DEF HandlerStep

LEMMA NextParks ==
    ASSUME TypeInv, FinalizationInv, CheckoutInv, [Next]_vars
    PROVE  Parks /\ Links
  BY EnvironmentParks, HandlerParks, DatabaseParks DEF Next, vars, database

(***************************************************************************)
(* What a checkout has listed is all there is to cancel.                   *)
(***************************************************************************)
\* A step moves artworks in one of the known ways, or creates an order.
LEMMA NextMoves ==
    ASSUME TypeInv, [Next]_vars
    PROVE  Move \/ \E w \in Workers, o \in Orders : CreateOrder(w, o)
  <1>1. UNCHANGED vars => Move  BY NothingMoves DEF Move, vars, database
  <1> QED  BY <1>1, EnvironmentMoves, HandlerMoves DEF Next

\* Whatever is not a creation gives no order artworks, and reopens, of the orders that
\* hold some, only outgrown ones.
LEMMA HeldBefore ==
    ASSUME TypeInv, AllocationInv, FinalizationInv, CheckoutInv, Move, NEW o \in Orders, Held(o)'
    PROVE  /\ order'[o].user = order[o].user /\ order'[o].version = order[o].version
           /\ order[o].user \in Users
           /\ Held(o) \/ Outgrown(o)
  <1>1. LinesKept /\ (reservation'[o] = "ACTIVE" => reservation[o] = "ACTIVE")
    BY DEF Move, Still, EditPrice, LinesKept, SellReserved, ReleaseReserved, TypeInv, DatabaseOK
  <1>2. reservation[o] = "ACTIVE"  BY <1>1 DEF Held
  <1>3. order[o].user \in Users
    BY <1>2 DEF AllocationInv, ReservedArePlaced, TypeInv, DatabaseOK
  <1>4. order[o].status \in OPEN_ORDER_STATUSES \cup {"PAYMENT_REVIEW"}
    BY <1>2 DEF FinalizationInv, OrdersOK, Together
  <1>5. order[o].status = "PAYMENT_REVIEW" => Outgrown(o)
    BY <1>2 DEF CheckoutInv, AllParkedOK, ParkedOK
  <1> QED  BY <1>1, <1>2, <1>3, <1>4, <1>5 DEF LinesKept, Held, OpenOrders

\* A creation adds one order, of the cart's current version, and changes no other.
LEMMA CreatedOrder ==
    ASSUME TypeInv, NEW w \in Workers, NEW q \in Orders, CreateOrder(w, q)
    PROVE  /\ order[q].status = "NONE"
           /\ order'[q].user = work[w].user /\ order'[q].version = work[w].version
           /\ order'[q].status = "PENDING_PAYMENT" /\ payment'[q] = NoPayment
           /\ work[w].user \in Users /\ cart[work[w].user].version = work[w].version
           /\ \A o \in Orders \ {q} : /\ order'[o] = order[o]
                                      /\ payment'[o] = payment[o]
                                      /\ reservation'[o] = reservation[o]
           /\ UNCHANGED <<cart, customer, intent>>
  <1>1. work[w].user \in Users
    BY RecordType DEF CreateOrder, Creating, At, Sound, ForBuyer
  <1> QED  BY <1>1 DEF CreateOrder, Placed, provider, TypeInv, DatabaseOK

\* While the cart stays at the version of a checkout, no order is added to those that
\* are in its way.
LEMMA SupersededBefore ==
    ASSUME AllInv, TypeInv', [Next]_vars,
           NEW u \in Users, NEW v, v <= cart[u].version, cart'[u].version = v,
           NEW o \in Orders, Superseded(o, u, v)'
    PROVE  cart[u].version = v /\ Superseded(o, u, v)
  <1>0. Forward  BY NextForward DEF AllInv
  <1>1. cart[u].version = v
    <2>1. cart[u].version <= cart'[u].version  BY <1>0 DEF Forward, CartsForward
    <2>2. cart[u].version \in Nat /\ cart'[u].version \in Nat
      BY DEF AllInv, TypeInv, DatabaseOK, CartRows
    <2> QED  BY <2>1, <2>2
  <1>2. CASE Move
    <2>1. Held(o)'  BY DEF Superseded
    <2>2. /\ order'[o].user = order[o].user /\ order'[o].version = order[o].version
          /\ Held(o) \/ Outgrown(o)
      BY <1>2, <2>1, HeldBefore DEF AllInv
    <2>3. ~Outgrown(o)
      BY <1>0, <2>2, OutgrownStays DEF Superseded, AllInv, CheckoutInv
    <2> QED  BY <1>1, <2>2, <2>3 DEF Superseded
  <1>3. ASSUME NEW w \in Workers, NEW q \in Orders, CreateOrder(w, q)
        PROVE  Superseded(o, u, v)
    <2>1. CASE q = o
      BY <1>1, <1>3, <2>1, CreatedOrder DEF Superseded, AllInv
    <2>2. CASE q # o
      <3>1. /\ order'[o] = order[o] /\ reservation'[o] = reservation[o]
            /\ UNCHANGED <<customer, intent>>
        BY <1>3, <2>2, CreatedOrder DEF AllInv
      <3> QED  BY <3>1 DEF Superseded, Held, OpenOrders, Outgrown, Mismatched
    <2> QED  BY <2>1, <2>2
  <1> QED  BY <1>1, <1>2, <1>3, NextMoves DEF AllInv

\* The buyer of a checkout on its way.
LEMMA PreparingBuyer ==
    ASSUME TypeInv, NEW w \in Workers, Preparing(work[w])
    PROVE  work[w].user \in Users /\ work[w].version \in Nat
  BY RecordType DEF Preparing, Sound, ForBuyer, WorkRecords

\* An order keeps its buyer.
LEMMA BuyerKept ==
    ASSUME AllInv, [Next]_vars, NEW o \in Orders, order[o].status # "NONE"
    PROVE  order'[o].status # "NONE" /\ order'[o].user = order[o].user
  <1>1. Move => LinesKept  BY DEF Move, Still, EditPrice, LinesKept
  <1>2. ASSUME NEW w \in Workers, NEW q \in Orders, CreateOrder(w, q)
        PROVE  order'[o] = order[o]
    BY <1>2, CreatedOrder DEF AllInv
  <1> QED  BY <1>1, <1>2, NextMoves DEF AllInv, LinesKept

\* A handler that does not move knows no less.
LEMMA HandlerStays ==
    ASSUME AllInv, TypeInv', [Next]_vars, NEW w \in Workers, work'[w] = work[w]
    PROVE  HandlerOK(work[w])'
  <1> DEFINE r == work[w]
  <1>0. Forward /\ HandlerOK(r)  BY NextForward DEF AllInv, CheckoutInv, HandlersOK
  <1>1. ASSUME Preparing(r) PROVE PreparedOK(work[w])'
    <2>1. r.user \in Users /\ r.version \in Nat  BY <1>1, PreparingBuyer DEF AllInv
    <2>2. cart[r.user].version \in Nat /\ cart'[r.user].version \in Nat
          /\ cart[r.user].version <= cart'[r.user].version
      BY <1>0, <2>1 DEF AllInv, TypeInv, DatabaseOK, CartRows, Forward, CartsForward
    <2>3. PreparedOK(r)  BY <1>0, <1>1 DEF HandlerOK
    <2>4. r.version <= cart[r.user].version  BY <2>3 DEF PreparedOK
    <2>5. ASSUME r.pc \notin {"renew", "reread", "list"}, cart'[r.user].version = r.version,
                 NEW o \in Orders, Superseded(o, r.user, r.version)'
          PROVE  Pending(r, o)
      <3>1. Superseded(o, work[w].user, work[w].version)'
        BY <2>5
      <3>2. ASSUME NEW u \in Users, NEW v, u = r.user, v = r.version
            PROVE  cart[u].version = v /\ Superseded(o, u, v)
        <4>1. Superseded(o, u, v)'  BY <2>5, <3>2 DEF Superseded
        <4> QED  BY <2>4, <2>5, <3>2, <4>1, SupersededBefore
      <3> QED  BY <2>1, <2>3, <2>5, <3>2 DEF PreparedOK
    <2>6. r.version <= cart'[r.user].version  BY <2>1, <2>2, <2>4
    <2> QED  BY <2>5, <2>6 DEF PreparedOK, Superseded, Pending
  <1>2. ASSUME KnowsIntent(r) PROVE intent'[r.order].status # "none"
    <2>1. r.order \in Orders
      BY <1>2, WorkedOnOrder DEF KnowsIntent, OrderSteps, AllInv
    <2> QED  BY <1>0, <1>2, <2>1 DEF HandlerOK, Forward, IntentsForward
  <1>3. r.pc = "cart" => r.job = "resume"  BY <1>0 DEF HandlerOK
  <1>4. CustomerOK(work[w])'
    <2>1. CASE r.pc \in {"park", "cart", "retrieve"}
      <3>1. r.order \in Orders /\ order[r.order].status # "NONE" /\ r.customer \in Nat
        BY <2>1, WorkedOnOrder, RecordType DEF OrderSteps, AllInv, Placed, WorkRecords
      <3>2. order'[r.order].user = order[r.order].user /\ order[r.order].user \in Users
        BY <3>1, BuyerKept DEF AllInv, TypeInv, DatabaseOK
      <3>3. Outgrown(r.order) => Outgrown(r.order)'
        BY <1>0, <3>1, <3>2, OutgrownStays DEF AllInv, CheckoutInv
      <3>4. KnowsIntent(r) => intent'[r.order].customer = intent[r.order].customer
        BY <1>0, <3>1 DEF HandlerOK, Forward, IntentsForward
      <3>5. /\ customer[order[r.order].user] \in Nat
            /\ customer'[order[r.order].user] \in Nat
            /\ customer[order[r.order].user] <= customer'[order[r.order].user]
        BY <1>0, <3>2 DEF AllInv, TypeInv, DatabaseOK, Forward, CustomersForward
      <3>6. ASSUME r.pc \in {"cart", "retrieve"}, KnowsIntent(r), r.job = "resume"
            PROVE  /\ intent'[r.order].customer <= r.customer
                   /\ r.customer <= customer'[order'[r.order].user]
        <4>1. /\ intent[r.order].customer <= r.customer
              /\ r.customer <= customer[order[r.order].user]
          BY <1>0, <3>6 DEF HandlerOK, CustomerOK
        <4> QED  BY <3>1, <3>2, <3>4, <3>5, <3>6, <4>1
      <3>7. r.pc = "park" => Outgrown(r.order)'
        BY <1>0, <3>3 DEF HandlerOK, CustomerOK
      <3> QED  BY <3>6, <3>7 DEF CustomerOK, KnowsIntent, Outgrown, Mismatched
    <2>2. CASE r.pc \notin {"park", "cart", "retrieve"}
      BY <2>2 DEF CustomerOK
    <2> QED  BY <2>1, <2>2
  <1> QED  BY <1>1, <1>2, <1>3, <1>4 DEF HandlerOK, Preparing, KnowsIntent

(***************************************************************************)
(* The handler that moves.                                                 *)
(***************************************************************************)
LEMMA OneHandler ==
    ASSUME AllInv, TypeInv', [Next]_vars, NEW w \in Workers, NEW record, Become(w, record),
           HandlerOK(work[w])'
    PROVE  HandlersOK'
  <1>1. \A v \in Workers : v # w => work'[v] = work[v]
    BY DEF Become, AllInv, TypeInv, WorkOK
  <1> QED  BY <1>1, HandlerStays DEF HandlersOK

\* It is no checkout on its way, and knows an intent there is or none.
LEMMA LeavesPreparing ==
    ASSUME AllInv, TypeInv', [Next]_vars, NEW w \in Workers, NEW record, Become(w, record),
           ~Preparing(record), KnowsIntent(record) => intent'[record.order].status # "none",
           record.pc \notin {"park", "cart"}, record.pc = "retrieve" => record.job = "monitor"
    PROVE  HandlersOK'
  <1>1. work'[w] = record  BY DEF Become, AllInv, TypeInv, WorkOK
  <1>2. HandlerOK(work[w])'  BY <1>1 DEF HandlerOK, CustomerOK, Preparing, KnowsIntent
  <1> QED  BY <1>2, OneHandler

\* It is a resume, and has read the buyer's customer.
LEMMA ResumeReads ==
    ASSUME AllInv, TypeInv', [Next]_vars, NEW w \in Workers, NEW record, Become(w, record),
           record.pc \in {"cart", "retrieve"}, record.job = "resume",
           KnowsIntent(record) =>
              /\ intent'[record.order].status # "none"
              /\ intent'[record.order].customer <= record.customer
              /\ record.customer <= customer'[order'[record.order].user]
    PROVE  HandlersOK'
  <1>1. work'[w] = record  BY DEF Become, AllInv, TypeInv, WorkOK
  <1>2. HandlerOK(work[w])'  BY <1>1 DEF HandlerOK, CustomerOK, Preparing, KnowsIntent
  <1> QED  BY <1>2, OneHandler

\* It is going to park an order its buyer has outgrown.
LEMMA GoesToPark ==
    ASSUME AllInv, TypeInv', [Next]_vars, NEW w \in Workers, work[w].order \in Orders,
           Outgrown(work[w].order), UNCHANGED <<database, provider>>,
           Become(w, [work[w] EXCEPT !.pc = "park"])
    PROVE  HandlersOK'
  <1> DEFINE record == [work[w] EXCEPT !.pc = "park"]
  <1>1. record.pc = "park" /\ record.order = work[w].order
    BY RecordType DEF AllInv, WorkRecords
  <1>2. work'[w] = record  BY DEF Become, AllInv, TypeInv, WorkOK
  <1> HIDE DEF record
  <1>3. Outgrown(work[w].order)'
    BY <1>1, <1>2 DEF Outgrown, Mismatched, database, provider
  <1>4. HandlerOK(work[w])'
    BY <1>1, <1>2, <1>3 DEF HandlerOK, CustomerOK, Preparing, KnowsIntent
  <1> QED  BY <1>4, OneHandler

LEMMA HandlerFinishes ==
    ASSUME AllInv, TypeInv', [Next]_vars, NEW w \in Workers, Finish(w)
    PROVE  HandlersOK'
  BY LeavesPreparing DEF Finish, Idle, Preparing, KnowsIntent

\* Steps at which a checkout has not listed anything.
Unlisted == {"renew", "reread", "list"}

LEMMA StillUnlisted ==
    ASSUME AllInv, TypeInv', [Next]_vars, NEW w \in Workers, NEW record, Become(w, record),
           record.pc \in Unlisted, record.version <= cart'[record.user].version
    PROVE  HandlersOK'
  <1>1. work'[w] = record  BY DEF Become, AllInv, TypeInv, WorkOK
  <1>2. HandlerOK(work[w])'
    BY <1>1 DEF HandlerOK, CustomerOK, Preparing, KnowsIntent, PreparedOK, Unlisted
  <1> QED  BY <1>2, OneHandler

\* It goes through its list: what it drops of it is open no more.
LEMMA GoesThroughList ==
    ASSUME AllInv, TypeInv', [Next]_vars, NEW w \in Workers, NEW record, Become(w, record),
           Preparing(work[w]), work[w].pc \notin Unlisted,
           record.pc \in {"create", "cancel", "cancelStripe", "cancelLocal"},
           record.user = work[w].user, record.version = work[w].version,
           \A o \in Orders : Pending(work[w], o) /\ Held(o)' => Pending(record, o)
    PROVE  HandlersOK'
  <1> DEFINE r == work[w]
  <1>1. work'[w] = record  BY DEF Become, AllInv, TypeInv, WorkOK
  <1>2. r.user \in Users /\ r.version \in Nat  BY PreparingBuyer DEF AllInv
  <1>3. PreparedOK(r)  BY DEF AllInv, CheckoutInv, HandlersOK, HandlerOK
  <1>4. r.version <= cart[r.user].version /\ r.version <= cart'[r.user].version
    <2>1. r.version <= cart[r.user].version  BY <1>3 DEF PreparedOK
    <2>2. cart[r.user].version <= cart'[r.user].version
      BY <1>2, NextForward DEF AllInv, Forward, CartsForward
    <2>3. cart[r.user].version \in Nat /\ cart'[r.user].version \in Nat
      BY <1>2 DEF AllInv, TypeInv, DatabaseOK, CartRows
    <2> QED  BY <1>2, <2>1, <2>2, <2>3
  <1>5. ASSUME NEW u \in Users, NEW v, u = r.user, v = r.version, cart'[u].version = v,
               NEW o \in Orders, Superseded(o, u, v)'
        PROVE  Pending(record, o)
    <2>1. cart[u].version = v /\ Superseded(o, u, v)
      BY <1>4, <1>5, SupersededBefore
    <2>2. Pending(r, o)  BY <1>3, <1>5, <2>1 DEF PreparedOK, Unlisted
    <2> QED  BY <1>5, <2>2 DEF Superseded
  <1>6. HandlerOK(work[w])'
    <2>1. PreparedOK(work[w])'
      BY <1>1, <1>2, <1>4, <1>5 DEF PreparedOK, Superseded, Pending
    <2> QED  BY <1>1, <2>1 DEF HandlerOK, CustomerOK, KnowsIntent
  <1> QED  BY <1>6, OneHandler

\* The loop over the orders to cancel, whose current one is closed now.
LEMMA LoopGoesOn ==
    ASSUME AllInv, TypeInv', [Next]_vars, NEW w \in Workers, NEW refused,
           AfterCancel(w, refused), At(w, "cancelLocal"),
           \A o \in Orders : o = work[w].order => ~Held(o)'
    PROVE  HandlersOK'
  <1> DEFINE r == work[w]
             again == [r EXCEPT !.pc = "cancel", !.refused = refused]
             create == [r EXCEPT !.pc = "create", !.order = None, !.seen = Idle.seen]
  <1>0. r \in WorkRecords  BY RecordType DEF AllInv
  <1>1. /\ again.pc = "cancel" /\ again.job = r.job /\ again.user = r.user
        /\ again.version = r.version /\ again.todo = r.todo
    BY <1>0 DEF WorkRecords
  <1>2. /\ create.pc = "create" /\ create.job = r.job /\ create.user = r.user
        /\ create.version = r.version /\ create.todo = r.todo
    BY <1>0 DEF WorkRecords
  <1>3. \/ r.todo # {} /\ Become(w, again)
        \/ r.todo = {} /\ r.job = "checkout" /\ Become(w, create)
        \/ Finish(w)
    BY DEF AfterCancel, Finish
  <1>4. Preparing(r) <=> r.job = "checkout"  BY DEF At, Preparing
  <1>5. \A o \in Orders : Pending(r, o) /\ Held(o)' => \E old \in r.todo : old.order = o
    BY DEF Pending
  <1> HIDE DEF again, create
  <1>6. CASE r.todo # {} /\ Become(w, again)
    <2>1. CASE r.job = "checkout"
      <3>1. \A o \in Orders : Pending(r, o) /\ Held(o)' => Pending(again, o)
        BY <1>1, <1>5 DEF Pending
      <3> QED  BY <1>1, <1>4, <1>6, <2>1, <3>1, GoesThroughList DEF At, Unlisted
    <2>2. CASE r.job # "checkout"
      BY <1>1, <1>6, <2>2, LeavesPreparing DEF Preparing, KnowsIntent
    <2> QED  BY <2>1, <2>2
  <1>7. CASE r.todo = {} /\ r.job = "checkout" /\ Become(w, create)
    <2>1. \A o \in Orders : Pending(r, o) /\ Held(o)' => Pending(create, o)
      BY <1>5, <1>7
    <2> QED  BY <1>2, <1>4, <1>7, <2>1, GoesThroughList DEF At, Unlisted
  <1> QED  BY <1>3, <1>6, <1>7, HandlerFinishes

LEMMA StartPrepares ==
    ASSUME AllInv, TypeInv', [Next]_vars, NEW w \in Workers, HandlerStart(w) \/ Fail(w)
    PROVE  HandlersOK'
  <1>0. UNCHANGED <<database, provider>>
    BY DEF HandlerStart, Fail, BeginCheckout, RepeatCheckout, BeginResume, BeginMonitor,
           BeginExpiry
  <1>1. ASSUME NEW u \in Users, NEW tab \in Tabs, BeginCheckout(w, u, tab) PROVE HandlersOK'
    <2>1. PICK lines \in [cart[u].items -> Prices] :
            Become(w, [Idle EXCEPT
                !.pc = IF lines = CartLines(u) THEN "renew" ELSE "outdated",
                !.job = "checkout", !.user = u, !.key = ClientKey(tab, u, lines),
                !.version = cart[u].version, !.lines = lines])
      BY <1>1 DEF BeginCheckout
    <2> DEFINE record == [Idle EXCEPT
                !.pc = IF lines = CartLines(u) THEN "renew" ELSE "outdated",
                !.job = "checkout", !.user = u, !.key = ClientKey(tab, u, lines),
                !.version = cart[u].version, !.lines = lines]
    <2>2. /\ record.pc \in {"renew", "outdated"} /\ record.user = u
          /\ record.version = cart[u].version
      BY DEF Idle
    <2>3. cart' = cart /\ cart[u].version <= cart[u].version
      BY <1>0 DEF database, AllInv, TypeInv, DatabaseOK, CartRows
    <2>4. Become(w, record)  BY <2>1
    <2> HIDE DEF record
    <2>5. CASE record.pc = "renew"
      BY <2>2, <2>3, <2>4, <2>5, StillUnlisted DEF Unlisted
    <2>6. CASE record.pc = "outdated"
      BY <2>4, <2>6, LeavesPreparing DEF Preparing, KnowsIntent
    <2> QED  BY <2>2, <2>5, <2>6
  <1>2. ASSUME NEW o \in Orders, RepeatCheckout(w, o) PROVE HandlersOK'
    BY <1>2, LeavesPreparing DEF RepeatCheckout, Idle, Preparing, KnowsIntent
  <1>3. ASSUME NEW o \in Orders, BeginResume(w, o) PROVE HandlersOK'
    <2> DEFINE c == [Reading(Idle, o) EXCEPT !.job = "resume", !.user = order[o].user,
                                             !.status = order[o].status,
                                             !.customer = customer[order[o].user]]
               gone == [c EXCEPT !.pc = "cancel", !.reason = "EXPIRED", !.todo = Fetched({o})]
               open == [c EXCEPT !.pc = "cart"]
    <2>1. /\ gone.pc = "cancel" /\ gone.job = "resume"
          /\ open.pc = "cart" /\ open.job = "resume" /\ open.order = o
          /\ open.linked = payment[o].linked /\ open.customer = customer[order[o].user]
      BY DEF Reading, Idle
    <2>2. Become(w, gone) \/ Become(w, open)  BY <1>3 DEF BeginResume
    <2>3. customer[order[o].user] \in Nat
      <3>1. order[o].user \in Users
        BY <1>3, OpenArePlaced DEF BeginResume, Placed, AllInv, TypeInv, DatabaseOK
      <3> QED  BY <3>1 DEF AllInv, TypeInv, DatabaseOK
    <2>4. payment[o].linked =>
             /\ intent'[o].status # "none"
             /\ intent'[o].customer <= customer[order[o].user]
             /\ customer[order[o].user] <= customer'[order'[o].user]
      BY <1>0, <2>3 DEF provider, database, AllInv, CheckoutInv, IntentsBelong
    <2> HIDE DEF gone, open
    <2>5. CASE Become(w, gone)
      BY <2>1, <2>5, LeavesPreparing DEF Preparing, KnowsIntent
    <2>6. CASE Become(w, open)
      BY <2>1, <2>4, <2>6, ResumeReads DEF KnowsIntent
    <2> QED  BY <2>2, <2>5, <2>6
  <1>4. ASSUME NEW o \in Orders, BeginMonitor(w, o) PROVE HandlersOK'
    <2> DEFINE record == [Reading(Idle, o) EXCEPT !.pc = "retrieve", !.job = "monitor"]
    <2>1. record.pc = "retrieve" /\ record.order = o /\ record.job = "monitor"
      BY DEF Reading, Idle
    <2>2. Become(w, record) /\ payment[o].linked  BY <1>4 DEF BeginMonitor
    <2>3. intent'[o].status # "none"
      BY <1>0, <2>2 DEF provider, AllInv, CheckoutInv, IntentsBelong
    <2> HIDE DEF record
    <2> QED  BY <2>1, <2>2, <2>3, LeavesPreparing DEF Preparing, KnowsIntent
  <1>5. CASE BeginExpiry(w)
    BY <1>5, LeavesPreparing DEF BeginExpiry, Idle, Preparing, KnowsIntent
  <1>6. CASE Fail(w)
    <2>1. CASE work[w].job = "expiry" /\ Become(w, [work[w] EXCEPT !.pc = "cancel"])
      <3> DEFINE record == [work[w] EXCEPT !.pc = "cancel"]
      <3>1. record.pc = "cancel" /\ record.job = "expiry"
        BY <2>1, RecordType DEF AllInv, WorkRecords
      <3>2. Become(w, record)  BY <2>1
      <3> HIDE DEF record
      <3> QED  BY <3>1, <3>2, LeavesPreparing DEF Preparing, KnowsIntent
    <2> QED  BY <1>6, <2>1, HandlerFinishes DEF Fail
  <1> QED  BY <1>1, <1>2, <1>3, <1>4, <1>5, <1>6 DEF HandlerStart

LEMMA CheckoutPrepares ==
    ASSUME AllInv, TypeInv', [Next]_vars, NEW w \in Workers,
           \/ RenewCanceledCheckoutSnapshot(w) \/ RereadCart(w) \/ ListSuperseded(w)
           \/ ReuseOrder(w) \/ \E o \in Orders : CreateOrder(w, o)
    PROVE  HandlersOK'
  <1> DEFINE r == work[w]
             u == r.user
  <1>0. r \in WorkRecords  BY RecordType DEF AllInv
  <1>1. CASE RenewCanceledCheckoutSnapshot(w)
    <2> DEFINE renewed == [r EXCEPT !.pc = "reread", !.version = @ + 1,
                                    !.key.scope = r.version + 1]
               kept == [r EXCEPT !.pc = "list"]
    <2>1. /\ renewed.pc = "reread" /\ renewed.user = u /\ renewed.version = r.version + 1
          /\ kept.pc = "list" /\ kept.user = u /\ kept.version = r.version
      BY <1>0 DEF WorkRecords
    <2>2. Preparing(r)  BY <1>1 DEF RenewCanceledCheckoutSnapshot, At, Preparing
    <2>3. u \in Users /\ r.version <= cart[u].version /\ cart[u].version \in Nat
          /\ cart'[u].version \in Nat
      BY <2>2, PreparingBuyer DEF AllInv, CheckoutInv, HandlersOK, HandlerOK, PreparedOK,
                                  TypeInv, DatabaseOK, CartRows
    <2>4. \/ /\ Become(w, renewed) /\ cart[u].version = r.version
             /\ cart' = [cart EXCEPT ![u].version = @ + 1]
          \/ Become(w, kept) /\ cart' = cart
      BY <1>1 DEF RenewCanceledCheckoutSnapshot, BumpIf
    <2> HIDE DEF renewed, kept
    <2>5. CASE /\ Become(w, renewed) /\ cart[u].version = r.version
               /\ cart' = [cart EXCEPT ![u].version = @ + 1]
      <3>1. cart'[u].version = r.version + 1
        BY <2>3, <2>5 DEF AllInv, TypeInv, DatabaseOK, CartRows
      <3>2. renewed.version <= cart'[renewed.user].version
        BY <2>1, <2>3, <2>5, <3>1
      <3> QED  BY <2>1, <2>5, <3>2, StillUnlisted DEF Unlisted
    <2>6. CASE Become(w, kept) /\ cart' = cart
      <3>1. kept.version <= cart'[kept.user].version  BY <2>1, <2>3, <2>6
      <3> QED  BY <2>1, <2>6, <3>1, StillUnlisted DEF Unlisted
    <2> QED  BY <2>4, <2>5, <2>6
  <1>2. CASE RereadCart(w)
    <2> DEFINE next == IF cart[u].version = r.version THEN "list" ELSE "outdated"
               record == [r EXCEPT !.pc = next, !.lines = CartLines(u)]
    <2>1. /\ record.pc \in {"list", "outdated"}
          /\ record.user = u /\ record.version = r.version
      BY <1>0 DEF WorkRecords
    <2>2. Become(w, record) /\ cart' = cart  BY <1>2 DEF RereadCart, database
    <2>3. r.version <= cart[u].version
      BY <1>2 DEF RereadCart, At, Preparing, AllInv, CheckoutInv, HandlersOK, HandlerOK, PreparedOK
    <2>4. record.version <= cart'[record.user].version
      <3> HIDE DEF record
      <3> QED  BY <2>1, <2>2, <2>3
    <2> HIDE DEF record
    <2>5. CASE record.pc = "list"
      BY <2>2, <2>4, <2>5, StillUnlisted DEF Unlisted
    <2>6. CASE record.pc = "outdated"
      BY <2>2, <2>6, LeavesPreparing DEF Preparing, KnowsIntent
    <2> QED  BY <2>1, <2>5, <2>6
  <1>3. CASE ListSuperseded(w)
    <2> DEFINE obsolete == {o \in OpenOrders :
            order[o].user = u /\ ~(order[o].version = r.version /\ order[o].lines = r.lines)}
               none == [r EXCEPT !.pc = "create"]
               some == [r EXCEPT !.pc = "cancel", !.todo = Fetched(obsolete)]
    <2>1. /\ none.pc = "create" /\ none.user = u /\ none.version = r.version
          /\ some.pc = "cancel" /\ some.user = u /\ some.version = r.version
          /\ some.todo = Fetched(obsolete)
      BY <1>0 DEF WorkRecords
    <2>2. \/ obsolete = {} /\ Become(w, none)
          \/ Become(w, some)
      BY <1>3 DEF ListSuperseded
    <2>3. UNCHANGED <<database, provider>>  BY <1>3 DEF ListSuperseded
    <2>4. r.version <= cart[u].version
      BY <1>3 DEF ListSuperseded, At, Preparing, AllInv, CheckoutInv, HandlersOK, HandlerOK,
                  PreparedOK
    <2>5. \A o \in Orders : Superseded(o, u, r.version) => o \in obsolete
      BY DEF Superseded, Held
    <2> HIDE DEF obsolete, none, some
    <2>6. ASSUME NEW o \in obsolete PROVE \E old \in Fetched(obsolete) : old.order = o
      <3> DEFINE row == [order |-> o, linked |-> payment[o].linked]
      <3>1. row \in Fetched(obsolete)  BY DEF Fetched
      <3>2. row.order = o  OBVIOUS
      <3> QED  BY <3>1, <3>2
    <2>7. ASSUME NEW record, Become(w, record), record.pc \in {"create", "cancel"},
                 record.user = u, record.version = r.version,
                 \A o \in obsolete : Pending(record, o)
          PROVE  HandlersOK'
      <3>1. work'[w] = record  BY <2>7 DEF Become, AllInv, TypeInv, WorkOK
      <3>2. ASSUME NEW o \in Orders, NEW x, NEW v, x = u, v = r.version, Superseded(o, x, v)'
            PROVE  Pending(record, o)
        <4>1. Superseded(o, x, v)
          BY <2>3, <3>2 DEF Superseded, Held, OpenOrders, Outgrown, Mismatched, database, provider
        <4> QED  BY <2>5, <2>7, <3>2, <4>1
      <3>3. cart' = cart  BY <2>3 DEF database
      <3>4. PreparedOK(work[w])'
        BY <2>4, <2>7, <3>1, <3>2, <3>3 DEF PreparedOK, Superseded, Pending
      <3>5. HandlerOK(work[w])'  BY <2>7, <3>1, <3>4 DEF HandlerOK, CustomerOK, KnowsIntent
      <3> QED  BY <2>7, <3>5, OneHandler
    <2>8. CASE obsolete = {} /\ Become(w, none)
      BY <2>1, <2>7, <2>8
    <2>9. CASE Become(w, some)
      <3>1. \A o \in obsolete : Pending(some, o)  BY <2>1, <2>6 DEF Pending
      <3> QED  BY <2>1, <2>7, <2>9, <3>1
    <2> QED  BY <2>2, <2>8, <2>9
  <1>4. CASE ReuseOrder(w)
    <2>1. PICK o \in Placed :
            Become(w, [Reading(Idle, o) EXCEPT !.pc = "intent", !.job = "checkout"])
      BY <1>4 DEF ReuseOrder
    <2> DEFINE record == [Reading(Idle, o) EXCEPT !.pc = "intent", !.job = "checkout"]
    <2>2. record.pc = "intent" /\ record.order = o /\ record.linked = payment[o].linked
      BY DEF Reading, Idle
    <2>3. UNCHANGED intent  BY <1>4 DEF ReuseOrder, provider
    <2>4. payment[o].linked => intent[o].status # "none"
      BY DEF Placed, AllInv, CheckoutInv, IntentsBelong
    <2>5. Become(w, record)  BY <2>1
    <2> HIDE DEF record
    <2> QED  BY <2>2, <2>3, <2>4, <2>5, LeavesPreparing DEF Preparing, KnowsIntent
  <1>5. ASSUME NEW o \in Orders, CreateOrder(w, o) PROVE HandlersOK'
    BY <1>5, LeavesPreparing DEF CreateOrder, Idle, Preparing, KnowsIntent
  <1> QED  BY <1>1, <1>2, <1>3, <1>4, <1>5

\* Steps around the intent of an order, of every handler.
LEMMA IntentStepPrepares ==
    ASSUME AllInv, TypeInv', [Next]_vars, NEW w \in Workers,
           \/ CreateOrRetrieveIntent(w) \/ LinkIntent(w) \/ Reconcile(w) \/ Settle(w)
           \/ MarkOrderForReview(w)
           \/ CheckCart(w) \/ RetrieveIntent(w) \/ ReloadOrder(w) \/ Reopen(w)
    PROVE  HandlersOK'
  <1> DEFINE r == work[w]
             o == r.order
  <1>0. r \in WorkRecords /\ HandlerOK(r)
    BY RecordType DEF AllInv, CheckoutInv, HandlersOK
  <1>1. CASE Finish(w)
    BY <1>1, HandlerFinishes
  <1>2. ASSUME NEW record, Become(w, record),
               record.pc \in {"reconcile", "settle", "reload", "reopen"}
        PROVE  HandlersOK'
    BY <1>2, LeavesPreparing DEF Preparing, KnowsIntent
  <1>3. CASE CreateOrRetrieveIntent(w)
    <2> DEFINE known  == [r EXCEPT !.pc = "link", !.seen = [status |-> intent[o].status,
                                                            charge |-> intent[o].charge]]
               asked  == [r EXCEPT !.pc = "link", !.seen = [status |-> "requires_payment_method",
                                                            charge |-> 0]]
    <2>1. known.pc = "link" /\ known.order = o /\ asked.pc = "link" /\ asked.order = o
      BY <1>0 DEF WorkRecords
    <2>2. o \in Orders
      BY <1>3, WorkedOnOrder DEF CreateOrRetrieveIntent, At, OrderSteps, AllInv
    <2>3. \/ r.linked /\ Become(w, known) /\ UNCHANGED intent
          \/ /\ r.linked /\ Mismatched(o) /\ UNCHANGED <<database, provider>>
             /\ Become(w, [work[w] EXCEPT !.pc = "park"])
          \/ /\ Become(w, asked)
             /\ intent' = IF intent[o].status # "none" THEN intent ELSE
                    [intent EXCEPT ![o].status = "requires_payment_method",
                                   ![o].customer = customer[order[o].user]]
      BY <1>3 DEF CreateOrRetrieveIntent, provider
    <2>4. r.linked => intent[o].status # "none"
      BY <1>0, <1>3 DEF CreateOrRetrieveIntent, At, HandlerOK, KnowsIntent
    <2>5. intent'[o].status # "none"
      <3>1. UNCHANGED provider => UNCHANGED intent  BY DEF provider
      <3> HIDE DEF o, known, asked
      <3> QED  BY <2>2, <2>3, <2>4, <3>1 DEF AllInv, TypeInv, ProviderOK, Intents
    <2>6. CASE /\ r.linked /\ Mismatched(o) /\ UNCHANGED <<database, provider>>
               /\ Become(w, [work[w] EXCEPT !.pc = "park"])
      BY <2>2, <2>4, <2>6, GoesToPark DEF Outgrown
    <2> HIDE DEF known, asked
    <2>7. CASE Become(w, known) \/ Become(w, asked)
      BY <2>1, <2>5, <2>7, LeavesPreparing DEF Preparing
    <2> QED  BY <2>3, <2>6, <2>7
  <1>4. CASE LinkIntent(w)
    <2> DEFINE record == [r EXCEPT !.pc = "reconcile"]
    <2>1. record.pc = "reconcile"  BY <1>0 DEF WorkRecords
    <2>2. Become(w, record)  BY <1>4 DEF LinkIntent
    <2> HIDE DEF record
    <2> QED  BY <1>2, <2>1, <2>2
  <1>5. CASE Reconcile(w) /\ ~Finish(w)
    <2>1. \/ Become(w, [r EXCEPT !.pc = "settle"])
          \/ Become(w, [r EXCEPT !.pc = "reopen"])
          \/ Become(w, [r EXCEPT !.pc = "reload"])
      BY <1>5 DEF Reconcile, Respond
    <2>2. \A pc : [r EXCEPT !.pc = pc].pc = pc  BY <1>0 DEF WorkRecords
    <2> QED  BY <1>2, <2>1, <2>2
  <1>6. CASE Settle(w) \/ Reopen(w) \/ MarkOrderForReview(w)
    BY <1>1, <1>6 DEF Settle, Reopen, Respond, MarkOrderForReview
  <1>7. CASE CheckCart(w) /\ ~Finish(w)
    <2> DEFINE other == [r EXCEPT !.pc = "cancel", !.todo = {[order |-> o, linked |-> r.linked]}]
               same  == [r EXCEPT !.pc = "retrieve"]
    <2>1. /\ other.pc = "cancel" /\ other.job = r.job
          /\ same.pc = "retrieve" /\ same.order = o /\ same.job = r.job
          /\ same.customer = r.customer
      BY <1>0 DEF WorkRecords
    <2>2. Become(w, other) \/ (r.linked /\ Become(w, same))  BY <1>7 DEF CheckCart
    <2>3. UNCHANGED <<intent, customer, order>>  BY <1>7 DEF CheckCart, provider, database
    <2>4. r.pc = "cart" /\ r.job = "resume"
      BY <1>0, <1>7 DEF CheckCart, At, HandlerOK
    <2>5. r.linked => /\ intent[o].status # "none"
                      /\ r.job = "resume" => /\ intent[o].customer <= r.customer
                                             /\ r.customer <= customer[order[o].user]
      BY <1>0, <2>4 DEF HandlerOK, CustomerOK, KnowsIntent
    <2> HIDE DEF other, same, o
    <2>6. CASE Become(w, other)
      BY <2>1, <2>4, <2>6, LeavesPreparing DEF Preparing, KnowsIntent
    <2>7. CASE r.linked /\ r.job = "resume" /\ Become(w, same)
      BY <2>1, <2>3, <2>5, <2>7, ResumeReads DEF KnowsIntent
    <2> QED  BY <2>2, <2>4, <2>6, <2>7
  <1>8. CASE RetrieveIntent(w)
    <2> DEFINE gone == [r EXCEPT !.pc = "cancel", !.todo = {[order |-> o, linked |-> TRUE]}]
               read == [r EXCEPT !.pc = "reconcile", !.seen = [status |-> intent[o].status,
                                                               charge |-> intent[o].charge]]
    <2>1. gone.pc = "cancel" /\ gone.job = r.job /\ read.pc = "reconcile"
      BY <1>0 DEF WorkRecords
    <2>2. \/ /\ r.job = "resume" /\ intent[o].customer # r.customer
             /\ Become(w, [work[w] EXCEPT !.pc = "park"])
          \/ r.job = "resume" /\ Become(w, gone)
          \/ Become(w, read)
      BY <1>8 DEF RetrieveIntent
    <2>3. CASE /\ r.job = "resume" /\ intent[o].customer # r.customer
               /\ Become(w, [work[w] EXCEPT !.pc = "park"])
      <3>1. o \in Orders /\ o \in Placed /\ r.customer \in Nat
        BY <1>0, <1>8, WorkedOnOrder DEF RetrieveIntent, At, OrderSteps, AllInv, WorkRecords
      <3>2. /\ intent[o].status # "none" /\ intent[o].customer <= r.customer
            /\ r.customer <= customer[order[o].user]
        BY <1>0, <1>8, <2>3 DEF RetrieveIntent, At, HandlerOK, CustomerOK, KnowsIntent
      <3>3. intent[o].customer \in Nat /\ customer[order[o].user] \in Nat
        BY <3>1 DEF Placed, AllInv, TypeInv, ProviderOK, Intents, DatabaseOK
      <3>4. intent[o].customer # customer[order[o].user]
        <4> HIDE DEF o, r
        <4> QED  BY <2>3, <3>1, <3>2, <3>3
      <3>5. Outgrown(o)  BY <3>2, <3>4 DEF Outgrown, Mismatched
      <3> QED  BY <1>8, <2>3, <3>1, <3>5, GoesToPark DEF RetrieveIntent
    <2> HIDE DEF gone, read
    <2>4. CASE Become(w, read)
      BY <1>2, <2>1, <2>4
    <2>5. CASE r.job = "resume" /\ Become(w, gone)
      BY <2>1, <2>5, LeavesPreparing DEF Preparing, KnowsIntent
    <2> QED  BY <2>2, <2>3, <2>4, <2>5
  <1>9. CASE ReloadOrder(w)
    <2> DEFINE record == [Reading(r, o) EXCEPT !.pc = "reopen", !.status = order[o].status]
    <2>1. record.pc = "reopen"  BY <1>0 DEF WorkRecords, Reading
    <2>2. Become(w, record)  BY <1>9 DEF ReloadOrder
    <2> HIDE DEF record
    <2> QED  BY <1>2, <2>1, <2>2
  <1> QED  BY <1>1, <1>3, <1>4, <1>5, <1>6, <1>7, <1>8, <1>9

\* The cancellation loop, of a checkout and of others.
LEMMA CancelPrepares ==
    ASSUME AllInv, TypeInv', [Next]_vars, NEW w \in Workers,
           \/ \E old \in work[w].todo : CancelNext(w, old)
           \/ CancelAtProvider(w) \/ CancelLocally(w) \/ AlreadyClosed(w) \/ ProtectPayment(w)
    PROVE  HandlersOK'
  <1> DEFINE r == work[w]
  <1>0. r \in WorkRecords  BY RecordType DEF AllInv
  <1>1. ASSUME NEW old \in r.todo, CancelNext(w, old) PROVE HandlersOK'
    <2> DEFINE status == intent[old.order].status
               pc == IF ~old.linked \/ status = "canceled" THEN "cancelLocal"
                     ELSE IF status = "succeeded" THEN "protect" ELSE "cancelStripe"
               record == [r EXCEPT !.todo = @ \ {old}, !.order = old.order,
                                   !.seen.charge = intent[old.order].charge, !.pc = pc]
    <2>1. /\ record.pc = pc /\ record.job = r.job /\ record.order = old.order
          /\ record.user = r.user /\ record.version = r.version /\ record.todo = r.todo \ {old}
      BY <1>0 DEF WorkRecords
    <2>2. Become(w, record) /\ r.pc = "cancel"  BY <1>1 DEF CancelNext, At
    <2>3. pc \in {"cancelLocal", "protect", "cancelStripe"}  OBVIOUS
    <2> HIDE DEF record, pc
    <2>4. CASE pc = "protect" \/ r.job # "checkout"
      BY <2>1, <2>2, <2>3, <2>4, LeavesPreparing DEF Preparing, KnowsIntent
    <2>5. CASE pc # "protect" /\ r.job = "checkout"
      <3>1. \A o \in Orders : Pending(r, o) => Pending(record, o)
        BY <2>1, <2>2, <2>3 DEF Pending
      <3> QED
        BY <2>1, <2>2, <2>3, <2>5, <3>1, GoesThroughList DEF Preparing, Unlisted
    <2> QED  BY <2>4, <2>5
  <1>2. CASE CancelAtProvider(w)
    <2> DEFINE record == [r EXCEPT !.pc = "cancelLocal"]
    <2>1. /\ record.pc = "cancelLocal" /\ record.job = r.job /\ record.order = r.order
          /\ record.user = r.user /\ record.version = r.version /\ record.todo = r.todo
      BY <1>0 DEF WorkRecords
    <2>2. Become(w, record) /\ r.pc = "cancelStripe"  BY <1>2 DEF CancelAtProvider, At
    <2> HIDE DEF record
    <2>3. CASE r.job # "checkout"
      BY <2>1, <2>2, <2>3, LeavesPreparing DEF Preparing, KnowsIntent
    <2>4. CASE r.job = "checkout"
      <3>1. \A o \in Orders : Pending(r, o) => Pending(record, o)
        BY <2>1, <2>2 DEF Pending
      <3> QED  BY <2>1, <2>2, <2>4, <3>1, GoesThroughList DEF Preparing, Unlisted
    <2> QED  BY <2>3, <2>4
  <1>3. CASE CancelLocally(w)
    <2>1. ASSUME NEW o \in Orders, o = r.order PROVE ~Held(o)'
      <3>1. order'[o].status = "CANCELED"
        BY <1>3, <2>1 DEF CancelLocally, AllInv, TypeInv, DatabaseOK, OrderRows
      <3> QED  BY <3>1 DEF Held, OpenOrders, OPEN_ORDER_STATUSES
    <2> QED  BY <1>3, <2>1, LoopGoesOn DEF CancelLocally
  <1>4. CASE AlreadyClosed(w)
    <2>1. ASSUME NEW o \in Orders, o = r.order PROVE ~Held(o)'
      BY <1>4, <2>1 DEF AlreadyClosed, database, Held, OpenOrders
    <2> QED  BY <1>4, <2>1, LoopGoesOn DEF AlreadyClosed
  <1>5. CASE ProtectPayment(w)
    <2> DEFINE again == [r EXCEPT !.pc = "cancel", !.refused = FALSE]
    <2>1. again.pc = "cancel" /\ again.job = r.job  BY <1>0 DEF WorkRecords
    <2>2. Finish(w) \/ (r.job = "expiry" /\ Become(w, again))
      BY <1>5 DEF ProtectPayment, AfterCancel, Finish
    <2> HIDE DEF again
    <2> QED  BY <2>1, <2>2, HandlerFinishes, LeavesPreparing DEF Preparing, KnowsIntent
  <1> QED  BY <1>1, <1>2, <1>3, <1>4, <1>5

(***************************************************************************)
(* The theorem.                                                            *)
(***************************************************************************)
\* The intents keep belonging to their orders.
LEMMA NextIntentsBelong ==
    ASSUME AllInv, TypeInv', [Next]_vars
    PROVE  IntentsBelong'
  <1>0. Forward /\ Links  BY NextForward, NextParks DEF AllInv
  <1> SUFFICES ASSUME NEW o \in Orders
               PROVE  /\ order'[o].status = "NONE" => intent'[o].status = "none"
                      /\ intent'[o].status # "none" =>
                            intent'[o].customer <= customer'[order'[o].user]
                      /\ payment'[o].linked => intent'[o].status # "none"
    BY DEF IntentsBelong
  <1>1. /\ order[o].status = "NONE" => intent[o].status = "none"
        /\ intent[o].status # "none" => intent[o].customer <= customer[order[o].user]
        /\ payment[o].linked => intent[o].status # "none"
    BY DEF AllInv, CheckoutInv, IntentsBelong
  <1>2. order[o].status # "NONE" => order'[o].status # "NONE" /\ order'[o].user = order[o].user
    BY BuyerKept
  <1>3. /\ intent[o].status # "none" => /\ intent'[o].status # "none"
                                        /\ intent'[o].customer = intent[o].customer
        /\ intent[o].status = "none" /\ intent'[o].status # "none" =>
              o \in Placed /\ intent'[o].customer = customer[order[o].user]
    BY <1>0 DEF Forward, IntentsForward
  <1>4. ASSUME order[o].status # "NONE", intent'[o].status # "none"
        PROVE  intent'[o].customer <= customer'[order[o].user]
    <2>1. order[o].user \in Users  BY <1>4 DEF AllInv, TypeInv, DatabaseOK
    <2>2. customer[order[o].user] \in Nat /\ customer'[order[o].user] \in Nat
          /\ customer[order[o].user] <= customer'[order[o].user]
      BY <1>0, <2>1 DEF AllInv, TypeInv, DatabaseOK, Forward, CustomersForward
    <2>3. intent'[o].customer <= customer[order[o].user]
      BY <1>1, <1>3, <1>4, <2>2
    <2>4. intent'[o].customer \in Nat  BY DEF TypeInv, ProviderOK, Intents
    <2> QED  BY <2>2, <2>3, <2>4
  <1>5. payment'[o].linked => intent'[o].status # "none"
    BY <1>0, <1>1, <1>3 DEF Links
  <1> QED  BY <1>1, <1>2, <1>3, <1>4, <1>5 DEF Placed

\* What keeps its artworks is still unpaid, and parked only if outgrown.
LEMMA NextParked ==
    ASSUME AllInv, TypeInv', [Next]_vars
    PROVE  AllParkedOK'
  <1>0. Forward /\ Parks  BY NextForward, NextParks DEF AllInv
  <1> SUFFICES ASSUME NEW o \in Orders, reservation'[o] = "ACTIVE"
               PROVE  /\ payment'[o].status # "SUCCEEDED"
                      /\ order'[o].status = "PAYMENT_REVIEW" => Outgrown(o)'
    BY DEF AllParkedOK, ParkedOK
  <1>1. CASE Move
    <2>1. order'[o].user = order[o].user /\ reservation[o] = "ACTIVE"
      BY <1>1 DEF Move, Still, EditPrice, LinesKept, SellReserved, ReleaseReserved, AllInv,
                  TypeInv, DatabaseOK
    <2>2. ParkedOK(o)  BY DEF AllInv, CheckoutInv, AllParkedOK
    <2>3. Outgrown(o) => Outgrown(o)'
      BY <1>0, <2>1, OutgrownStays DEF AllInv, CheckoutInv
    <2> QED  BY <1>0, <2>1, <2>2, <2>3 DEF Parks, ParkedOK
  <1>2. ASSUME NEW w \in Workers, NEW q \in Orders, CreateOrder(w, q)
        PROVE  /\ payment'[o].status # "SUCCEEDED"
               /\ order'[o].status = "PAYMENT_REVIEW" => Outgrown(o)'
    <2>1. CASE o = q
      BY <1>2, <2>1, CreatedOrder DEF AllInv, NoPayment
    <2>2. CASE o # q
      <3>1. /\ order'[o] = order[o] /\ payment'[o] = payment[o]
            /\ reservation'[o] = reservation[o] /\ UNCHANGED <<customer, intent>>
        BY <1>2, <2>2, CreatedOrder DEF AllInv
      <3>2. ParkedOK(o)  BY DEF AllInv, CheckoutInv, AllParkedOK
      <3> QED  BY <3>1, <3>2 DEF ParkedOK, Outgrown, Mismatched
    <2> QED  BY <2>1, <2>2
  <1> QED  BY <1>1, <1>2, NextMoves DEF AllInv

LEMMA NextPrepared ==
    ASSUME AllInv, TypeInv', [Next]_vars
    PROVE  HandlersOK'
  <1>1. CASE UNCHANGED work
    BY <1>1, HandlerStays DEF HandlersOK
  <1>2. Environment => UNCHANGED work
    BY DEF Environment, ClearCart, ReplaceCustomer, SetCartItem, RemoveCartItem, EditPrice,
           Expire, Confirm, BankAnswers, ProviderCancels, Webhook
  <1>3. ASSUME NEW w \in Workers, HandlerStart(w) \/ HandlerStep(w) \/ Fail(w)
        PROVE  HandlersOK'
    BY <1>3, StartPrepares, CheckoutPrepares, IntentStepPrepares, CancelPrepares
       DEF HandlerStep
  <1> QED  BY <1>1, <1>2, <1>3 DEF Next, vars

LEMMA CheckoutStart == Init => CheckoutInv
  <1> SUFFICES ASSUME Init PROVE CheckoutInv
    OBVIOUS
  <1>1. IntentsBelong  BY DEF Init, IntentsBelong, NoIntent, NoOrder, NoPayment
  <1>2. AllParkedOK  BY DEF Init, AllParkedOK, ParkedOK
  <1>3. HandlersOK
    BY DEF Init, HandlersOK, HandlerOK, CustomerOK, Preparing, KnowsIntent, Idle
  <1> QED  BY <1>1, <1>2, <1>3 DEF CheckoutInv

LEMMA CheckoutStep == AllInv /\ TypeInv' /\ [Next]_vars => CheckoutInv'
  BY NextIntentsBelong, NextParked, NextPrepared DEF CheckoutInv

LEMMA AllHolds == Spec => []AllInv
  <1>1. Spec => []TypeInv  BY InitType, NextType, PTL DEF Spec
  <1>2. TypeInv /\ AllocationInv /\ FinalizationInv /\ CheckoutInv /\ TypeInv' /\ [Next]_vars
           => CheckoutInv'
    BY CheckoutStep DEF AllInv
  <1>3. Spec => []CheckoutInv
    BY <1>1, <1>2, AllocationHolds, FinalizationHolds, CheckoutStart, PTL DEF Spec
  <1>4. TypeInv /\ AllocationInv /\ FinalizationInv /\ CheckoutInv => AllInv  BY DEF AllInv
  <1> QED  BY <1>1, <1>3, <1>4, AllocationHolds, FinalizationHolds, PTL

\* An order that is created, its buyer's request having listed and canceled, has no rival.
LEMMA CreatedAlone ==
    ASSUME AllInv, NEW w \in Workers, NEW q \in Orders, CreateOrder(w, q), ~At(w, "outdated"),
           NEW o \in Orders, o # q, Held(o), order[o].user = work[w].user
    PROVE  Outgrown(o)
  <1>1. work[w].pc = "create"  BY DEF CreateOrder, Creating, At
  <1>2. PreparedOK(work[w])
    BY <1>1 DEF AllInv, CheckoutInv, HandlersOK, HandlerOK, Preparing
  <1>3. cart[work[w].user].version = work[w].version  BY DEF CreateOrder
  <1>4. order[o].version # work[w].version
    <2>1. o \in Placed  BY OpenArePlaced DEF Held
    <2> QED  BY <2>1 DEF CreateOrder, OrdersAt
  <1> QED  BY <1>1, <1>2, <1>3, <1>4 DEF PreparedOK, Superseded, Pending

\* The checkouts of one buyer never hold artworks side by side, whatever happens between
\* the list of superseded orders and the creation of the next (cancelSupersededCheckouts,
\* createPendingCheckout), but for outdated pages and replaced customers.
THEOREM CheckoutsSupersede == Spec => SingleActiveCheckout
  <1> DEFINE Alone ==
         \A o1, o2 \in Orders : Rivals(o1, o2)' =>
            \/ Rivals(o1, o2)
            \/ Outgrown(o1)' \/ Outgrown(o2)'
            \/ \E w \in Workers, o \in {o1, o2} : At(w, "outdated") /\ CreateOrder(w, o)
  <1>1. AllInv /\ TypeInv' /\ [Next]_vars => Alone
    <2> SUFFICES ASSUME AllInv, TypeInv', [Next]_vars,
                        NEW o1 \in Orders, NEW o2 \in Orders, Rivals(o1, o2)',
                        ~(Outgrown(o1)' \/ Outgrown(o2)')
                 PROVE  \/ Rivals(o1, o2)
                        \/ \E w \in Workers, o \in {o1, o2} :
                               At(w, "outdated") /\ CreateOrder(w, o)
      OBVIOUS
    <2>0. Forward  BY NextForward DEF AllInv
    <2>1. /\ Held(o1)' /\ Held(o2)' /\ o1 # o2
          /\ order'[o1].user = order'[o2].user
      BY DEF Rivals, Held
    <2>2. CASE Move
      <3>1. ASSUME NEW o \in {o1, o2}
            PROVE  order'[o].user = order[o].user /\ Held(o)
        <4>1. /\ order'[o].user = order[o].user
              /\ Held(o) \/ Outgrown(o)
          BY <2>1, <2>2, HeldBefore DEF AllInv
        <4>2. Outgrown(o) => Outgrown(o)'
          BY <2>0, <4>1, OutgrownStays DEF AllInv, CheckoutInv
        <4> QED  BY <4>1, <4>2
      <3> QED  BY <2>1, <3>1 DEF Rivals, Held
    <2>3. ASSUME NEW w \in Workers, NEW q \in Orders, CreateOrder(w, q), ~At(w, "outdated")
          PROVE  Rivals(o1, o2)
      <3>1. ASSUME NEW o \in Orders, o # q
            PROVE  /\ order'[o] = order[o] /\ reservation'[o] = reservation[o]
                   /\ Outgrown(o)' <=> Outgrown(o)
                   /\ Held(o)' <=> Held(o)
        <4>1. /\ order'[o] = order[o] /\ reservation'[o] = reservation[o]
              /\ UNCHANGED <<customer, intent>>
          BY <2>3, <3>1, CreatedOrder DEF AllInv
        <4> QED  BY <4>1 DEF Outgrown, Mismatched, Held, OpenOrders
      <3>2. order'[q].user = work[w].user  BY <2>3, CreatedOrder DEF AllInv
      <3>3. o1 # q
        BY <2>1, <2>3, <3>1, <3>2, CreatedAlone
      <3>4. o2 # q
        BY <2>1, <2>3, <3>1, <3>2, CreatedAlone
      <3> QED  BY <2>1, <3>1, <3>3, <3>4 DEF Rivals, Held
    <2>4. ASSUME NEW w \in Workers, NEW q \in Orders, CreateOrder(w, q), At(w, "outdated")
          PROVE  \/ Rivals(o1, o2)
                 \/ \E v \in Workers, o \in {o1, o2} : At(v, "outdated") /\ CreateOrder(v, o)
      <3>1. CASE q \in {o1, o2}
        BY <2>4, <3>1
      <3>2. CASE q \notin {o1, o2}
        <4>1. \A o \in {o1, o2} : order'[o] = order[o] /\ reservation'[o] = reservation[o]
          BY <2>4, <3>2, CreatedOrder DEF AllInv
        <4> QED  BY <2>1, <4>1 DEF Rivals, Held, OpenOrders
      <3> QED  BY <3>1, <3>2
    <2> QED  BY <2>2, <2>3, <2>4, NextMoves DEF AllInv
  <1>2. Spec => []TypeInv  BY InitType, NextType, PTL DEF Spec
  <1> QED  BY <1>1, <1>2, AllHolds, PTL DEF Spec, SingleActiveCheckout
=============================================================================
