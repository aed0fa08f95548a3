---------------------------- MODULE PaymentStates ----------------------------
(***************************************************************************)
(* The status vocabulary of a payment and the pure rules over it:          *)
(* domain/payment-state.js (which transitions an event may make),          *)
(* domain/payment-intent-state.js (which provider statuses let a customer  *)
(* confirm again), the EVENT_TARGETS table of the payment finalization     *)
(* service and the event the monitoring service synthesises from a         *)
(* PaymentIntent it has read.  The module has no state.                    *)
(***************************************************************************)

(***************************************************************************)
(* Orders and payments: each status and the statuses it may move to.       *)
(***************************************************************************)
ORDER_TRANSITIONS ==
    [PENDING_PAYMENT    |-> {"PAYMENT_PROCESSING", "PAYMENT_FAILED",
                             "PAYMENT_REVIEW", "PAID", "CANCELED"},
     PAYMENT_PROCESSING |-> {"PAYMENT_FAILED", "PAYMENT_REVIEW", "PAID", "CANCELED"},
     PAYMENT_FAILED     |-> {"PENDING_PAYMENT", "PAYMENT_PROCESSING",
                             "PAYMENT_REVIEW", "PAID", "CANCELED"},
     PAYMENT_REVIEW     |-> {"PAYMENT_FAILED", "PAID", "CANCELED", "REFUNDED"},
     PAID               |-> {"PARTIALLY_REFUNDED", "REFUNDED"},
     PARTIALLY_REFUNDED |-> {"REFUNDED"},
     CANCELED           |-> {},
     REFUNDED           |-> {}]

PAYMENT_TRANSITIONS ==
    [PENDING            |-> {"PROCESSING", "SUCCEEDED", "FAILED", "CANCELED"},
     PROCESSING         |-> {"SUCCEEDED", "FAILED", "CANCELED"},
     FAILED             |-> {"PENDING", "PROCESSING", "SUCCEEDED", "CANCELED"},
     SUCCEEDED          |-> {"PARTIALLY_REFUNDED", "REFUNDED"},
     PARTIALLY_REFUNDED |-> {"REFUNDED"},
     CANCELED           |-> {},
     REFUNDED           |-> {}]

OrderStatuses   == DOMAIN ORDER_TRANSITIONS
PaymentStatuses == DOMAIN PAYMENT_TRANSITIONS

\* A status may always "move" to itself: that is what makes a replay harmless.
canTransitionOrder(current, next)   == next = current \/ next \in ORDER_TRANSITIONS[current]
canTransitionPayment(current, next) == next = current \/ next \in PAYMENT_TRANSITIONS[current]

\* Orders a customer may still pay, and the sweeps may still cancel.
OPEN_ORDER_STATUSES == {"PENDING_PAYMENT", "PAYMENT_PROCESSING", "PAYMENT_FAILED"}

(***************************************************************************)
(* The provider's PaymentIntent.  requires_confirmation is treated by the  *)
(* code exactly as requires_action and requires_capture exactly as         *)
(* processing, so one of each pair stands for both.                        *)
(***************************************************************************)
IntentStatuses == {"requires_payment_method", "requires_action",
                   "processing", "succeeded", "canceled"}

isPaymentIntentReusable(status) == status \in {"requires_payment_method", "requires_action"}

\* Faulty variant: the provider's vocabulary leaks into the payment row.
mapStripePaymentStatus_identity(status) == status

\* What a settled checkout writes into the payment after reading the intent.
mapStripePaymentStatus(status) ==
    LET settled == [processing |-> "PROCESSING", succeeded |-> "SUCCEEDED",
                    canceled |-> "CANCELED"]
    IN  IF status \in DOMAIN settled THEN settled[status] ELSE "PENDING"

(***************************************************************************)
(* Payment events, and the statuses each one aims at.                      *)
(***************************************************************************)
EventTypes == {"processing", "succeeded", "payment_failed", "canceled"}

EVENT_TARGETS ==
    [processing     |-> [order |-> "PAYMENT_PROCESSING", payment |-> "PROCESSING"],
     succeeded      |-> [order |-> "PAID",               payment |-> "SUCCEEDED"],
     payment_failed |-> [order |-> "PAYMENT_FAILED",     payment |-> "FAILED"],
     canceled       |-> [order |-> "CANCELED",           payment |-> "CANCELED"]]

\* Faulty variant: a payment the bank has not answered yet is taken for a capture.
eventTypeForIntent_eager(status, localStatus) ==
    IF status \in {"succeeded", "processing"} THEN "succeeded"
    ELSE IF status = "canceled" THEN status ELSE "none"

\* The event the server makes up from an intent it has read ("none": nothing to
\* reconcile).  localStatus is the payment status the caller read beforehand.
eventTypeForIntent(status, localStatus) ==
    IF status \in {"succeeded", "processing", "canceled"} THEN status
    ELSE IF status = "requires_payment_method" /\ localStatus = "PROCESSING"
         THEN "payment_failed" ELSE "none"

\* Faulty variant: any later event may replace the recorded charge.
canRotateProviderCharge_always(paymentStatus, orderStatus) == TRUE

(***************************************************************************)
(* A provider charge may replace the recorded one only while both the      *)
(* payment and its order can still be retried.                             *)
(***************************************************************************)
canRotateProviderCharge(paymentStatus, orderStatus) ==
    /\ paymentStatus \in {"PENDING", "PROCESSING", "FAILED"}
    /\ orderStatus \in OPEN_ORDER_STATUSES
=============================================================================
