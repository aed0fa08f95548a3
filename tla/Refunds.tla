-------------------------------- MODULE Refunds --------------------------------
(***************************************************************************)
(* Refunding a paid order: the administrator's requests                    *)
(* (services/refund.service.js), the provider's refunds, and the events    *)
(* that finalize them (services/refund-finalization.service.js).           *)
(*                                                                         *)
(* A request is a database transaction, a call to the provider and a       *)
(* second write; it may die, or lose the provider's answer, between any    *)
(* two.  Events arrive in any order; the ledger makes a second delivery of *)
(* the same event a no-op, so an event is taken out when it is processed.  *)
(* One order is enough: every lock, row and sum is per order.              *)
(***************************************************************************)
EXTENDS PaymentStates, Naturals, FiniteSets

CONSTANTS
    Refunds,        \* Idempotency-Keys of refund requests
    Admins,         \* requests in flight at the same time
    Total,          \* the amount the payment captured
    Nobody          \* no refund in hand

ASSUME RefundsAssumption == Total \in Nat \ {0} /\ Nobody \notin Refunds

VARIABLES
    order,          \* [status, payment, refunded]: the order, its payment, refundedAmount
    refund,         \* [Refunds -> refund row, its status "NONE" before creation]
    admin,          \* [Admins -> what the request handler is doing]
    stripeRefund,   \* [Refunds -> what the provider's refund has come to]
    refundEvents    \* events the provider has emitted and the shop not processed

refundVars == <<order, refund, admin, stripeRefund, refundEvents>>

RefundStatuses == {"PENDING", "SUCCEEDED", "FAILED"}

\* The provider calls a refund failed whether it never succeeded or came back after it had.
ProviderStates == {"none", "pending", "succeeded", "failed", "returned"}

Refundable     == {"PAID", "PARTIALLY_REFUNDED"}

RefundsTypeOK ==
    /\ order \in [status : Refundable \cup {"REFUNDED"}, refunded : 0 .. Total,
                  payment : {"SUCCEEDED", "PARTIALLY_REFUNDED", "REFUNDED"}]
    /\ refund \in [Refunds -> [status : RefundStatuses \cup {"NONE"}, amount : 0 .. Total,
                               linked : BOOLEAN]]
    /\ admin \in [Admins -> [step : {"idle", "provider", "link"},
                             refund : Refunds \cup {Nobody}]]
    /\ stripeRefund \in [Refunds -> ProviderStates]
    /\ refundEvents \in SUBSET [refund : Refunds, status : RefundStatuses]

AtRest == [step |-> "idle", refund |-> Nobody]

RefundsInit ==
    /\ order = [status |-> "PAID", payment |-> "SUCCEEDED", refunded |-> 0]
    /\ refund = [r \in Refunds |-> [status |-> "NONE", amount |-> 0, linked |-> FALSE]]
    /\ admin = [a \in Admins |-> AtRest]
    /\ stripeRefund = [r \in Refunds |-> "none"]
    /\ refundEvents = {}

\* What the refunds of a set add up to: a unit of money is a pair, of a refund and a rank
\* in its amount, so that sums are counted.
Units(S)  == {u \in Refunds \X (1 .. Total) : u[1] \in S /\ u[2] <= refund[u[1]].amount}
Amount(S) == Cardinality(Units(S))

WithStatus(S) == {r \in Refunds : refund[r].status \in S}

-----------------------------------------------------------------------------
(* The request.                                                            *)

\* Faulty variant: a refund that is still under way reserves nothing.
Balance_confirmedOnly == Total - Amount(WithStatus({"SUCCEEDED"}))

\* What may still be asked for: requests under way count as much as refunds made.
Balance == Total - Amount(WithStatus({"PENDING", "SUCCEEDED"}))

Call(a, r) == admin' = [admin EXCEPT ![a] = [step |-> "provider", refund |-> r]]

\* A new key reserves its amount, under the lock of the order.
reserveRefund(a, r, amount) ==
    /\ admin[a] = AtRest /\ refund[r].status = "NONE"
    /\ order.status \in Refundable /\ order.payment \in {"SUCCEEDED", "PARTIALLY_REFUNDED"}
    /\ amount <= Balance
    /\ refund' = [refund EXCEPT ![r] = [status |-> "PENDING", amount |-> amount,
                                        linked |-> FALSE]]
    /\ Call(a, r)
    /\ UNCHANGED <<order, stripeRefund, refundEvents>>

\* The same key again: only a refund the provider has not acknowledged is asked for again.
RepeatRequest(a, r) ==
    /\ admin[a] = AtRest /\ refund[r].status = "PENDING" /\ ~refund[r].linked
    /\ Call(a, r)
    /\ UNCHANGED <<order, refund, stripeRefund, refundEvents>>

Emit(r, status) == refundEvents' = refundEvents \cup {[refund |-> r, status |-> status]}

\* What an event asks for: refund.failed is a failure whatever the object says.
targetRefundStatus(status) ==
    [pending |-> "PENDING", succeeded |-> "SUCCEEDED", failed |-> "FAILED",
     returned |-> "FAILED"][status]

\* refunds.create under the key of the refund: a repeated call gets the first answer.
CreateAtProvider(a) ==
    /\ admin[a].step = "provider"
    /\ admin' = [admin EXCEPT ![a].step = "link"]
    /\ LET r == admin[a].refund
       IN  IF stripeRefund[r] = "none"
           THEN \E status \in {"pending", "succeeded"} :
                    /\ stripeRefund' = [stripeRefund EXCEPT ![r] = status]
                    /\ Emit(r, targetRefundStatus(status))
           ELSE UNCHANGED <<stripeRefund, refundEvents>>
    /\ UNCHANGED <<order, refund>>

\* Faulty variant: the row takes the status of the answer, old as it is by now.
LinkRefund_overwriting(a) ==
    /\ admin[a].step = "link"
    /\ refund' = [refund EXCEPT ![admin[a].refund] = [@ EXCEPT !.linked = TRUE,
                                                             !.status = "PENDING"]]
    /\ admin' = [admin EXCEPT ![a] = AtRest]
    /\ UNCHANGED <<order, stripeRefund, refundEvents>>

\* The second write does not look at what an event may have written meanwhile.
LinkRefund(a) ==
    /\ admin[a].step = "link"
    /\ refund' = [refund EXCEPT ![admin[a].refund].linked = TRUE]
    /\ admin' = [admin EXCEPT ![a] = AtRest]
    /\ UNCHANGED <<order, stripeRefund, refundEvents>>

\* The provider refuses or does not answer, or the server dies: the refund stays PENDING.
AbandonRequest(a) ==
    /\ admin[a] # AtRest
    /\ admin' = [admin EXCEPT ![a] = AtRest]
    /\ UNCHANGED <<order, refund, stripeRefund, refundEvents>>

-----------------------------------------------------------------------------
(* The provider.                                                           *)

\* The bank answers; a refund that succeeded may come back days later.
StripeSettles(r) ==
    \E after \in {"succeeded", "failed", "returned"} :
        /\ stripeRefund[r] = (IF after = "returned" THEN "succeeded" ELSE "pending")
        /\ stripeRefund' = [stripeRefund EXCEPT ![r] = after]
        /\ Emit(r, targetRefundStatus(after))
        /\ UNCHANGED <<order, refund, admin>>

-----------------------------------------------------------------------------
(* Finalization: one serializable transaction per event.                   *)

\* Faulty variant: an event never goes against the row, whatever the row says.
Outdated_never(e) == FALSE

\* A final status is never replaced by another one.
Outdated(e) == /\ refund[e.refund].status \in {"SUCCEEDED", "FAILED"}
               /\ refund[e.refund].status # e.status

Confirmed(e) == WithStatus({"SUCCEEDED"}) \cup {e.refund}

StatusAfter(e) ==
    IF Amount(Confirmed(e)) = Total THEN "REFUNDED" ELSE "PARTIALLY_REFUNDED"

Moved(allowed, current, next) == IF allowed THEN next ELSE current

applySucceededRefund(e) ==
    LET next == StatusAfter(e)
    IN  order' =
          [status   |-> Moved(canTransitionOrder(order.status, next), order.status, next),
           payment  |-> Moved(canTransitionPayment(order.payment, next), order.payment, next),
           refunded |-> Amount(Confirmed(e))]

Final == {"SUCCEEDED", "FAILED"}

applyRefundEvent(e) ==
    /\ refund' = [refund EXCEPT ![e.refund] =
                    [status |-> IF e.status \in Final /\ ~Outdated(e) THEN e.status
                                ELSE @.status,
                     amount |-> @.amount, linked |-> TRUE]]
    /\ IF e.status = "SUCCEEDED" /\ ~Outdated(e)
       THEN applySucceededRefund(e) ELSE UNCHANGED order

processStripeRefundEvent(e) ==
    /\ e \in refundEvents
    /\ refundEvents' = refundEvents \ {e}
    /\ applyRefundEvent(e)
    /\ UNCHANGED <<admin, stripeRefund>>

\* This event makes the order fully refunded, or finds it so again.
RefundsInFull(e) ==
    e.status = "SUCCEEDED" /\ ~Outdated(e) /\ StatusAfter(e) = "REFUNDED"

-----------------------------------------------------------------------------
RequestStep ==
    \E a \in Admins :
        \/ \E r \in Refunds : RepeatRequest(a, r) \/ \E m \in 1 .. Total : reserveRefund(a, r, m)
        \/ CreateAtProvider(a) \/ LinkRefund(a) \/ AbandonRequest(a)

RefundsNext ==
    \/ RequestStep
    \/ \E r \in Refunds : StripeSettles(r)
    \/ \E e \in refundEvents : processStripeRefundEvent(e)

RefundsSpec == RefundsInit /\ [][RefundsNext]_refundVars

-----------------------------------------------------------------------------
(* Properties.                                                             *)

\* Concurrent requests, lost answers and repeated keys never ask the provider for more
\* than was captured, even if the provider did not check (reserveRefund: refunds under
\* way hold their amount, and the key of a repeated call is the same).
NeverOverRefunded ==
    Amount({r \in Refunds : stripeRefund[r] \in {"pending", "succeeded"}}) <= Total

\* Order, payment and refundedAmount say the same thing as the confirmed refunds,
\* whatever the order of the events that confirm them (applySucceededRefund).
OrderMatchesRefunds ==
    LET confirmed == Amount(WithStatus({"SUCCEEDED"}))
    IN  /\ order.refunded = confirmed
        /\ order.status = (IF WithStatus({"SUCCEEDED"}) = {} THEN "PAID"
                           ELSE IF confirmed = Total THEN "REFUNDED" ELSE "PARTIALLY_REFUNDED")
        /\ order.payment = IF order.status = "PAID" THEN "SUCCEEDED" ELSE order.status

\* Once every event of a refund has been processed, in any order, its row says what the
\* provider's refund came to, except for one that came back after it had succeeded: its
\* row keeps the first final verdict that was processed (applyRefundEvent never replaces
\* one), so it may say SUCCEEDED for ever although the provider says failed.
SettledByFirstVerdict ==
    \A r \in Refunds :
        (\A e \in refundEvents : e.refund # r) =>
            refund[r].status \in
                [none      |-> {"NONE", "PENDING"},
                 pending   |-> {"PENDING"},
                 succeeded |-> {"SUCCEEDED"},
                 failed    |-> {"FAILED"},
                 returned  |-> {"SUCCEEDED", "FAILED"}][stripeRefund[r]]
=============================================================================
