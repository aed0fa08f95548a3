---------------------------- MODULE DigitalDelivery ----------------------------
(***************************************************************************)
(* What a buyer is given for a paid order: download rights and ownership   *)
(* certificates (services/digital-delivery.service.js), executed from the  *)
(* outbox while refunds and disputes are finalized                         *)
(* (services/dispute-finalization.service.js), and the downloads           *)
(* themselves (services/artwork-download.service.js).                      *)
(*                                                                         *)
(* A handler is a transaction under the advisory lock of the order: it     *)
(* reads the order and its disputes, then writes.  Finalizations take      *)
(* other locks, so they may commit between that read and that write; what  *)
(* sets the rights straight afterwards is the task they enqueue.  One      *)
(* order of one item is enough: handlers treat all the items of an order   *)
(* alike, in one transaction.  Rights follow disputes                      *)
(* (PAYMENT_DISPUTE_RIGHTS_POLICY = SUSPEND_ON_OPEN).                      *)
(***************************************************************************)
EXTENDS Refunds, FulfillmentQueue

CONSTANTS
    Kinds,          \* what is followed: "rights", "certificate"
    Disputes,       \* disputes the provider may open against the payment
    Downloaders,    \* download requests in flight at the same time
    downloadLimit

VARIABLES
    dispute,        \* [Disputes -> status of the dispute row]
    stripeDispute,  \* [Disputes -> status of the provider's dispute]
    disputeEvents,  \* events emitted and not processed
    given,          \* [Kinds -> status of the entitlement and of the certificate]
    decision,       \* [Workers -> what the handler that holds the lock will write]
    downloads,      \* downloadCount of the entitlement
    reader          \* [Downloaders -> what the download request is doing]

disputeVars == <<dispute, stripeDispute, disputeEvents>>
downloadVars == <<downloads, reader>>
deliveryVars == <<refundVars, queue, disputeVars, given, decision, downloadVars>>

RightsStatuses == {"ACTIVE", "SUSPENDED", "REVOKED"}
\* NEEDS_RESPONSE and UNDER_REVIEW are one status here, WON and CLOSED another.
DisputeStatuses == {"OPEN", "WON", "LOST"}

\* The order's own tasks, and those of each dispute: each key exists once.
GRANT       == <<"GRANT_DOWNLOAD_RIGHTS", "order">>
CERTIFICATE == <<"GENERATE_CERTIFICATE", "order">>
REVOKE(x)   == <<"REVOKE_DOWNLOAD_RIGHTS", x>>
SUSPEND(d)  == <<"SUSPEND_DOWNLOAD_RIGHTS", d>>
RESTORE(d)  == <<"RESTORE_DOWNLOAD_RIGHTS", d>>
Creates(k)  == IF k = "rights" THEN GRANT ELSE CERTIFICATE
Deliveries  == {Creates(k) : k \in Kinds}
RightsTasks == Deliveries \cup {REVOKE("order")}
                \cup UNION {{SUSPEND(d), RESTORE(d), REVOKE(d)} : d \in Disputes}

ASSUME DeliveryAssumption ==
    /\ Tasks = RightsTasks /\ "order" \notin Disputes
    /\ Kinds \subseteq {"rights", "certificate"} /\ downloadLimit \in Nat \ {0}
    /\ IsFiniteSet(Downloaders) /\ IsFiniteSet(Refunds)

DeliveryTypeOK ==
    /\ RefundsTypeOK /\ QueueTypeOK
    /\ dispute \in [Disputes -> DisputeStatuses \cup {"NONE"}]
    /\ stripeDispute \in [Disputes -> DisputeStatuses \cup {"NONE"}]
    /\ disputeEvents \in SUBSET [dispute : Disputes, status : DisputeStatuses]
    /\ given \in [Kinds -> RightsStatuses \cup {"NONE"}]
    /\ decision \in [Workers -> RightsStatuses \cup {"none"}]
    /\ downloads \in 0 .. downloadLimit + Cardinality(Downloaders)
    /\ reader \in [Downloaders -> {"idle", "checked"}]

\* The order has been paid, its finalization has enqueued the delivery, and refunds
\* have been requested and acknowledged by the provider.
DeliveryInit ==
    /\ order = [status |-> "PAID", payment |-> "SUCCEEDED", refunded |-> 0]
    /\ refund \in [Refunds -> [status : {"PENDING"}, amount : 1 .. Total, linked : {TRUE}]]
    /\ Amount(Refunds) <= Total
    /\ admin = [a \in Admins |-> AtRest]
    /\ stripeRefund = [r \in Refunds |-> "pending"]
    /\ refundEvents = {}
    /\ QueueInit(Deliveries)
    /\ dispute = [d \in Disputes |-> "NONE"]
    /\ stripeDispute = dispute
    /\ disputeEvents = {}
    /\ given = [k \in Kinds |-> "NONE"]
    /\ decision = [w \in Workers |-> "none"]
    /\ downloads = 0 /\ reader = [u \in Downloaders |-> "idle"]

-----------------------------------------------------------------------------
(* Refunds and the provider, as in Refunds, with the rights tasks.         *)

\* Faulty variant: the provider's refund alone decides; nobody revokes what was given.
RightsAfterRefund_withdrawOnly(e) ==
    IF RefundsInFull(e) THEN Withdrawn(task, {GRANT}) ELSE task

\* Second half of applySucceededRefund, in the same transaction.
RightsAfterRefund(e) ==
    IF RefundsInFull(e) THEN Enqueued(Withdrawn(task, {GRANT}), {REVOKE("order")}) ELSE task

RefundFinalized(e) ==
    /\ processStripeRefundEvent(e)
    /\ task' = RightsAfterRefund(e)
    /\ UNCHANGED <<worker, requeuing, disputeVars, given, decision, downloadVars>>

RefundProgress ==
    /\ \E r \in Refunds : StripeSettles(r)
    /\ UNCHANGED <<queue, disputeVars, given, decision, downloadVars>>

-----------------------------------------------------------------------------
(* Disputes.                                                               *)

Blocking(S) == {d \in S : dispute[d] \in {"OPEN", "LOST"}}

\* A dispute is opened, and closed for good by the bank.
StripeDispute(d) ==
    \E before \in {"NONE", "OPEN"}, after \in DisputeStatuses :
        /\ stripeDispute[d] = before /\ (before = "NONE" <=> after = "OPEN")
        /\ stripeDispute' = [stripeDispute EXCEPT ![d] = after]
        /\ disputeEvents' = disputeEvents \cup {[dispute |-> d, status |-> after]}
        /\ UNCHANGED <<refundVars, queue, dispute, given, decision, downloadVars>>

rightsTaskForDispute(e) ==
    [OPEN |-> SUSPEND(e.dispute), WON |-> RESTORE(e.dispute), LOST |-> REVOKE(e.dispute)][e.status]

IgnoredTerminal(e) == dispute[e.dispute] \in {"WON", "LOST"} /\ dispute[e.dispute] # e.status

applyDisputeEvent(e) ==
    IF IgnoredTerminal(e) THEN UNCHANGED <<dispute, task>>
    ELSE /\ dispute' = [dispute EXCEPT ![e.dispute] = e.status]
         /\ task' = Enqueued(task, {rightsTaskForDispute(e)})

\* One serializable transaction under the lock of the dispute; the ledger drops repeats.
processStripeDisputeEvent(e) ==
    /\ e \in disputeEvents
    /\ disputeEvents' = disputeEvents \ {e}
    /\ applyDisputeEvent(e)
    /\ UNCHANGED <<refundVars, worker, requeuing, stripeDispute, given, decision, downloadVars>>

-----------------------------------------------------------------------------
(* The handlers.                                                           *)

deliveryState ==
    IF order.status = "REFUNDED" \/ \E d \in Disputes : dispute[d] = "LOST" THEN "REVOKED"
    ELSE IF \E d \in Disputes : dispute[d] = "OPEN" THEN "SUSPENDED" ELSE "ACTIVE"

DeliveryAllowed == order.status \in Refundable

\* What the handler of a task decides from the order as it is: the status it will
\* write, or the kind of error it throws.  An order that may not be delivered is refunded
\* here, for good; were it one that may still change, the error would be "retryable".
Verdict(t) ==
    CASE t \in Deliveries ->
            IF DeliveryAllowed THEN deliveryState ELSE "canceled"
      [] t[1] = "SUSPEND_DOWNLOAD_RIGHTS" ->
            IF dispute[t[2]] = "OPEN" THEN "SUSPENDED" ELSE "canceled"
      [] t[1] = "RESTORE_DOWNLOAD_RIGHTS" ->
            IF DeliveryAllowed /\ dispute[t[2]] = "WON" /\ Blocking(Disputes) = {}
            THEN "ACTIVE" ELSE "canceled"
      [] t[1] = "REVOKE_DOWNLOAD_RIGHTS" ->
            IF order.status = "REFUNDED" \/ \E d \in Disputes : dispute[d] = "LOST"
            THEN "REVOKED" ELSE "retryable"

\* Rows are created once; the other tasks move every row that is in the status they name.
Rights(t, status) ==
    LET moves == CASE t[1] = "SUSPEND_DOWNLOAD_RIGHTS" -> {"ACTIVE"}
                   [] t[1] = "RESTORE_DOWNLOAD_RIGHTS" -> {"SUSPENDED"}
                   [] t[1] = "REVOKE_DOWNLOAD_RIGHTS"  -> {"ACTIVE", "SUSPENDED"}
                   [] OTHER -> {}
    IN  [k \in Kinds |-> IF given[k] \in moves \/ (given[k] = "NONE" /\ t = Creates(k))
                         THEN status ELSE given[k]]

\* Faulty variant: handlers do not exclude each other.
LockFree_always == TRUE

LockFree == \A w \in Workers : decision[w] = "none"

\* pg_advisory_xact_lock, then the read; a refusal rolls back at once.
lockedOrder(w) ==
    /\ Running(w) /\ decision[w] = "none" /\ LockFree
    /\ LET verdict == Verdict(worker[w].task)
       IN  IF verdict \in RightsStatuses
           THEN decision' = [decision EXCEPT ![w] = verdict] /\ UNCHANGED queue
           ELSE HandlerEnds(w, verdict) /\ UNCHANGED decision
    /\ UNCHANGED <<refundVars, disputeVars, given, downloadVars>>

CommitRights(w) ==
    /\ decision[w] # "none"
    /\ given' = Rights(worker[w].task, decision[w])
    /\ decision' = [decision EXCEPT ![w] = "none"]
    /\ HandlerEnds(w, "done")
    /\ UNCHANGED <<refundVars, disputeVars, downloadVars>>

\* The database refuses or is away: the transaction is rolled back, the task retried.
HandlerThrows(w) ==
    /\ HandlerEnds(w, "retryable")
    /\ decision' = [decision EXCEPT ![w] = "none"]
    /\ UNCHANGED <<refundVars, disputeVars, given, downloadVars>>

ServerCrash(w) ==
    /\ Crash(w)
    /\ decision' = [decision EXCEPT ![w] = "none"]
    /\ UNCHANGED <<refundVars, disputeVars, given, downloadVars>>

HandlerStep(w) == lockedOrder(w) \/ CommitRights(w) \/ HandlerThrows(w)

Queued(A) == A /\ UNCHANGED <<refundVars, disputeVars, given, decision, downloadVars>>

-----------------------------------------------------------------------------
(* consumeArtworkDownload: two reads, then a write, in a transaction that  *)
(* locks nothing before it writes.                                         *)

\* Faulty variant: one more than the limit.
DownloadAllowed_offByOne == given["rights"] = "ACTIVE" /\ downloads <= downloadLimit

DownloadAllowed == given["rights"] = "ACTIVE" /\ downloads < downloadLimit

BeginDownload(u) ==
    /\ reader[u] = "idle" /\ DownloadAllowed
    /\ reader' = [reader EXCEPT ![u] = "checked"]
    /\ UNCHANGED <<refundVars, queue, disputeVars, given, decision, downloads>>

\* The count is incremented where it is; the file may be missing, which undoes that.
FinishDownload(u) ==
    /\ reader[u] = "checked"
    /\ reader' = [reader EXCEPT ![u] = "idle"]
    /\ downloads' \in {downloads, downloads + 1}
    /\ UNCHANGED <<refundVars, queue, disputeVars, given, decision>>

-----------------------------------------------------------------------------
DisputeStep ==
    \/ \E d \in Disputes : StripeDispute(d)
    \/ \E e \in disputeEvents : processStripeDisputeEvent(e)

DeliveryNext ==
    \/ RefundProgress
    \/ \E e \in refundEvents : RefundFinalized(e)
    \/ DisputeStep
    \/ Queued(QueueStep)
    \/ \E w \in Workers : HandlerStep(w) \/ ServerCrash(w)
    \/ \E u \in Downloaders : BeginDownload(u) \/ FinishDownload(u)

DeliverySpec == DeliveryInit /\ [][DeliveryNext]_deliveryVars

\* The batch timer runs in every process, and time passes.  A process may die again and
\* again: every life costs a task an attempt.  Nothing obliges operators or the provider.
DeliveryFairness ==
    /\ \A w \in Workers : /\ WF_deliveryVars(Queued(BatchStep(w)))
                          /\ WF_deliveryVars(HandlerStep(w))
    /\ WF_deliveryVars(Queued(markExhaustedTasks))

FairDeliverySpec == DeliverySpec /\ DeliveryFairness

-----------------------------------------------------------------------------
(* Properties.                                                             *)

Over(t) == task[t].status \in {"NONE", "COMPLETED", "CANCELED"}

\* Once no task is left to run, what the buyer holds is what the order and its disputes
\* call for: grants, suspensions, restorations and revocations run in any order, twice,
\* after losing their lease, and next to the refund or dispute that changes the answer
\* (lockedOrder, deliveryState, and the tasks the finalizations enqueue).
RightsSettled ==
    (\A t \in Tasks : Over(t)) =>
        \A k \in Kinds : given[k] \in {"NONE", deliveryState}

\* Simultaneous downloads may pass the limit, by no more than the requests that were
\* already past the check (consumeArtworkDownload increments what others have written).
DownloadsBounded ==
    downloads + Cardinality({u \in Downloaders : reader[u] = "checked"})
        <= downloadLimit + Cardinality(Downloaders) - 1

\* A full refund takes the rights away, unless the revocation itself is given up.
RefundReachesRights ==
    order.status = "REFUNDED" ~> \/ \A k \in Kinds : given[k] \in {"NONE", "REVOKED"}
                                 \/ task[REVOKE("order")].status = "FAILED"
=============================================================================
