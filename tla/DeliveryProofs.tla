---------------------------- MODULE DeliveryProofs ----------------------------
(***************************************************************************)
(* The delivery of an order while it is refunded and disputed: proofs for  *)
(* every number of tasks, workers, attempts, refunds, disputes and         *)
(* downloads.  First the queue, then downloads, then what the buyer holds  *)
(* once every task is over, then the types.                                *)
(***************************************************************************)
EXTENDS DigitalDelivery, QueueProofs, RefundsProofs

(***************************************************************************)
(* The queue, under everything this module does to it.                     *)
(***************************************************************************)
LEMMA DeliveryStateIsStatus == deliveryState \in RightsStatuses
  BY DEF deliveryState, RightsStatuses

\* A handler that does not write ends with an outcome the batch loop knows.
LEMMA VerdictIsKnown ==
    ASSUME NEW t \in Tasks
    PROVE  Verdict(t) \in RightsStatuses \cup {"canceled", "retryable"}
<1>1. CASE t \in Deliveries
  <2>1. Verdict(t) = IF DeliveryAllowed THEN deliveryState ELSE "canceled"
    BY <1>1 DEF Verdict, Deliveries, Creates, GRANT, CERTIFICATE
  <2> QED BY <2>1, DeliveryStateIsStatus
<1>2. CASE t = REVOKE("order") \/ \E d \in Disputes : t \in {SUSPEND(d), RESTORE(d), REVOKE(d)}
  <2>1. t \notin Deliveries
    BY <1>2 DEF Deliveries, Creates, GRANT, CERTIFICATE, SUSPEND, RESTORE, REVOKE
  <2>2. t[1] \in {"SUSPEND_DOWNLOAD_RIGHTS", "RESTORE_DOWNLOAD_RIGHTS", "REVOKE_DOWNLOAD_RIGHTS"}
    BY <1>2 DEF SUSPEND, RESTORE, REVOKE
  <2> QED BY <2>1, <2>2 DEF Verdict, RightsStatuses
<1> QED BY <1>1, <1>2, DeliveryAssumption DEF RightsTasks

LEMMA RefundMoves ==
    ASSUME NEW rows \in [Tasks -> TaskRows], NEW S, NEW T
    PROVE  RowsMoved(rows, Enqueued(Withdrawn(rows, S), T))
<1> DEFINE open  == Withdrawn(rows, S)
           after == Enqueued(open, T)
<1>1. open \in [Tasks -> TaskRows] /\ RowsMoved(rows, open)
  BY WithdrawnMoves DEF RowsMoved
<1>2. RowsMoved(open, after)
  BY <1>1, EnqueuedMoves
<1>3. \A t \in Tasks : after[t] = open[t] \/ open[t].status = "NONE"
  BY DEF Enqueued
<1>4. \A t \in Tasks : open[t].status = "NONE" => open[t] = rows[t]
  BY DEF Withdrawn, TaskRows, TaskStatuses
<1> HIDE DEF open, after
<1>5. after \in [Tasks -> TaskRows]
  BY <1>2 DEF RowsMoved
<1> DEFINE RowGoes(r, a) ==
        \/ a = r
        \/ r.status = "NONE" /\ a.status = "PENDING" /\ a.attempts = 0
        \/ /\ r.status \in {"PENDING", "PROCESSING", "FAILED"}
           /\ a = [r EXCEPT !.status = "CANCELED"]
<1>6. \A t \in Tasks : RowGoes(rows[t], open[t]) /\ RowGoes(open[t], after[t])
  BY <1>1, <1>2 DEF RowsMoved
<1>7. \A t \in Tasks : RowGoes(rows[t], after[t])
  <2> HIDE DEF RowGoes
  <2> QED BY <1>3, <1>4, <1>6
<1>8. RowsMoved(rows, after)
  BY <1>5, <1>7 DEF RowsMoved
<1> QED BY <1>8 DEF after, open

LEMMA QueueStarted == DeliveryInit => QueueInv
  BY QueueStarts DEF DeliveryInit

LEMMA QueueUnderDelivery ==
    ASSUME QueueInv, [DeliveryNext]_deliveryVars
    PROVE  QueueInv' /\ FinalKept /\ GivenUpStep
<1>0. task \in [Tasks -> TaskRows] /\ InHandIsTask
  BY DEF QueueInv, QueueTypeOK
<1>1. CASE UNCHANGED queue
  BY <1>1, QueueStutters
<1>2. ASSUME NEW e \in refundEvents, RefundFinalized(e)
      PROVE  QueueInv' /\ FinalKept /\ GivenUpStep
  <2>1. RowsMoved(task, task')
    <3>1. RowsMoved(task, task)
      BY <1>0 DEF RowsMoved
    <3> QED BY <1>0, <1>2, <3>1, RefundMoves DEF RefundFinalized, RightsAfterRefund
  <2> QED BY <1>2, <2>1, RowsMovedStep DEF RefundFinalized
<1>3. ASSUME NEW e \in disputeEvents, processStripeDisputeEvent(e)
      PROVE  QueueInv' /\ FinalKept /\ GivenUpStep
  <2>1. RowsMoved(task, task')
    <3>1. RowsMoved(task, task)
      BY <1>0 DEF RowsMoved
    <3> QED BY <1>0, <1>3, <3>1, EnqueuedMoves DEF processStripeDisputeEvent, applyDisputeEvent
  <2> QED BY <1>3, <2>1, RowsMovedStep DEF processStripeDisputeEvent
<1>4. CASE Queued(QueueStep)
  BY <1>4, QueueStepKeeps DEF Queued
<1>5. ASSUME NEW w \in Workers, HandlerStep(w) \/ ServerCrash(w)
      PROVE  QueueInv' /\ FinalKept /\ GivenUpStep
  <2>1. CASE lockedOrder(w)
    <3> DEFINE verdict == Verdict(worker[w].task)
    <3>1. CASE verdict \in RightsStatuses
      BY <2>1, <3>1, QueueStutters DEF lockedOrder
    <3>2. CASE verdict \notin RightsStatuses
      <4>1. worker[w].task \in Tasks
        BY <1>0, <2>1 DEF lockedOrder, Running, InHandIsTask, Free
      <4>2. verdict \in Outcomes
        BY <3>2, <4>1, VerdictIsKnown DEF Outcomes
      <4>3. HandlerEnds(w, verdict)
        BY <2>1, <3>2 DEF lockedOrder
      <4> HIDE DEF verdict
      <4> QED BY <4>2, <4>3, HandlerEndsStep
    <3> QED BY <3>1, <3>2
  <2>2. CASE CommitRights(w) \/ HandlerThrows(w)
    BY <2>2, HandlerEndsStep DEF CommitRights, HandlerThrows, Outcomes
  <2>3. CASE ServerCrash(w)
    BY <2>3, CrashStep DEF ServerCrash
  <2> QED BY <1>5, <2>1, <2>2, <2>3 DEF HandlerStep
<1>6. CASE \/ RefundProgress \/ \E d \in Disputes : StripeDispute(d)
           \/ \E u \in Downloaders : BeginDownload(u) \/ FinishDownload(u)
           \/ UNCHANGED deliveryVars
  BY <1>1, <1>6 DEF RefundProgress, StripeDispute, BeginDownload, FinishDownload, deliveryVars
<1> QED BY <1>2, <1>3, <1>4, <1>5, <1>6 DEF DeliveryNext, DisputeStep

LEMMA QueueInvariance == DeliverySpec => []QueueInv
<1>1. QueueInv /\ [DeliveryNext]_deliveryVars => QueueInv'
  BY QueueUnderDelivery
<1> QED BY <1>1, QueueStarted, PTL DEF DeliverySpec

\* A completed task is never reopened.
THEOREM CompletedStays == DeliverySpec => CompletedIsFinal
<1>1. QueueInv /\ [DeliveryNext]_deliveryVars => [FinalKept]_queue
  BY QueueUnderDelivery
<1>2. DeliverySpec => [][FinalKept]_queue
  BY <1>1, QueueInvariance, PTL DEF DeliverySpec
<1> QED BY <1>2 DEF CompletedIsFinal, FinalKept

\* A task that is not refused is given up after all its attempts, and not before.
THEOREM AttemptsAreSpent == DeliverySpec => GivenUpWhenSpent
<1>1. QueueInv /\ [DeliveryNext]_deliveryVars => [GivenUpStep]_queue
  BY QueueUnderDelivery
<1>2. DeliverySpec => [][GivenUpStep]_queue
  BY <1>1, QueueInvariance, PTL DEF DeliverySpec
<1> QED BY <1>2 DEF GivenUpWhenSpent, GivenUpStep

(***************************************************************************)
(* Downloads.                                                              *)
(***************************************************************************)
Checked == {u \in Downloaders : reader[u] = "checked"}

DownloadTypes == downloads \in Nat /\ reader \in [Downloaders -> {"idle", "checked"}]

DownloadInv == DownloadTypes /\ DownloadsBounded

LEMMA CheckedIsFinite ==
    /\ IsFiniteSet(Checked) /\ Cardinality(Checked) \in Nat
    /\ Cardinality(Downloaders) \in Nat
  BY DeliveryAssumption, FS_Subset, FS_CardinalityType DEF Checked

LEMMA DownloadsStart == DeliveryInit => DownloadInv
<1> SUFFICES ASSUME DeliveryInit PROVE DownloadInv
  OBVIOUS
<1>1. downloads = 0 /\ reader = [u \in Downloaders |-> "idle"]
  BY DEF DeliveryInit
<1>2. Checked = {}
  BY <1>1 DEF Checked
<1>3. Cardinality(Checked) = 0
  BY <1>2, FS_EmptySet
<1> QED BY <1>1, <1>3, CheckedIsFinite, DeliveryAssumption
       DEF DownloadInv, DownloadTypes, DownloadsBounded, Checked

LEMMA DownloadsStep ==
    ASSUME DownloadInv, [DeliveryNext]_deliveryVars
    PROVE  DownloadInv'
<1>0. downloads \in Nat /\ reader \in [Downloaders -> {"idle", "checked"}]
      /\ downloadLimit \in Nat
      /\ downloads + Cardinality(Checked) <= downloadLimit + Cardinality(Downloaders) - 1
  BY DeliveryAssumption DEF DownloadInv, DownloadTypes, DownloadsBounded, Checked
<1>1. CASE UNCHANGED downloadVars
  BY <1>1 DEF downloadVars, DownloadInv, DownloadTypes, DownloadsBounded
<1>2. ASSUME NEW u \in Downloaders, BeginDownload(u) PROVE DownloadInv'
  <2>1. downloads' = downloads /\ downloads < downloadLimit
        /\ reader' = [reader EXCEPT ![u] = "checked"]
    BY <1>2 DEF BeginDownload, DownloadAllowed
  <2>2. Checked' \subseteq Downloaders
    BY DEF Checked
  <2>3. Cardinality(Checked') \in Nat /\ Cardinality(Checked') <= Cardinality(Downloaders)
    BY <2>2, DeliveryAssumption, FS_Subset, FS_CardinalityType
  <2> QED BY <1>0, <2>1, <2>3, CheckedIsFinite
          DEF DownloadInv, DownloadTypes, DownloadsBounded, Checked
<1>3. ASSUME NEW u \in Downloaders, FinishDownload(u) PROVE DownloadInv'
  <2>1. reader[u] = "checked" /\ reader' = [reader EXCEPT ![u] = "idle"]
        /\ downloads' \in {downloads, downloads + 1}
    BY <1>3 DEF FinishDownload
  <2>2. Checked' = Checked \ {u} /\ u \in Checked
    BY <1>0, <2>1 DEF Checked
  <2>3. Cardinality(Checked') = Cardinality(Checked) - 1
    BY <2>2, CheckedIsFinite, FS_RemoveElement
  <2> QED BY <1>0, <2>1, <2>3, CheckedIsFinite
          DEF DownloadInv, DownloadTypes, DownloadsBounded, Checked
<1> QED
  BY <1>1, <1>2, <1>3
     DEF DeliveryNext, RefundProgress, RefundFinalized, DisputeStep, StripeDispute,
         processStripeDisputeEvent, Queued, HandlerStep, lockedOrder, CommitRights,
         HandlerThrows, ServerCrash, deliveryVars

\* Downloads pass the limit by no more than the requests that were already checked.
THEOREM DownloadsStayBounded == DeliverySpec => []DownloadsBounded
<1>1. DownloadInv /\ [DeliveryNext]_deliveryVars => DownloadInv'
  BY DownloadsStep
<1> QED BY <1>1, DownloadsStart, PTL DEF DeliverySpec, DownloadInv

(***************************************************************************)
(* Once every task is over, what the buyer holds is what the order calls   *)
(* for: proof for every number of disputes, refunds, workers, attempts and *)
(* replays.                                                                *)
(*                                                                         *)
(* A revocation is never refused, a suspension only once its dispute is    *)
(* over; what a refusal or a late handler leaves wrong is left to a task   *)
(* that exists, and that will still run or has run.  The lock makes the    *)
(* decision of a handler the last one until it is written.                 *)
(***************************************************************************)

\* The task has written, whatever happens to the lease of the worker that did.
EndedAs(t, outcome) ==
    \E w \in Workers : /\ worker[w].phase = "ended" /\ worker[w].task = t
                       /\ worker[w].outcome = outcome

Performed(t) == task[t].status = "COMPLETED" \/ EndedAs(t, "done")
Refused(t)   == task[t].status = "CANCELED" \/ EndedAs(t, "canceled")

\* A task that will run again, or whose run is not about to be settled for good.
Live(t) ==
    /\ task[t].status \in {"PENDING", "PROCESSING", "FAILED"}
    /\ \A w \in Workers : worker[w].phase = "ended" /\ worker[w].task = t /\ HoldsLease(w)
                          => worker[w].outcome \notin {"done", "canceled"}

Revoking == {REVOKE("order")} \cup {REVOKE(d) : d \in Disputes}

RightsTypes ==
    /\ dispute \in [Disputes -> DisputeStatuses \cup {"NONE"}]
    /\ disputeEvents \in SUBSET [dispute : Disputes, status : DisputeStatuses]
    /\ given \in [Kinds -> RightsStatuses \cup {"NONE"}]
    /\ decision \in [Workers -> RightsStatuses \cup {"none"}]
    /\ order.status \in Refundable \cup {"REFUNDED"}

\* The tasks of a dispute exist because of what it is, and what it is has its task.
TasksFollow ==
    /\ task[REVOKE("order")].status # "NONE" <=> order.status = "REFUNDED"
    /\ \A d \in Disputes :
          /\ task[SUSPEND(d)].status # "NONE" => dispute[d] # "NONE"
          /\ dispute[d] = "OPEN" => task[SUSPEND(d)].status # "NONE"
          /\ task[RESTORE(d)].status # "NONE" <=> dispute[d] = "WON"
          /\ task[REVOKE(d)].status # "NONE" <=> dispute[d] = "LOST"
    /\ \A w \in Workers : ~Free(w) => task[worker[w].task].status # "NONE"

\* What one handler is about to write, alone.
DecisionsOK ==
    /\ \A v, w \in Workers : decision[v] # "none" /\ decision[w] # "none" => v = w
    /\ \A w \in Workers : decision[w] # "none" =>
          /\ Running(w)
          /\ \A d \in Disputes : worker[w].task = SUSPEND(d) => decision[w] = "SUSPENDED"
          /\ \A d \in Disputes : worker[w].task = RESTORE(d) => decision[w] = "ACTIVE"
          /\ worker[w].task \in Revoking => decision[w] = "REVOKED"

\* Revocations are never refused, suspensions only once their dispute is over.
RefusalsOK ==
    /\ \A t \in Revoking : ~Refused(t)
    /\ \A d \in Disputes : Refused(SUSPEND(d)) => dispute[d] # "OPEN"

\* Nothing is revoked without a cause, and what was revoked stays so.
RevokedOK ==
    /\ (\E k \in Kinds : given[k] = "REVOKED") \/ (\E w \in Workers : decision[w] = "REVOKED")
       => deliveryState = "REVOKED"
    /\ (\E t \in Revoking : Performed(t)) =>
          /\ \A k \in Kinds : given[k] \in {"NONE", "REVOKED"}
          /\ \A w \in Workers : decision[w] # "none" /\ worker[w].task \in Deliveries
                                => decision[w] = "REVOKED"

\* An open dispute keeps the rights suspended once its task has run.
SuspendedOK ==
    \A d \in Disputes : Performed(SUSPEND(d)) /\ dispute[d] = "OPEN" =>
        /\ \A k \in Kinds : given[k] # "ACTIVE"
        /\ \A w \in Workers : decision[w] # "ACTIVE"

\* Suspended rights that nothing suspends any more have a restoration coming.
RestoredOK ==
    /\ deliveryState = "ACTIVE"
    /\ (\E k \in Kinds : given[k] = "SUSPENDED") \/ (\E w \in Workers : decision[w] = "SUSPENDED")
    => \E d \in Disputes : Live(RESTORE(d))

RightsInv ==
    /\ RightsTypes /\ TasksFollow /\ DecisionsOK /\ RefusalsOK
    /\ RevokedOK /\ SuspendedOK /\ RestoredOK

(***************************************************************************)
(* Names and rows.                                                         *)
(***************************************************************************)
\* Tasks of different kinds, or of different disputes, are different tasks.
LEMMA NamesDiffer ==
    /\ \A t \in Deliveries : /\ t \notin Revoking
                             /\ \A d \in Disputes : t # SUSPEND(d) /\ t # RESTORE(d)
    /\ \A d, e \in Disputes : /\ SUSPEND(d) # RESTORE(e) /\ SUSPEND(d) # REVOKE(e)
                              /\ RESTORE(d) # REVOKE(e)
                              /\ SUSPEND(d) # REVOKE("order") /\ RESTORE(d) # REVOKE("order")
                              /\ REVOKE(d) # REVOKE("order")
                              /\ SUSPEND(d) = SUSPEND(e) => d = e
                              /\ RESTORE(d) = RESTORE(e) => d = e
                              /\ REVOKE(d) = REVOKE(e) => d = e
  BY DeliveryAssumption
     DEF Deliveries, Creates, Revoking, SUSPEND, RESTORE, REVOKE, GRANT, CERTIFICATE

LEMMA NamesAreTasks ==
    /\ REVOKE("order") \in Tasks /\ Revoking \subseteq Tasks
    /\ \A d \in Disputes : SUSPEND(d) \in Tasks /\ RESTORE(d) \in Tasks /\ REVOKE(d) \in Tasks
    /\ Deliveries \subseteq Tasks
    /\ \A t \in Tasks : t \in Deliveries \/ t \in Revoking
                        \/ \E d \in Disputes : t = SUSPEND(d) \/ t = RESTORE(d)
  BY DeliveryAssumption DEF RightsTasks, Revoking

(***************************************************************************)
(* The property, from the invariant.                                       *)
(***************************************************************************)
LEMMA RightsFollow ==
    ASSUME RightsInv, QueueInv
    PROVE  RightsSettled
<1> SUFFICES ASSUME \A t \in Tasks : Over(t), NEW k \in Kinds
             PROVE  given[k] \in {"NONE", deliveryState}
  BY DEF RightsSettled
<1>0. given[k] \in {"ACTIVE", "SUSPENDED", "REVOKED", "NONE"}
  BY DEF RightsInv, RightsTypes, RightsStatuses
<1>1. CASE deliveryState = "REVOKED"
  <2>1. PICK t \in Revoking : task[t].status # "NONE"
    <3>1. CASE order.status = "REFUNDED"
      BY <3>1 DEF RightsInv, TasksFollow, Revoking
    <3>2. CASE \E d \in Disputes : dispute[d] = "LOST"
      BY <3>2 DEF RightsInv, TasksFollow, Revoking
    <3> QED BY <1>1, <3>1, <3>2 DEF deliveryState
  <2>2. Performed(t)
    <3>1. t \in Tasks
      BY NamesAreTasks
    <3> QED BY <2>1, <3>1 DEF Over, Performed, Refused, RightsInv, RefusalsOK
  <2> QED BY <1>1, <2>2 DEF RightsInv, RevokedOK
<1>2. CASE deliveryState = "SUSPENDED"
  <2>1. PICK d \in Disputes : dispute[d] = "OPEN"
    BY <1>2 DEF deliveryState
  <2>2. Performed(SUSPEND(d))
    BY <2>1, NamesAreTasks DEF RightsInv, TasksFollow, RefusalsOK, Over, Performed, Refused
  <2>3. given[k] # "ACTIVE" /\ given[k] # "REVOKED"
    BY <1>2, <2>1, <2>2 DEF RightsInv, SuspendedOK, RevokedOK
  <2> QED BY <1>0, <1>2, <2>3
<1>3. CASE deliveryState = "ACTIVE"
  <2>1. given[k] # "REVOKED"
    BY <1>3 DEF RightsInv, RevokedOK
  <2>2. given[k] # "SUSPENDED"
    BY <1>3, NamesAreTasks DEF RightsInv, RestoredOK, Live, Over
  <2> QED BY <1>0, <1>3, <2>1, <2>2
<1> QED BY <1>1, <1>2, <1>3, DeliveryStateIsStatus DEF RightsStatuses

(***************************************************************************)
(* Steps that write nothing the buyer has: what the queue does, and        *)
(* handlers that end without writing.                                      *)
(***************************************************************************)
QuietTask(t) ==
    /\ task'[t].status = "NONE" <=> task[t].status = "NONE"
    /\ Performed(t)' => Performed(t)
    /\ Refused(t)' => Refused(t)
    /\ Live(t) => Live(t)'

Quiet ==
    /\ \A t \in Tasks : QuietTask(t)
    /\ \A w \in Workers : ~Free(w)' => task'[worker'[w].task].status # "NONE"

DecisionsKept ==
    \A w \in Workers : decision'[w] # "none" => decision'[w] = decision[w] /\ worker'[w] = worker[w]

LEMMA QuietKeeps ==
    ASSUME RightsInv, Quiet, DecisionsKept, UNCHANGED <<order, disputeVars, given>>,
           decision' \in [Workers -> RightsStatuses \cup {"none"}]
    PROVE  RightsInv'
<1>0. \A t \in Tasks : QuietTask(t)
  BY DEF Quiet
<1>1. RightsTypes'
  BY DEF RightsInv, RightsTypes, disputeVars
<1>2. TasksFollow'
  BY <1>0, NamesAreTasks DEF RightsInv, TasksFollow, Quiet, QuietTask, disputeVars
<1>3. DecisionsOK'
  BY DEF RightsInv, DecisionsOK, DecisionsKept, Running
<1>4. RefusalsOK'
  BY <1>0, NamesAreTasks DEF RightsInv, RefusalsOK, QuietTask, disputeVars
<1>5. deliveryState' = deliveryState
  BY DEF deliveryState, disputeVars
<1>6. RevokedOK'
  BY <1>0, <1>5, NamesAreTasks DEF RightsInv, RevokedOK, QuietTask, DecisionsKept
<1>7. SuspendedOK'
  BY <1>0, NamesAreTasks DEF RightsInv, SuspendedOK, QuietTask, DecisionsKept, disputeVars
<1>8. RestoredOK'
  BY <1>0, <1>5, NamesAreTasks DEF RightsInv, RestoredOK, QuietTask, DecisionsKept
<1> QED BY <1>1, <1>2, <1>3, <1>4, <1>6, <1>7, <1>8 DEF RightsInv

\* A handler that ends without having written, and a process that dies.
LEMMA RetryIsQuiet ==
    ASSUME QueueInv, TasksFollow, NEW w \in Workers, HandlerEnds(w, "retryable")
    PROVE  Quiet
<1>0. /\ worker' = [worker EXCEPT ![w] = [@ EXCEPT !.phase = "ended", !.outcome = "retryable"]]
      /\ task' = task /\ worker \in [Workers -> WorkerRecords] /\ Running(w)
  BY DEF HandlerEnds, QueueInv, QueueTypeOK
<1>1. /\ worker'[w].phase = "ended" /\ worker'[w].outcome = "retryable"
      /\ worker'[w].task = worker[w].task
      /\ \A v \in Workers \ {w} : worker'[v] = worker[v]
  BY <1>0 DEF WorkerRecords
<1>2. \A t \in Tasks : QuietTask(t)
  BY <1>0, <1>1 DEF QuietTask, Performed, Refused, EndedAs, Live, HoldsLease, Running
<1>3. \A v \in Workers : ~Free(v)' => task'[worker'[v].task].status # "NONE"
  BY <1>0, <1>1 DEF TasksFollow, Free, Running
<1> QED BY <1>2, <1>3 DEF Quiet

LEMMA CompletionThrowsIsQuiet ==
    ASSUME QueueInv, TasksFollow, NEW w \in Workers, CompletionThrows(w)
    PROVE  Quiet
<1>0. /\ worker' = [worker EXCEPT ![w] = [@ EXCEPT !.outcome = "retryable"]]
      /\ task' = task /\ worker \in [Workers -> WorkerRecords]
      /\ worker[w].phase = "ended" /\ worker[w].outcome = "done"
  BY DEF CompletionThrows, QueueInv, QueueTypeOK
<1>1. /\ worker'[w].phase = "ended" /\ worker'[w].outcome = "retryable"
      /\ worker'[w].task = worker[w].task
      /\ \A v \in Workers \ {w} : worker'[v] = worker[v]
  BY <1>0 DEF WorkerRecords
<1>2. \A t \in Tasks : QuietTask(t)
  BY <1>0, <1>1 DEF QuietTask, Performed, Refused, EndedAs, Live, HoldsLease
<1>3. \A v \in Workers : ~Free(v)' => task'[worker'[v].task].status # "NONE"
  BY <1>0, <1>1 DEF TasksFollow, Free
<1> QED BY <1>2, <1>3 DEF Quiet

LEMMA CrashIsQuiet ==
    ASSUME QueueInv, TasksFollow, NEW w \in Workers, Crash(w)
    PROVE  Quiet
<1>0. /\ worker'[w].phase = "idle" /\ \A v \in Workers \ {w} : worker'[v] = worker[v]
      /\ task' = task
  BY DEF Crash, QueueInv, QueueTypeOK, IdleLoop
<1>1. \A t \in Tasks : QuietTask(t)
  BY <1>0 DEF QuietTask, Performed, Refused, EndedAs, Live, HoldsLease
<1>2. \A v \in Workers : ~Free(v)' => task'[worker'[v].task].status # "NONE"
  BY <1>0 DEF TasksFollow, Free
<1> QED BY <1>1, <1>2 DEF Quiet

LEMMA ClaimIsQuiet ==
    ASSUME QueueInv, TasksFollow, NEW w \in Workers, NEW t \in Tasks, claimNextTask(w, t)
    PROVE  Quiet
<1>0. /\ task \in [Tasks -> TaskRows] /\ worker \in [Workers -> WorkerRecords]
      /\ Free(w) /\ task[t].status \in {"PENDING", "PROCESSING"}
      /\ task' = [task EXCEPT ![t] = Claimed(@, w)]
  BY DEF claimNextTask, Claimable, QueueInv, QueueTypeOK
<1>1. /\ worker'[w].phase = "running" /\ worker'[w].task = t
      /\ \A v \in Workers \ {w} : worker'[v] = worker[v]
  BY <1>0 DEF claimNextTask
<1>2. /\ task'[t].status = "PROCESSING" /\ task'[t].lease = w
      /\ \A u \in Tasks \ {t} : task'[u] = task[u]
  BY <1>0 DEF Claimed, TaskRows
<1>3. \A u \in Tasks : QuietTask(u)
  <2> SUFFICES ASSUME NEW u \in Tasks PROVE QuietTask(u)
    OBVIOUS
  <2>1. \A v \in Workers : worker'[v].phase = "ended" => v # w /\ worker'[v] = worker[v]
    BY <1>1
  <2>2. task'[u].status = "NONE" <=> task[u].status = "NONE"
    BY <1>0, <1>2
  <2>3. Performed(u)' => Performed(u)
    BY <1>2, <2>1 DEF Performed, EndedAs
  <2>4. Refused(u)' => Refused(u)
    BY <1>2, <2>1 DEF Refused, EndedAs
  <2>5. Live(u) => Live(u)'
    BY <1>0, <1>2, <2>1 DEF Live, HoldsLease
  <2> QED BY <2>2, <2>3, <2>4, <2>5 DEF QuietTask
<1>4. \A v \in Workers : ~Free(v)' => task'[worker'[v].task].status # "NONE"
  <2>1. \A v \in Workers \ {w} : ~Free(v) => worker[v].task \in Tasks
    BY DEF QueueInv, InHandIsTask
  <2> QED BY <1>0, <1>1, <1>2, <2>1 DEF TasksFollow, Free
<1> QED BY <1>3, <1>4 DEF Quiet

\* The batch loop writes a result it has the right to write, or none.
LEMMA SettleIsQuiet ==
    ASSUME QueueInv, TasksFollow, NEW w \in Workers, NEW status,
           worker[w].phase = "ended", Settle(w, status),
           \/ status = "COMPLETED" /\ worker[w].outcome = "done"
           \/ status = "CANCELED" /\ worker[w].outcome = "canceled"
           \/ status \in {"PENDING", "FAILED"}
              /\ worker[w].outcome \notin {"done", "canceled"}
    PROVE  Quiet
<1> DEFINE x == worker[w].task
<1>0. /\ task \in [Tasks -> TaskRows] /\ worker \in [Workers -> WorkerRecords]
      /\ x \in Tasks /\ ~Free(w)
  BY DEF QueueInv, QueueTypeOK, InHandIsTask, Free
<1>1. /\ worker'[w].phase = "idle"
      /\ \A v \in Workers \ {w} : worker'[v] = worker[v]
  BY <1>0 DEF Settle, IdleLoop
<1>2. \A v \in Workers : worker'[v].phase # "idle" => v # w /\ worker'[v] = worker[v]
  BY <1>1
<1>3. CASE HoldsLease(w)
  <2>1. /\ task'[x].status = status /\ task'[x].lease = None
        /\ \A u \in Tasks \ {x} : task'[u] = task[u]
    BY <1>0, <1>3 DEF Settle, Settled, TaskRows
  <2>2. \A v \in Workers : v # None
    BY QueueAssumption
  <2>3. \A u \in Tasks : QuietTask(u)
    <3> SUFFICES ASSUME NEW u \in Tasks PROVE QuietTask(u)
      OBVIOUS
    <3> HIDE DEF x
    <3>1. task[x].status = "PROCESSING"
      BY <1>3 DEF HoldsLease, x
    <3>2. task'[u].status = "NONE" <=> task[u].status = "NONE"
      BY <2>1, <3>1
    <3>3. Performed(u)' => Performed(u)
      BY <1>2, <2>1 DEF Performed, EndedAs, x
    <3>4. Refused(u)' => Refused(u)
      BY <1>2, <2>1 DEF Refused, EndedAs, x
    <3>5. Live(u) => Live(u)'
      <4>1. CASE u = x
        <5>1. Live(u) => status \in {"PENDING", "FAILED"}
          BY <1>3, <4>1 DEF Live, x
        <5>2. \A v \in Workers : worker'[v].phase = "ended" /\ worker'[v].task = u
                                 => ~HoldsLease(v)'
          BY <2>1, <2>2, <4>1 DEF HoldsLease
        <5> QED BY <2>1, <4>1, <5>1, <5>2 DEF Live
      <4>2. CASE u # x
        BY <1>2, <2>1, <4>2 DEF Live, HoldsLease
      <4> QED BY <4>1, <4>2
    <3> QED BY <3>2, <3>3, <3>4, <3>5 DEF QuietTask
  <2>4. \A v \in Workers : ~Free(v)' => task'[worker'[v].task].status # "NONE"
    <3>1. \A v \in Workers : ~Free(v) => worker[v].task \in Tasks
      BY DEF QueueInv, InHandIsTask
    <3> QED BY <1>2, <2>1, <3>1 DEF TasksFollow, Free
  <2> QED BY <2>3, <2>4 DEF Quiet
<1>4. CASE ~HoldsLease(w)
  <2>1. task' = task
    BY <1>4 DEF Settle
  <2>2. \A u \in Tasks : QuietTask(u)
    BY <1>2, <2>1 DEF QuietTask, Performed, Refused, EndedAs, Live, HoldsLease
  <2>3. \A v \in Workers : ~Free(v)' => task'[worker'[v].task].status # "NONE"
    BY <1>2, <2>1 DEF TasksFollow, Free
  <2> QED BY <2>2, <2>3 DEF Quiet
<1> QED BY <1>3, <1>4

\* Rows that are given up or replayed while workers go on.
LEMMA RowsReopenedAreQuiet ==
    ASSUME QueueInv, TasksFollow, worker' = worker, NEW S \in SUBSET Tasks,
           NEW status \in {"PENDING", "FAILED"},
           \A t \in S : /\ task[t].status # "NONE"
                        /\ task'[t].status = status /\ task'[t].lease = None,
           \A t \in Tasks \ S : task'[t] = task[t]
    PROVE  Quiet
<1>0. \A v \in Workers : v # None
  BY QueueAssumption
<1>1. \A u \in Tasks : QuietTask(u)
  <2> SUFFICES ASSUME NEW u \in Tasks PROVE QuietTask(u)
    OBVIOUS
  <2>1. CASE u \in S
    BY <1>0, <2>1 DEF QuietTask, Performed, Refused, EndedAs, Live, HoldsLease
  <2>2. CASE u \notin S
    BY <2>2 DEF QuietTask, Performed, Refused, EndedAs, Live, HoldsLease
  <2> QED BY <2>1, <2>2
<1>2. \A v \in Workers : ~Free(v)' => task'[worker'[v].task].status # "NONE"
  <2>1. \A v \in Workers : ~Free(v) => worker[v].task \in Tasks
    BY DEF QueueInv, InHandIsTask
  <2> QED BY <2>1 DEF TasksFollow, Free
<1> QED BY <1>1, <1>2 DEF Quiet

LEMMA QueueStepIsQuiet ==
    ASSUME QueueInv, TasksFollow, QueueStep
    PROVE  Quiet
<1>0. task \in [Tasks -> TaskRows] /\ worker \in [Workers -> WorkerRecords]
      /\ requeuing \in SUBSET Tasks
  BY DEF QueueInv, QueueTypeOK
<1>1. ASSUME NEW w \in Workers, completeTask(w)
      PROVE  Quiet
  BY <1>1, SettleIsQuiet DEF completeTask
<1>2. ASSUME NEW w \in Workers, failTask(w)
      PROVE  Quiet
  <2>1. CASE worker[w].outcome = "canceled"
    BY <1>2, <2>1, SettleIsQuiet DEF failTask
  <2>2. CASE worker[w].outcome # "canceled"
    <3>1. PICK status \in {"PENDING", "FAILED"} : Settle(w, status)
      BY <1>2, <2>2 DEF failTask
    <3> QED BY <1>2, <2>2, <3>1, SettleIsQuiet DEF failTask
  <2> QED BY <2>1, <2>2
<1>3. CASE markExhaustedTasks
  <2>1. PICK lost \in SUBSET Exhausted :
          /\ task' = [t \in Tasks |-> IF t \in lost THEN Settled(task[t], "FAILED") ELSE task[t]]
          /\ worker' = worker
    BY <1>3 DEF markExhaustedTasks
  <2>2. lost \in SUBSET Tasks
    BY DEF Exhausted
  <2>3. \A t \in lost : /\ task[t].status # "NONE"
                        /\ task'[t].status = "FAILED" /\ task'[t].lease = None
    BY <1>0, <2>1, <2>2 DEF Exhausted, Settled, TaskRows
  <2>4. \A t \in Tasks \ lost : task'[t] = task[t]
    BY <2>1
  <2> QED BY <2>1, <2>2, <2>3, <2>4, RowsReopenedAreQuiet
<1>4. ASSUME NEW t \in Tasks, BeginRequeue(t) \/ AbandonRequeue(t)
      PROVE  Quiet
  <2>1. task' = task /\ worker' = worker
    BY <1>4 DEF BeginRequeue, AbandonRequeue
  <2>2. \A u \in Tasks : QuietTask(u)
    BY <2>1 DEF QuietTask, Performed, Refused, EndedAs, Live, HoldsLease
  <2> QED BY <2>1, <2>2 DEF Quiet, TasksFollow, Free
<1>5. ASSUME NEW t \in Tasks, Requeue(t)
      PROVE  Quiet
  <2>1. task[t].status # "NONE"
    BY <1>5 DEF Requeue, QueueInv, ReplayedAreOver
  <2>2. /\ task'[t].status = "PENDING" /\ task'[t].lease = None /\ worker' = worker
        /\ \A u \in Tasks \ {t} : task'[u] = task[u]
    BY <1>0, <1>5 DEF Requeue, Replayed, TaskRows
  <2>3. {t} \in SUBSET Tasks
    OBVIOUS
  <2> QED BY <2>1, <2>2, <2>3, RowsReopenedAreQuiet
<1> QED BY <1>1, <1>2, <1>3, <1>4, <1>5, ClaimIsQuiet, CompletionThrowsIsQuiet
           DEF QueueStep, BatchStep

(***************************************************************************)
(* Finalizations: new tasks, and a grant that is canceled.                 *)
(***************************************************************************)
\* Rows that a finalization leaves, but for those it creates or cancels.
LEMMA RowsOfFinalization ==
    ASSUME QueueInv, NEW S, NEW T \in SUBSET Tasks,
           task' = Enqueued(Withdrawn(task, S), T), worker' = worker
    PROVE  \A t \in Tasks :
              /\ task'[t].status = "NONE" <=> task[t].status = "NONE" /\ t \notin T
              /\ Performed(t)' => Performed(t)
              /\ t \notin S => (Refused(t)' => Refused(t)) /\ (Live(t) => Live(t)')
<1>0. task \in [Tasks -> TaskRows]
  BY DEF QueueInv, QueueTypeOK
<1> SUFFICES ASSUME NEW t \in Tasks
             PROVE  /\ task'[t].status = "NONE" <=> task[t].status = "NONE" /\ t \notin T
                    /\ Performed(t)' => Performed(t)
                    /\ t \notin S => (Refused(t)' => Refused(t)) /\ (Live(t) => Live(t)')
  OBVIOUS
<1>1. \/ /\ task'[t] = task[t]
         /\ task[t].status # "NONE" \/ t \notin T
      \/ /\ task[t].status = "NONE" /\ task'[t].status = "PENDING" /\ t \in T
      \/ /\ task[t].status \notin {"NONE", "COMPLETED"} /\ task'[t].status = "CANCELED" /\ t \in S
  <2>1. Withdrawn(task, S)[t] =
          IF t \in S /\ task[t].status \in {"PENDING", "PROCESSING", "FAILED"}
          THEN [task[t] EXCEPT !.status = "CANCELED"] ELSE task[t]
    BY DEF Withdrawn
  <2>2. task'[t] = IF t \in T /\ Withdrawn(task, S)[t].status = "NONE"
                   THEN [Absent EXCEPT !.status = "PENDING"] ELSE Withdrawn(task, S)[t]
    BY DEF Enqueued
  <2> QED BY <1>0, <2>1, <2>2 DEF TaskRows, Absent
<1>2. CASE task'[t] = task[t] /\ (task[t].status # "NONE" \/ t \notin T)
  BY <1>2 DEF Performed, Refused, EndedAs, Live, HoldsLease
<1>3. CASE task[t].status = "NONE" /\ task'[t].status = "PENDING" /\ t \in T
  BY <1>3 DEF Performed, Refused, EndedAs, Live, HoldsLease
<1>4. CASE task[t].status \notin {"NONE", "COMPLETED"} /\ task'[t].status = "CANCELED" /\ t \in S
  BY <1>4 DEF Performed, Refused, EndedAs, Live, HoldsLease
<1> QED BY <1>1, <1>2, <1>3, <1>4

\* A fully refunded order stays so, and its event is the one that enqueues the revocation.
LEMMA OrderMoves ==
    ASSUME RightsTypes, NEW e, processStripeRefundEvent(e)
    PROVE  /\ order'.status \in Refundable \cup {"REFUNDED"}
           /\ order'.status = "REFUNDED" <=> order.status = "REFUNDED" \/ RefundsInFull(e)
<1>1. CASE e.status = "SUCCEEDED" /\ ~Outdated(e)
  <2>1. order'.status = Moved(canTransitionOrder(order.status, StatusAfter(e)),
                             order.status, StatusAfter(e))
    BY <1>1 DEF processStripeRefundEvent, applyRefundEvent, applySucceededRefund
  <2>2. StatusAfter(e) \in {"REFUNDED", "PARTIALLY_REFUNDED"}
    BY DEF StatusAfter
  <2>3. RefundsInFull(e) <=> StatusAfter(e) = "REFUNDED"
    BY <1>1 DEF RefundsInFull
  <2>4. order.status \in {"PAID", "PARTIALLY_REFUNDED", "REFUNDED"}
    BY DEF RightsTypes, Refundable
  <2>5. order'.status = IF canTransitionOrder(order.status, StatusAfter(e))
                        THEN StatusAfter(e) ELSE order.status
    BY <2>1 DEF Moved
  <2> QED BY <2>2, <2>3, <2>4, <2>5 DEF canTransitionOrder, ORDER_TRANSITIONS, Refundable
<1>2. CASE ~(e.status = "SUCCEEDED" /\ ~Outdated(e))
  BY <1>2 DEF processStripeRefundEvent, applyRefundEvent, RefundsInFull, RightsTypes
<1> QED BY <1>1, <1>2

LEMMA RefundKeeps ==
    ASSUME QueueInv, RightsInv, NEW e \in refundEvents, RefundFinalized(e)
    PROVE  RightsInv'
<1> DEFINE T == IF RefundsInFull(e) THEN {REVOKE("order")} ELSE {}
<1>0. /\ worker' = worker /\ decision' = decision /\ given' = given
      /\ dispute' = dispute /\ disputeEvents' = disputeEvents
  BY DEF RefundFinalized, disputeVars
<1>1. \A t \in Tasks :
        /\ task'[t].status = "NONE" <=> task[t].status = "NONE" /\ t \notin T
        /\ Performed(t)' => Performed(t)
        /\ t # GRANT => (Refused(t)' => Refused(t)) /\ (Live(t) => Live(t)')
  <2>1. CASE RefundsInFull(e)
    <3>1. task' = Enqueued(Withdrawn(task, {GRANT}), {REVOKE("order")})
      BY <2>1 DEF RefundFinalized, RightsAfterRefund
    <3>2. {REVOKE("order")} \in SUBSET Tasks
      BY NamesAreTasks
    <3>3. \A t \in Tasks :
            /\ task'[t].status = "NONE" <=> task[t].status = "NONE" /\ t \notin {REVOKE("order")}
            /\ Performed(t)' => Performed(t)
            /\ t \notin {GRANT} => (Refused(t)' => Refused(t)) /\ (Live(t) => Live(t)')
      BY <1>0, <3>1, <3>2, RowsOfFinalization
    <3> QED BY <2>1, <3>3
  <2>2. CASE ~RefundsInFull(e)
    <3>1. task' = task
      BY <2>2 DEF RefundFinalized, RightsAfterRefund
    <3> QED BY <1>0, <2>2, <3>1 DEF Performed, Refused, EndedAs, Live, HoldsLease
  <2> QED BY <2>1, <2>2
<1>2. /\ GRANT \notin Revoking
      /\ \A d \in Disputes : GRANT # SUSPEND(d) /\ GRANT # RESTORE(d)
  BY DEF GRANT, Revoking, SUSPEND, RESTORE, REVOKE
<1>3. /\ order'.status \in Refundable \cup {"REFUNDED"}
      /\ order'.status = "REFUNDED" <=> order.status = "REFUNDED" \/ RefundsInFull(e)
  BY OrderMoves DEF RefundFinalized, RightsInv
<1>4. RightsTypes'
  BY <1>0, <1>3 DEF RightsInv, RightsTypes
<1>5. TasksFollow'
  <2>1. (task[REVOKE("order")].status # "NONE" <=> order.status = "REFUNDED")'
    BY <1>1, <1>3, NamesAreTasks DEF RightsInv, TasksFollow
  <2>2. \A d \in Disputes : SUSPEND(d) \notin T /\ RESTORE(d) \notin T /\ REVOKE(d) \notin T
    BY NamesDiffer
  <2>3. \A v \in Workers : ~Free(v) => worker[v].task \in Tasks
    BY DEF QueueInv, InHandIsTask
  <2> HIDE DEF T
  <2>4. \A w \in Workers : ~Free(w)' => task'[worker'[w].task].status # "NONE"
    BY <1>0, <1>1, <2>3 DEF RightsInv, TasksFollow, Free
  <2> QED BY <1>0, <1>1, <2>1, <2>2, <2>4, NamesAreTasks DEF RightsInv, TasksFollow
<1>6. DecisionsOK'
  BY <1>0 DEF RightsInv, DecisionsOK, Running
<1> HIDE DEF T
<1>7. RefusalsOK'
  BY <1>0, <1>1, <1>2, NamesAreTasks DEF RightsInv, RefusalsOK
<1>8. /\ deliveryState' = "ACTIVE" => deliveryState = "ACTIVE"
      /\ deliveryState = "REVOKED" => deliveryState' = "REVOKED"
  BY <1>0, <1>3 DEF deliveryState
<1>9. RevokedOK'
  BY <1>0, <1>1, <1>8, NamesAreTasks DEF RightsInv, RevokedOK
<1>10. SuspendedOK'
  BY <1>0, <1>1, NamesAreTasks DEF RightsInv, SuspendedOK
<1>11. RestoredOK'
  BY <1>0, <1>1, <1>2, <1>8, NamesAreTasks DEF RightsInv, RestoredOK
<1> QED BY <1>4, <1>5, <1>6, <1>7, <1>9, <1>10, <1>11 DEF RightsInv

LEMMA DisputeKeeps ==
    ASSUME QueueInv, RightsInv, NEW e \in disputeEvents, processStripeDisputeEvent(e)
    PROVE  RightsInv'
<1> DEFINE d == e.dispute
           n == rightsTaskForDispute(e)
<1>0. /\ worker' = worker /\ decision' = decision /\ given' = given /\ order' = order
      /\ disputeEvents' = disputeEvents \ {e}
      /\ d \in Disputes /\ e.status \in {"OPEN", "WON", "LOST"}
      /\ dispute \in [Disputes -> DisputeStatuses \cup {"NONE"}]
  BY DEF processStripeDisputeEvent, refundVars, RightsInv, RightsTypes, DisputeStatuses
<1>1. CASE IgnoredTerminal(e)
  <2>1. task' = task /\ dispute' = dispute
    BY <1>1 DEF processStripeDisputeEvent, applyDisputeEvent
  <2>2. deliveryState' = deliveryState
    BY <1>0, <2>1 DEF deliveryState
  <2>3. \A t : (Performed(t)' <=> Performed(t)) /\ (Refused(t)' <=> Refused(t))
               /\ (Live(t)' <=> Live(t))
    BY <1>0, <2>1 DEF Performed, Refused, EndedAs, Live, HoldsLease
  <2>4. RightsTypes' /\ TasksFollow' /\ DecisionsOK' /\ RefusalsOK'
    BY <1>0, <2>1, <2>3
       DEF RightsInv, RightsTypes, TasksFollow, DecisionsOK, RefusalsOK, Running, Free
  <2>5. RevokedOK' /\ SuspendedOK' /\ RestoredOK'
    BY <1>0, <2>1, <2>2, <2>3 DEF RightsInv, RevokedOK, SuspendedOK, RestoredOK
  <2> QED BY <2>4, <2>5 DEF RightsInv
<1>2. CASE ~IgnoredTerminal(e)
  <2>1. /\ dispute' = [dispute EXCEPT ![d] = e.status]
        /\ task' = Enqueued(task, {n})
    BY <1>2 DEF processStripeDisputeEvent, applyDisputeEvent
  <2>2. /\ dispute'[d] = e.status /\ \A c \in Disputes \ {d} : dispute'[c] = dispute[c]
        /\ dispute[d] \in {"WON", "LOST"} => dispute[d] = e.status
    BY <1>0, <1>2, <2>1 DEF IgnoredTerminal
  <2>3. /\ e.status = "OPEN" => n = SUSPEND(d)
        /\ e.status = "WON"  => n = RESTORE(d)
        /\ e.status = "LOST" => n = REVOKE(d)
        /\ n \in Tasks
    BY <1>0, NamesAreTasks DEF rightsTaskForDispute
  <2>4. \A t \in Tasks :
          /\ task'[t].status = "NONE" <=> task[t].status = "NONE" /\ t # n
          /\ Performed(t)' => Performed(t)
          /\ Refused(t)' => Refused(t)
          /\ Live(t) => Live(t)'
    <3> DEFINE nothing == {}
    <3>1. Withdrawn(task, nothing) = task
      BY DEF Withdrawn, QueueInv, QueueTypeOK
    <3>2. {n} \in SUBSET Tasks /\ task' = Enqueued(Withdrawn(task, nothing), {n})
      BY <2>1, <2>3, <3>1
    <3>3. \A t \in Tasks : t \notin nothing
      OBVIOUS
    <3> HIDE DEF n, nothing
    <3>4. \A t \in Tasks :
            /\ task'[t].status = "NONE" <=> task[t].status = "NONE" /\ t \notin {n}
            /\ Performed(t)' => Performed(t)
            /\ t \notin nothing => (Refused(t)' => Refused(t)) /\ (Live(t) => Live(t)')
      BY <1>0, <3>2, RowsOfFinalization
    <3> QED BY <3>3, <3>4
  <2> HIDE DEF d, n
  <2>5. RightsTypes'
    BY <1>0, <2>1 DEF RightsInv, RightsTypes, DisputeStatuses
  <2>6. DecisionsOK'
    BY <1>0 DEF RightsInv, DecisionsOK, Running
  <2>7. \A v \in Workers : ~Free(v) => worker[v].task \in Tasks
    BY DEF QueueInv, InHandIsTask
  <2>8. TasksFollow'
    <3>1. (task[REVOKE("order")].status # "NONE" <=> order.status = "REFUNDED")'
      BY <1>0, <2>3, <2>4, NamesDiffer, NamesAreTasks DEF RightsInv, TasksFollow
    <3>2. \A w \in Workers : ~Free(w)' => task'[worker'[w].task].status # "NONE"
      BY <1>0, <2>4, <2>7 DEF RightsInv, TasksFollow, Free
    <3>3. ASSUME NEW c \in Disputes
          PROVE  (/\ task[SUSPEND(c)].status # "NONE" => dispute[c] # "NONE"
                  /\ dispute[c] = "OPEN" => task[SUSPEND(c)].status # "NONE"
                  /\ task[RESTORE(c)].status # "NONE" <=> dispute[c] = "WON"
                  /\ task[REVOKE(c)].status # "NONE" <=> dispute[c] = "LOST")'
      <4>1. /\ SUSPEND(c) = n <=> c = d /\ e.status = "OPEN"
            /\ RESTORE(c) = n <=> c = d /\ e.status = "WON"
            /\ REVOKE(c) = n <=> c = d /\ e.status = "LOST"
        BY <1>0, <2>3, NamesDiffer
      <4> QED BY <1>0, <2>2, <2>4, <4>1, NamesAreTasks DEF RightsInv, TasksFollow
    <3> QED BY <3>1, <3>2, <3>3 DEF TasksFollow
  <2>9. RefusalsOK'
    <3>1. \A c \in Disputes : Refused(SUSPEND(c)) => dispute[c] # "NONE"
      BY <2>7, NamesAreTasks DEF RightsInv, TasksFollow, Refused, EndedAs, Free
    <3> QED BY <1>0, <2>2, <2>4, <3>1, NamesAreTasks DEF RightsInv, RefusalsOK, DisputeStatuses
  <2>10. /\ deliveryState' = "ACTIVE" =>
              \/ deliveryState = "ACTIVE"
              \/ deliveryState = "SUSPENDED" /\ dispute[d] = "OPEN" /\ e.status = "WON"
         /\ deliveryState = "REVOKED" => deliveryState' = "REVOKED"
    BY <1>0, <2>2 DEF deliveryState
  <2>11. RevokedOK'
    BY <1>0, <2>4, <2>10, NamesAreTasks DEF RightsInv, RevokedOK
  <2>12. SuspendedOK'
    <3>1. \A c \in Disputes : Performed(SUSPEND(c)) => dispute[c] # "NONE"
      BY <2>7, NamesAreTasks DEF RightsInv, TasksFollow, Performed, EndedAs, Free
    <3> QED BY <1>0, <2>2, <2>4, <3>1, NamesAreTasks DEF RightsInv, SuspendedOK, DisputeStatuses
  <2>13. RestoredOK'
    <3>1. CASE deliveryState = "ACTIVE"
      BY <1>0, <2>4, <3>1, NamesAreTasks DEF RightsInv, RestoredOK
    <3>2. CASE dispute[d] = "OPEN" /\ e.status = "WON"
      <4>1. task[RESTORE(d)].status = "NONE" /\ n = RESTORE(d)
        BY <1>0, <2>3, <3>2 DEF RightsInv, TasksFollow
      <4>2. task'[n].status = "PENDING"
        BY <2>1, <2>3, <4>1 DEF Enqueued, Absent
      <4>3. \A w \in Workers : ~Free(w)' => worker'[w].task # n
        BY <1>0, <4>1 DEF RightsInv, TasksFollow, Free
      <4>4. Live(n)'
        BY <4>2, <4>3 DEF Live, Free
      <4> QED BY <1>0, <4>1, <4>4 DEF RestoredOK
    <3> QED BY <2>10, <3>1, <3>2 DEF RestoredOK
  <2> QED BY <2>5, <2>6, <2>8, <2>9, <2>11, <2>12, <2>13 DEF RightsInv
<1> QED BY <1>1, <1>2

(***************************************************************************)
(* Handlers that read, and handlers that write.                            *)
(***************************************************************************)
\* What each kind of task decides.
LEMMA Verdicts ==
    /\ \A t \in Deliveries : Verdict(t) = IF DeliveryAllowed THEN deliveryState ELSE "canceled"
    /\ \A d \in Disputes :
          /\ Verdict(SUSPEND(d)) = IF dispute[d] = "OPEN" THEN "SUSPENDED" ELSE "canceled"
          /\ Verdict(RESTORE(d)) =
                IF DeliveryAllowed /\ dispute[d] = "WON" /\ Blocking(Disputes) = {}
                THEN "ACTIVE" ELSE "canceled"
    /\ \A t \in Revoking : Verdict(t) = IF deliveryState = "REVOKED" THEN "REVOKED" ELSE "retryable"
<1>1. \A t \in Deliveries : t[1] \in {"GRANT_DOWNLOAD_RIGHTS", "GENERATE_CERTIFICATE"}
  BY DEF Deliveries, Creates, GRANT, CERTIFICATE
<1>2. \A t \in Deliveries : Verdict(t) = IF DeliveryAllowed THEN deliveryState ELSE "canceled"
  BY <1>1 DEF Verdict
<1>3. ASSUME NEW d \in Disputes
      PROVE  Verdict(SUSPEND(d)) = IF dispute[d] = "OPEN" THEN "SUSPENDED" ELSE "canceled"
  <2>1. /\ SUSPEND(d)[1] = "SUSPEND_DOWNLOAD_RIGHTS" /\ SUSPEND(d)[2] = d
        /\ SUSPEND(d) \notin Deliveries
    BY NamesDiffer DEF SUSPEND
  <2> QED BY <1>1, <2>1 DEF Verdict
<1>4. ASSUME NEW d \in Disputes
      PROVE  Verdict(RESTORE(d)) =
                IF DeliveryAllowed /\ dispute[d] = "WON" /\ Blocking(Disputes) = {}
                THEN "ACTIVE" ELSE "canceled"
  <2>1. /\ RESTORE(d)[1] = "RESTORE_DOWNLOAD_RIGHTS" /\ RESTORE(d)[2] = d
        /\ RESTORE(d) \notin Deliveries
    BY NamesDiffer DEF RESTORE
  <2> QED BY <1>1, <2>1 DEF Verdict
<1>5. ASSUME NEW t \in Revoking
      PROVE  Verdict(t) = IF deliveryState = "REVOKED" THEN "REVOKED" ELSE "retryable"
  <2>1. t[1] = "REVOKE_DOWNLOAD_RIGHTS"
    BY DEF Revoking, REVOKE
  <2>2. deliveryState = "REVOKED"
          <=> order.status = "REFUNDED" \/ \E d \in Disputes : dispute[d] = "LOST"
    BY DEF deliveryState
  <2> QED BY <1>1, <2>1, <2>2 DEF Verdict
<1> QED BY <1>2, <1>3, <1>4, <1>5

\* A handler that ends changes what may be said of its own task only.
LEMMA HandlerEndsElsewhere ==
    ASSUME QueueInv, TasksFollow, NEW w \in Workers, NEW outcome, HandlerEnds(w, outcome)
    PROVE  /\ task' = task /\ worker[w].task \in Tasks
           /\ \A t \in Tasks \ {worker[w].task} : QuietTask(t)
           /\ outcome # "done" => \A t \in Tasks : Performed(t)' => Performed(t)
           /\ outcome # "canceled" => \A t \in Tasks : Refused(t)' => Refused(t)
           /\ \A v \in Workers : ~Free(v)' => task'[worker'[v].task].status # "NONE"
<1>0. /\ worker' = [worker EXCEPT ![w] = [@ EXCEPT !.phase = "ended", !.outcome = outcome]]
      /\ task' = task /\ worker \in [Workers -> WorkerRecords] /\ Running(w)
      /\ worker[w].task \in Tasks
  BY DEF HandlerEnds, QueueInv, QueueTypeOK, InHandIsTask, Running, Free
<1>1. /\ worker'[w].phase = "ended" /\ worker'[w].outcome = outcome
      /\ worker'[w].task = worker[w].task
      /\ \A v \in Workers \ {w} : worker'[v] = worker[v]
  BY <1>0 DEF WorkerRecords
<1>2. \A t \in Tasks \ {worker[w].task} : QuietTask(t)
  BY <1>0, <1>1 DEF QuietTask, Performed, Refused, EndedAs, Live, HoldsLease
<1>3. outcome # "done" => \A t \in Tasks : Performed(t)' => Performed(t)
  BY <1>0, <1>1 DEF Performed, EndedAs
<1>4. outcome # "canceled" => \A t \in Tasks : Refused(t)' => Refused(t)
  BY <1>0, <1>1 DEF Refused, EndedAs
<1>5. \A v \in Workers : ~Free(v)' => task'[worker'[v].task].status # "NONE"
  BY <1>0, <1>1 DEF TasksFollow, Free, Running
<1> QED BY <1>0, <1>2, <1>3, <1>4, <1>5

\* A task that has run exists.
LEMMA PerformedExists ==
    ASSUME RightsInv, NEW t \in Tasks, Performed(t)
    PROVE  task[t].status # "NONE"
  BY DEF Performed, EndedAs, RightsInv, TasksFollow, Free

LEMMA RefusalKeeps ==
    ASSUME QueueInv, RightsInv, NEW w \in Workers, LockFree, HandlerEnds(w, "canceled"),
           Verdict(worker[w].task) = "canceled",
           UNCHANGED <<order, disputeVars, given, decision>>
    PROVE  RightsInv'
<1> DEFINE t == worker[w].task
<1>0. /\ task' = task /\ t \in Tasks /\ Running(w)
      /\ \A u \in Tasks \ {t} : QuietTask(u)
      /\ \A u \in Tasks : Performed(u)' => Performed(u)
      /\ \A v \in Workers : ~Free(v)' => task'[worker'[v].task].status # "NONE"
  BY HandlerEndsElsewhere DEF RightsInv, HandlerEnds
<1>1. \A v \in Workers : decision'[v] = "none"
  BY DEF LockFree
<1>2. t \notin Revoking /\ \A d \in Disputes : t = SUSPEND(d) => dispute[d] # "OPEN"
  BY Verdicts
<1>3. \A d \in Disputes : t = RESTORE(d) => deliveryState # "ACTIVE"
  <2> SUFFICES ASSUME NEW d \in Disputes, t = RESTORE(d)
               PROVE  deliveryState # "ACTIVE"
    OBVIOUS
  <2>1. dispute[d] = "WON"
    BY <1>0 DEF RightsInv, TasksFollow, Running, Free
  <2>2. ~DeliveryAllowed \/ Blocking(Disputes) # {}
    BY <2>1, Verdicts
  <2> QED BY <2>2 DEF DeliveryAllowed, Blocking, deliveryState, RightsInv, RightsTypes
<1> HIDE DEF t
<1>4. RightsTypes' /\ DecisionsOK'
  BY <1>1 DEF RightsInv, RightsTypes, DecisionsOK, disputeVars
<1>5. TasksFollow'
  BY <1>0 DEF RightsInv, TasksFollow, disputeVars
<1>6. RefusalsOK'
  BY <1>0, <1>2, NamesAreTasks DEF RightsInv, RefusalsOK, QuietTask, disputeVars
<1>7. deliveryState' = deliveryState
  BY DEF deliveryState, disputeVars
<1>8. RevokedOK'
  BY <1>0, <1>1, <1>7, NamesAreTasks DEF RightsInv, RevokedOK
<1>9. SuspendedOK'
  BY <1>0, <1>1, NamesAreTasks DEF RightsInv, SuspendedOK, disputeVars
<1>10. RestoredOK'
  BY <1>0, <1>1, <1>3, <1>7, NamesAreTasks DEF RightsInv, RestoredOK, QuietTask
<1> QED BY <1>4, <1>5, <1>6, <1>8, <1>9, <1>10 DEF RightsInv

LEMMA DecisionKeeps ==
    ASSUME QueueInv, RightsInv, NEW w \in Workers, LockFree, Running(w),
           Verdict(worker[w].task) \in RightsStatuses,
           decision' = [decision EXCEPT ![w] = Verdict(worker[w].task)],
           UNCHANGED <<queue, order, disputeVars, given>>
    PROVE  RightsInv'
<1> DEFINE t == worker[w].task
           verdict == Verdict(t)
<1>0. /\ task' = task /\ worker' = worker /\ t \in Tasks
      /\ \A u : (Performed(u)' <=> Performed(u)) /\ (Refused(u)' <=> Refused(u))
                /\ (Live(u)' <=> Live(u))
  BY DEF queue, Performed, Refused, EndedAs, Live, HoldsLease, QueueInv, InHandIsTask, Running, Free
<1>1. /\ decision'[w] = verdict /\ \A v \in Workers \ {w} : decision'[v] = "none"
      /\ verdict # "none" /\ verdict \in RightsStatuses
  BY DEF LockFree, RightsInv, RightsTypes, RightsStatuses
<1>2. /\ t \in Deliveries => verdict = deliveryState
      /\ t \in Revoking => verdict = "REVOKED" /\ deliveryState = "REVOKED"
      /\ \A d \in Disputes : t = SUSPEND(d) => verdict = "SUSPENDED" /\ dispute[d] = "OPEN"
      /\ \A d \in Disputes : t = RESTORE(d) => verdict = "ACTIVE" /\ Blocking(Disputes) = {}
  BY Verdicts DEF RightsStatuses
<1> HIDE DEF t, verdict
<1>3. verdict = "REVOKED" => deliveryState = "REVOKED"
  BY <1>0, <1>2, NamesAreTasks
<1>4. verdict = "ACTIVE" => \A d \in Disputes : dispute[d] # "OPEN"
  BY <1>0, <1>2, NamesAreTasks DEF Blocking, deliveryState
<1>5. verdict = "SUSPENDED" => deliveryState # "ACTIVE"
  BY <1>0, <1>2, NamesAreTasks DEF deliveryState
<1>6. deliveryState' = deliveryState /\ given' = given /\ dispute' = dispute
  BY DEF deliveryState, disputeVars
<1>7. RightsTypes' /\ TasksFollow' /\ RefusalsOK'
  <2>1. RightsTypes'
    BY <1>1 DEF RightsInv, RightsTypes, disputeVars, t, verdict
  <2> QED BY <1>0, <1>6, <2>1 DEF RightsInv, TasksFollow, RefusalsOK, Free
<1>8. DecisionsOK'
  BY <1>0, <1>1, <1>2 DEF DecisionsOK, Running, t
<1>9. RevokedOK'
  <2>1. ASSUME NEW r \in Revoking, Performed(r)
        PROVE  deliveryState = "REVOKED"
    <3>1. r \in Tasks /\ task[r].status # "NONE"
      BY <2>1, NamesAreTasks, PerformedExists
    <3> QED BY <3>1 DEF RightsInv, TasksFollow, Revoking, deliveryState
  <2>2. \A v \in Workers : decision'[v] # "none" => v = w
    BY <1>1
  <2> QED BY <1>0, <1>1, <1>2, <1>3, <1>6, <2>1, <2>2 DEF RightsInv, RevokedOK, t
<1>10. SuspendedOK'
  BY <1>0, <1>1, <1>4, <1>6 DEF RightsInv, SuspendedOK
<1>11. RestoredOK'
  BY <1>0, <1>1, <1>5, <1>6 DEF RightsInv, RestoredOK
<1> QED BY <1>7, <1>8, <1>9, <1>10, <1>11 DEF RightsInv

LEMMA LockKeeps ==
    ASSUME QueueInv, RightsInv, NEW w \in Workers, lockedOrder(w)
    PROVE  RightsInv'
<1> DEFINE verdict == Verdict(worker[w].task)
<1>0. /\ Running(w) /\ LockFree /\ order' = order /\ given' = given
      /\ UNCHANGED disputeVars
  BY DEF lockedOrder, refundVars
<1>1. CASE verdict \in RightsStatuses
  <2>1. decision' = [decision EXCEPT ![w] = verdict] /\ UNCHANGED queue
    BY <1>1 DEF lockedOrder
  <2> QED BY <1>0, <1>1, <2>1, DecisionKeeps
<1>2. CASE verdict \notin RightsStatuses
  <2>1. HandlerEnds(w, verdict) /\ decision' = decision
    BY <1>2 DEF lockedOrder
  <2>2. verdict \in {"canceled", "retryable"}
    <3>1. worker[w].task \in Tasks
      BY <1>0 DEF QueueInv, InHandIsTask, Running, Free
    <3> QED BY <1>2, <3>1, VerdictIsKnown
  <2>3. CASE verdict = "canceled"
    BY <1>0, <2>1, <2>3, RefusalKeeps
  <2>4. CASE verdict = "retryable"
    <3>1. Quiet
      BY <2>1, <2>4, RetryIsQuiet DEF RightsInv
    <3>2. DecisionsKept
      BY <1>0, <2>1 DEF LockFree, DecisionsKept
    <3>3. decision' \in [Workers -> RightsStatuses \cup {"none"}]
      BY <2>1 DEF RightsInv, RightsTypes
    <3> QED BY <1>0, <3>1, <3>2, <3>3, QuietKeeps
  <2> QED BY <2>2, <2>3, <2>4
<1> QED BY <1>1, <1>2

LEMMA CommitKeeps ==
    ASSUME QueueInv, RightsInv, NEW w \in Workers, CommitRights(w)
    PROVE  RightsInv'
<1> DEFINE t == worker[w].task
           made == decision[w]
<1>0. /\ task' = task /\ t \in Tasks
      /\ \A u \in Tasks \ {t} : QuietTask(u)
      /\ \A u \in Tasks : Refused(u)' => Refused(u)
      /\ \A v \in Workers : ~Free(v)' => task'[worker'[v].task].status # "NONE"
      /\ made # "none" /\ made \in RightsStatuses
      /\ UNCHANGED <<order, disputeVars>>
  BY HandlerEndsElsewhere DEF CommitRights, RightsInv, RightsTypes, refundVars
<1>1. \A v \in Workers : decision'[v] = "none"
  BY <1>0 DEF CommitRights, RightsInv, RightsTypes, DecisionsOK
<1>2. /\ t \in Revoking => made = "REVOKED"
      /\ \A d \in Disputes : t = SUSPEND(d) => made = "SUSPENDED"
      /\ \A d \in Disputes : t = RESTORE(d) => made = "ACTIVE"
  BY <1>0 DEF RightsInv, DecisionsOK
<1>3. \A k \in Kinds : given'[k] \in {given[k], made}
  BY DEF CommitRights, Rights
<1>4. /\ t \in Revoking => \A k \in Kinds : given'[k] \in {"NONE", "REVOKED"}
      /\ \A d \in Disputes : t = SUSPEND(d) => \A k \in Kinds : given'[k] # "ACTIVE"
      /\ \A d \in Disputes : t = RESTORE(d) => \A k \in Kinds : given'[k] # "SUSPENDED"
      /\ t \notin Deliveries => \A k \in Kinds :
            given[k] \in {"NONE", "REVOKED"} => given'[k] = given[k]
  <2>1. \A k \in Kinds : given[k] \in {"ACTIVE", "SUSPENDED", "REVOKED", "NONE"}
    BY DEF RightsInv, RightsTypes, RightsStatuses
  <2>2. \A k \in Kinds : t = Creates(k) => t \in Deliveries
    BY DEF Deliveries
  <2>3. CASE t \in Deliveries
    BY <2>3, NamesDiffer
  <2>4. CASE t \in Revoking
    <3>1. t[1] = "REVOKE_DOWNLOAD_RIGHTS" /\ t \notin Deliveries
      BY <2>4, NamesDiffer DEF Revoking, REVOKE
    <3>2. \A k \in Kinds :
            given'[k] = IF given[k] \in {"ACTIVE", "SUSPENDED"} THEN made ELSE given[k]
      BY <2>2, <3>1 DEF CommitRights, Rights
    <3>3. \A d \in Disputes : t # SUSPEND(d) /\ t # RESTORE(d)
      BY <2>4, NamesDiffer DEF Revoking
    <3> QED BY <1>2, <2>1, <2>4, <3>2, <3>3
  <2>5. ASSUME NEW d \in Disputes, t = SUSPEND(d)
        PROVE  <1>4!:
    <3>1. /\ t[1] = "SUSPEND_DOWNLOAD_RIGHTS" /\ t \notin Deliveries /\ t \notin Revoking
          /\ \A e \in Disputes : t # RESTORE(e)
      BY <2>5, NamesDiffer DEF SUSPEND, Revoking
    <3>2. \A k \in Kinds : given'[k] = IF given[k] = "ACTIVE" THEN made ELSE given[k]
      BY <2>2, <3>1 DEF CommitRights, Rights
    <3> QED BY <1>2, <2>1, <2>5, <3>1, <3>2
  <2>6. ASSUME NEW d \in Disputes, t = RESTORE(d)
        PROVE  <1>4!:
    <3>1. /\ t[1] = "RESTORE_DOWNLOAD_RIGHTS" /\ t \notin Deliveries /\ t \notin Revoking
          /\ \A e \in Disputes : t # SUSPEND(e)
      BY <2>6, NamesDiffer DEF RESTORE, Revoking
    <3>2. \A k \in Kinds : given'[k] = IF given[k] = "SUSPENDED" THEN made ELSE given[k]
      BY <2>2, <3>1 DEF CommitRights, Rights
    <3> QED BY <1>2, <2>1, <2>6, <3>1, <3>2
  <2> QED BY <1>0, <2>3, <2>4, <2>5, <2>6, NamesAreTasks
<1>5. deliveryState' = deliveryState /\ dispute' = dispute
  BY <1>0 DEF deliveryState, disputeVars
<1>6. \A u \in Tasks \ {t} : (Performed(u)' => Performed(u)) /\ (Live(u) => Live(u)')
  BY <1>0 DEF QuietTask
<1>7. made = "REVOKED" => deliveryState = "REVOKED"
  BY DEF RightsInv, RevokedOK
<1>8. RightsTypes'
  <2>1. given' \in [Kinds -> RightsStatuses \cup {"NONE"}]
    BY <1>0 DEF CommitRights, Rights, RightsInv, RightsTypes
  <2>2. decision' \in [Workers -> RightsStatuses \cup {"none"}]
    BY DEF CommitRights, RightsInv, RightsTypes
  <2> QED BY <1>0, <2>1, <2>2 DEF RightsInv, RightsTypes, disputeVars
<1> HIDE DEF t, made
<1>9. TasksFollow' /\ DecisionsOK' /\ RefusalsOK'
  BY <1>0, <1>1, <1>5, NamesAreTasks DEF RightsInv, TasksFollow, DecisionsOK, RefusalsOK
<1>10. RevokedOK'
  <2>1. (\E k \in Kinds : given'[k] = "REVOKED") => deliveryState' = "REVOKED"
    BY <1>3, <1>5, <1>7 DEF RightsInv, RevokedOK
  <2>2. ASSUME NEW r \in Revoking, Performed(r)', NEW k \in Kinds
        PROVE  given'[k] \in {"NONE", "REVOKED"}
    <3>1. CASE t \in Revoking
      BY <1>4, <3>1
    <3>2. CASE t \notin Revoking
      <4>1. r \in Tasks /\ Performed(r)
        BY <1>6, <2>2, <3>2, NamesAreTasks
      <4>2. given[k] \in {"NONE", "REVOKED"}
        BY <4>1 DEF RightsInv, RevokedOK
      <4>3. t \in Deliveries => made = "REVOKED"
        BY <1>0, <4>1 DEF RightsInv, RevokedOK, t, made
      <4> QED BY <1>3, <1>4, <4>2, <4>3
    <3> QED BY <3>1, <3>2
  <2> QED BY <1>1, <2>1, <2>2 DEF RevokedOK
<1>11. SuspendedOK'
  <2> SUFFICES ASSUME NEW d \in Disputes, Performed(SUSPEND(d))', dispute'[d] = "OPEN",
                      NEW k \in Kinds
               PROVE  given'[k] # "ACTIVE"
    BY <1>1 DEF SuspendedOK
  <2>1. CASE t = SUSPEND(d)
    BY <1>4, <2>1
  <2>2. CASE t # SUSPEND(d)
    <3>1. Performed(SUSPEND(d)) /\ dispute[d] = "OPEN"
      BY <1>5, <1>6, <2>2, NamesAreTasks
    <3>2. given[k] # "ACTIVE" /\ made # "ACTIVE"
      BY <3>1 DEF RightsInv, SuspendedOK, made
    <3> QED BY <1>3, <3>2
  <2> QED BY <2>1, <2>2
<1>12. RestoredOK'
  <2> SUFFICES ASSUME deliveryState = "ACTIVE", NEW k \in Kinds, given'[k] = "SUSPENDED"
               PROVE  \E d \in Disputes : Live(RESTORE(d))'
    BY <1>1, <1>5 DEF RestoredOK
  <2>1. given[k] = "SUSPENDED" \/ made = "SUSPENDED"
    BY <1>3
  <2>2. PICK d \in Disputes : Live(RESTORE(d))
    BY <2>1 DEF RightsInv, RestoredOK, made
  <2>3. t # RESTORE(d)
    BY <1>4
  <2> QED BY <1>6, <2>2, <2>3, NamesAreTasks
<1> QED BY <1>8, <1>9, <1>10, <1>11, <1>12 DEF RightsInv

(***************************************************************************)
(* All steps.                                                              *)
(***************************************************************************)
LEMMA RightsStart == DeliveryInit => RightsInv
<1> SUFFICES ASSUME DeliveryInit PROVE RightsInv
  OBVIOUS
<1>1. /\ order.status = "PAID" /\ dispute = [d \in Disputes |-> "NONE"] /\ disputeEvents = {}
      /\ given = [k \in Kinds |-> "NONE"] /\ decision = [w \in Workers |-> "none"]
      /\ worker = [w \in Workers |-> IdleLoop]
  BY DEF DeliveryInit, QueueInit
<1>2. /\ \A w \in Workers : worker[w].phase = "idle"
      /\ \A t \in Tasks : task[t].status = IF t \in Deliveries THEN "PENDING" ELSE "NONE"
  BY <1>1 DEF IdleLoop, DeliveryInit, QueueInit, Absent
<1>3. RightsTypes
  BY <1>1 DEF RightsTypes, DisputeStatuses, RightsStatuses, Refundable
<1>4. \A t \in Revoking : task[t].status = "NONE"
  BY <1>2, NamesAreTasks, NamesDiffer
<1>5. \A d \in Disputes : task[SUSPEND(d)].status = "NONE" /\ task[RESTORE(d)].status = "NONE"
  BY <1>2, NamesAreTasks, NamesDiffer
<1>6. TasksFollow
  BY <1>1, <1>2, <1>4, <1>5 DEF TasksFollow, Revoking, Free
<1>7. DecisionsOK
  BY <1>1 DEF DecisionsOK
<1>8. RefusalsOK
  BY <1>1, <1>2, <1>4, <1>5 DEF RefusalsOK, Refused, EndedAs
<1>9. RevokedOK /\ SuspendedOK /\ RestoredOK
  BY <1>1 DEF RevokedOK, SuspendedOK, RestoredOK
<1> QED BY <1>3, <1>6, <1>7, <1>8, <1>9 DEF RightsInv

LEMMA RightsStutter ==
    ASSUME QueueInv, RightsInv,
           UNCHANGED <<order, queue, dispute, given, decision>>,
           disputeEvents' \in SUBSET [dispute : Disputes, status : DisputeStatuses]
    PROVE  RightsInv'
<1>1. \A t : (Performed(t)' <=> Performed(t)) /\ (Refused(t)' <=> Refused(t))
             /\ (Live(t)' <=> Live(t))
  BY DEF queue, Performed, Refused, EndedAs, Live, HoldsLease
<1>2. deliveryState' = deliveryState
  BY DEF deliveryState
<1>3. RightsTypes' /\ TasksFollow' /\ DecisionsOK' /\ RefusalsOK'
  BY <1>1 DEF RightsInv, RightsTypes, TasksFollow, DecisionsOK, RefusalsOK, Running, Free, queue
<1>4. RevokedOK' /\ SuspendedOK' /\ RestoredOK'
  BY <1>1, <1>2 DEF RightsInv, RevokedOK, SuspendedOK, RestoredOK, queue
<1> QED BY <1>3, <1>4 DEF RightsInv

LEMMA RightsStep ==
    ASSUME QueueInv, RightsInv, [DeliveryNext]_deliveryVars
    PROVE  RightsInv'
<1>0. /\ TasksFollow /\ disputeEvents \in SUBSET [dispute : Disputes, status : DisputeStatuses]
      /\ decision \in [Workers -> RightsStatuses \cup {"none"}]
      /\ \A w \in Workers : decision[w] # "none" => Running(w)
  BY DEF RightsInv, RightsTypes, DecisionsOK
<1>1. CASE \/ RefundProgress \/ \E u \in Downloaders : BeginDownload(u) \/ FinishDownload(u)
           \/ UNCHANGED deliveryVars
  <2>1. UNCHANGED <<order, queue, dispute, disputeEvents, given, decision>>
    BY <1>1 DEF RefundProgress, StripeSettles, BeginDownload, FinishDownload, deliveryVars,
                refundVars, disputeVars
  <2> QED BY <1>0, <2>1, RightsStutter
<1>2. ASSUME NEW d \in Disputes, StripeDispute(d)
      PROVE  RightsInv'
  <2>1. UNCHANGED <<order, queue, dispute, given, decision>>
    BY <1>2 DEF StripeDispute, refundVars
  <2>2. disputeEvents' \in SUBSET [dispute : Disputes, status : DisputeStatuses]
    BY <1>0, <1>2 DEF StripeDispute
  <2> QED BY <2>1, <2>2, RightsStutter
<1>3. CASE Queued(QueueStep)
  <2>1. Quiet /\ UNCHANGED <<order, disputeVars, given, decision>>
    BY <1>0, <1>3, QueueStepIsQuiet DEF Queued, refundVars
  <2>2. \A w \in Workers : Running(w) => worker'[w] = worker[w]
    <3>1. worker \in [Workers -> WorkerRecords]
      BY DEF QueueInv, QueueTypeOK
    <3> QED BY <1>3, <3>1
            DEF Queued, QueueStep, BatchStep, claimNextTask, completeTask, failTask, Settle,
                CompletionThrows, markExhaustedTasks, BeginRequeue, Requeue, AbandonRequeue, Running, Free
  <2>3. DecisionsKept
    BY <1>0, <2>1, <2>2 DEF DecisionsKept
  <2> QED BY <1>0, <2>1, <2>3, QuietKeeps
<1>4. ASSUME NEW w \in Workers, HandlerThrows(w) \/ ServerCrash(w)
      PROVE  RightsInv'
  <2>1. Quiet /\ UNCHANGED <<order, disputeVars, given>>
    BY <1>0, <1>4, RetryIsQuiet, CrashIsQuiet DEF HandlerThrows, ServerCrash, refundVars
  <2>2. decision' = [decision EXCEPT ![w] = "none"]
    BY <1>4 DEF HandlerThrows, ServerCrash
  <2>3. \A v \in Workers \ {w} : worker'[v] = worker[v]
    <3>1. worker \in [Workers -> WorkerRecords]
      BY DEF QueueInv, QueueTypeOK
    <3> QED BY <1>4, <3>1 DEF HandlerThrows, ServerCrash, HandlerEnds, Crash
  <2>4. DecisionsKept /\ decision' \in [Workers -> RightsStatuses \cup {"none"}]
    BY <1>0, <2>2, <2>3 DEF DecisionsKept
  <2> QED BY <2>1, <2>4, QuietKeeps
<1> QED
  BY <1>1, <1>2, <1>3, <1>4, RefundKeeps, DisputeKeeps, LockKeeps, CommitKeeps
     DEF DeliveryNext, DisputeStep, HandlerStep

\* Once every task is over, the rights are those the order and its disputes call for.
THEOREM RightsSettle == DeliverySpec => []RightsSettled
<1>1. QueueInv /\ RightsInv /\ [DeliveryNext]_deliveryVars => RightsInv'
  BY RightsStep
<1>2. QueueInv /\ RightsInv => RightsSettled
  BY RightsFollow
<1> QED BY <1>1, <1>2, RightsStart, QueueInvariance, PTL DEF DeliverySpec
(***************************************************************************)
(* Types.  The refunds keep the invariant of their own module, whatever    *)
(* the delivery does next to them.                                         *)
(***************************************************************************)
LEMMA RefundsAlready == DeliveryInit => RefundsInv
<1> SUFFICES ASSUME DeliveryInit PROVE RefundsInv
  OBVIOUS
<1>1. /\ order = [status |-> "PAID", payment |-> "SUCCEEDED", refunded |-> 0]
      /\ refund \in [Refunds -> [status : {"PENDING"}, amount : 1 .. Total, linked : {TRUE}]]
      /\ Amount(Refunds) <= Total /\ admin = [a \in Admins |-> AtRest]
      /\ stripeRefund = [r \in Refunds |-> "pending"] /\ refundEvents = {}
  BY DEF DeliveryInit
<1>2. RefundsTypeOK
  <2>1. refund \in [Refunds -> [status : RefundStatuses \cup {"NONE"}, amount : 0 .. Total,
                                linked : BOOLEAN]]
    <3>1. \A r \in Refunds : refund[r] \in [status : RefundStatuses \cup {"NONE"},
                                           amount : 0 .. Total, linked : BOOLEAN]
      <4> SUFFICES ASSUME NEW r \in Refunds
                   PROVE  refund[r] \in [status : RefundStatuses \cup {"NONE"},
                                        amount : 0 .. Total, linked : BOOLEAN]
        OBVIOUS
      <4>1. refund[r] \in [status : {"PENDING"}, amount : 1 .. Total, linked : {TRUE}]
        BY <1>1
      <4>2. 1 .. Total \subseteq 0 .. Total /\ {TRUE} \subseteq BOOLEAN
            /\ {"PENDING"} \subseteq RefundStatuses \cup {"NONE"}
        BY RefundsAssumption DEF RefundStatuses
      <4> QED BY <4>1, <4>2
    <3>2. refund = [r \in Refunds |-> refund[r]]
      BY <1>1
    <3> QED BY <3>1, <3>2
  <2> QED BY <1>1, <2>1, RefundsAssumption DEF RefundsTypeOK, Refundable, AtRest, ProviderStates
<1>3. /\ WithStatus({"PENDING", "SUCCEEDED"}) = Refunds
      /\ WithStatus({"SUCCEEDED"}) = {}
  BY <1>1 DEF WithStatus
<1>4. IsFiniteSet(Units(Refunds))
  <2>1. IsFiniteSet(1 .. Total)
    BY RefundsAssumption, FS_Interval
  <2>2. IsFiniteSet(Refunds \X (1 .. Total))
    BY <2>1, DeliveryAssumption, FS_Product
  <2>3. Units(Refunds) \subseteq Refunds \X (1 .. Total)
    BY DEF Units
  <2> QED BY <2>2, <2>3, FS_Subset
<1>5. Covered
  <2>1. \A r \in Refunds : refund[r].amount \in 1 .. Total /\ refund[r].status = "PENDING"
    BY <1>1
  <2>2. \A r \in Refunds : refund[r].amount = 0 <=> refund[r].status = "NONE"
    BY <2>1, RefundsAssumption
  <2> QED BY <1>1, <1>3, <1>4, <2>2 DEF Covered
<1>6. OrderMatchesRefunds
  <2>1. Amount({}) = 0
    BY SumsNow, AmountOfNone
  <2> QED BY <1>1, <1>3, <2>1 DEF OrderMatchesRefunds
<1>7. InHandExist /\ RowFollowsBank /\ EventsFollowBank
  BY <1>1 DEF InHandExist, RowFollowsBank, EventsFollowBank, AtRest
<1> QED BY <1>2, <1>5, <1>6, <1>7 DEF RefundsInv

LEMMA RefundsUnderDelivery ==
    ASSUME RefundsInv, [DeliveryNext]_deliveryVars
    PROVE  RefundsInv'
<1>1. CASE RefundProgress
  BY <1>1, SettlesKeeps DEF RefundProgress
<1>2. ASSUME NEW e \in refundEvents, RefundFinalized(e)
      PROVE  RefundsInv'
  BY <1>2, EventKeeps DEF RefundFinalized
<1>3. CASE UNCHANGED refundVars
  BY <1>3, RefundsStutter
<1> QED
  BY <1>1, <1>2, <1>3
     DEF DeliveryNext, DisputeStep, StripeDispute, processStripeDisputeEvent, Queued,
         HandlerStep, lockedOrder, CommitRights, HandlerThrows, ServerCrash, BeginDownload,
         FinishDownload, deliveryVars

StripeDisputeTypes == stripeDispute \in [Disputes -> DisputeStatuses \cup {"NONE"}]

LEMMA StripeDisputesStep ==
    ASSUME StripeDisputeTypes, [DeliveryNext]_deliveryVars
    PROVE  StripeDisputeTypes'
<1>1. ASSUME NEW d \in Disputes, StripeDispute(d)
      PROVE  StripeDisputeTypes'
  BY <1>1 DEF StripeDispute, StripeDisputeTypes
<1>2. CASE UNCHANGED stripeDispute
  BY <1>2 DEF StripeDisputeTypes
<1> QED
  BY <1>1, <1>2
     DEF DeliveryNext, RefundProgress, RefundFinalized, DisputeStep, processStripeDisputeEvent,
         Queued, HandlerStep, lockedOrder, CommitRights, HandlerThrows, ServerCrash,
         BeginDownload, FinishDownload, disputeVars, deliveryVars

LEMMA TypesFollow ==
    ASSUME RefundsInv, QueueInv, RightsInv, DownloadInv, StripeDisputeTypes
    PROVE  DeliveryTypeOK
<1>1. downloads \in 0 .. downloadLimit + Cardinality(Downloaders)
  BY CheckedIsFinite, DeliveryAssumption
     DEF DownloadInv, DownloadTypes, DownloadsBounded, Checked
<1> QED
  BY <1>1
     DEF DeliveryTypeOK, RefundsInv, QueueInv, RightsInv, RightsTypes, DownloadInv,
         DownloadTypes, StripeDisputeTypes

\* Rows, tasks, rights and requests keep their shapes while refunds, disputes, handlers and
\* downloads interleave, and the count of downloads stays within its range.
THEOREM DeliveryTypes == DeliverySpec => []DeliveryTypeOK
<1> DEFINE TypesInv == RefundsInv /\ QueueInv /\ RightsInv /\ DownloadInv /\ StripeDisputeTypes
<1>1. DeliveryInit => TypesInv
  <2>1. DeliveryInit => StripeDisputeTypes
    BY DEF DeliveryInit, StripeDisputeTypes
  <2> QED BY <2>1, RefundsAlready, QueueStarted, RightsStart, DownloadsStart
<1>2. TypesInv /\ [DeliveryNext]_deliveryVars => TypesInv'
  BY RefundsUnderDelivery, QueueUnderDelivery, RightsStep, DownloadsStep, StripeDisputesStep
<1>3. TypesInv => DeliveryTypeOK
  BY TypesFollow
<1> QED BY <1>1, <1>2, <1>3, PTL DEF DeliverySpec
=============================================================================
