--------------------------- MODULE FulfillmentQueue ---------------------------
(***************************************************************************)
(* The outbox of durable tasks and the workers that execute them           *)
(* (services/fulfillment-task.service.js), with the operator's replay of a *)
(* failed task (services/payment-operations.service.js).                   *)
(*                                                                         *)
(* Several server processes each run one batch at a time, so a worker has  *)
(* at most one task in hand, and a lease token is named by the worker that *)
(* was given it.  The worker keeps working while its lease expires, is     *)
(* claimed by another worker, canceled or replayed: it does not look.      *)
(* Time is not counted: the lease of a task in progress may have expired   *)
(* whenever somebody looks at it.                                          *)
(* What a handler does is left to the modules that extend this one; they   *)
(* say when HandlerEnds may happen and what it changes.                    *)
(***************************************************************************)
EXTENDS Naturals, FiniteSets

CONSTANTS
    Tasks,          \* task keys: one row at most is ever created for each
    Workers,        \* processes that execute batches
    None,           \* "no value" (null)
    maxAttempts,    \* claims before a task is given up
    MaxRequeues     \* bound: replays of one task by operators

ASSUME QueueAssumption ==
    /\ None \notin Workers \cup Tasks
    /\ maxAttempts \in Nat \ {0}
    /\ MaxRequeues \in Nat

VARIABLES
    task,           \* [Tasks -> task row, its status "NONE" before creation]
    worker,         \* [Workers -> what the batch loop is doing]
    requeuing       \* tasks an operator's replay has read as FAILED and not yet written

queue == <<task, worker, requeuing>>

TaskStatuses == {"PENDING", "PROCESSING", "COMPLETED", "FAILED", "CANCELED"}
Outcomes     == {"done", "retryable", "permanent", "canceled"}

TaskRows == [status : TaskStatuses \cup {"NONE"}, attempts : 0 .. maxAttempts,
             lease : Workers \cup {None}, requeues : 0 .. MaxRequeues]
WorkerRecords == [phase : {"idle", "running", "ended"}, task : Tasks \cup {None},
                  attempts : 0 .. maxAttempts, outcome : Outcomes]

Absent   == [status |-> "NONE", attempts |-> 0, lease |-> None, requeues |-> 0]
IdleLoop == [phase |-> "idle", task |-> None, attempts |-> 0, outcome |-> "done"]

QueueTypeOK ==
    /\ task \in [Tasks -> TaskRows]
    /\ worker \in [Workers -> WorkerRecords]
    /\ requeuing \in SUBSET Tasks

\* The tasks of S are waiting.
QueueInit(S) ==
    /\ task = [t \in Tasks |-> IF t \in S THEN [Absent EXCEPT !.status = "PENDING"] ELSE Absent]
    /\ worker = [w \in Workers |-> IdleLoop]
    /\ requeuing = {}

-----------------------------------------------------------------------------
(* What other services do to the rows, inside their own transactions.      *)

\* createMany with skipDuplicates: a key that exists is left as it is.
Enqueued(rows, S) ==
    [t \in Tasks |-> IF t \in S /\ rows[t].status = "NONE"
                     THEN [Absent EXCEPT !.status = "PENDING"] ELSE rows[t]]

\* updateMany to CANCELED: the lease of a task in progress is left in place.
Withdrawn(rows, S) ==
    [t \in Tasks |-> IF t \in S /\ rows[t].status \in {"PENDING", "PROCESSING", "FAILED"}
                     THEN [rows[t] EXCEPT !.status = "CANCELED"] ELSE rows[t]]

-----------------------------------------------------------------------------
(* The batch loop.                                                         *)

Free(w) == worker[w].phase = "idle"
Running(w) == worker[w].phase = "running"

\* Faulty variant: any worker that once claimed the task may write its result.
HoldsLease_anyClaim(w) == task[worker[w].task].status # "NONE"

\* The guard of every result: still PROCESSING, under the token this worker was given.
HoldsLease(w) == /\ task[worker[w].task].status = "PROCESSING"
                 /\ task[worker[w].task].lease = w

Settled(row, status) == [row EXCEPT !.status = status, !.lease = None]

\* Faulty variant: the number of attempts is not looked at.
Claimable_withoutLimit(t) == task[t].status \in {"PENDING", "PROCESSING"}

\* A new task, or one whose worker has not settled it within its lease.
Claimable(t) ==
    /\ task[t].status \in {"PENDING", "PROCESSING"}
    /\ task[t].attempts < maxAttempts

Claimed(row, w) == [row EXCEPT !.status = "PROCESSING", !.attempts = @ + 1, !.lease = w]

\* FOR UPDATE SKIP LOCKED: one statement, so one worker per row.
claimNextTask(w, t) ==
    /\ Free(w) /\ Claimable(t)
    /\ task' = [task EXCEPT ![t] = Claimed(@, w)]
    /\ worker' = [worker EXCEPT ![w] = [phase |-> "running", task |-> t, outcome |-> "done",
                                        attempts |-> task[t].attempts + 1]]
    /\ UNCHANGED requeuing

\* The handler of the task in hand has returned, or thrown an error of a kind.
HandlerEnds(w, outcome) ==
    /\ Running(w)
    /\ worker' = [worker EXCEPT ![w] = [@ EXCEPT !.phase = "ended", !.outcome = outcome]]
    /\ UNCHANGED <<task, requeuing>>

\* The batch loop writes the result if the lease is still its own, and goes on.
Settle(w, status) ==
    /\ task' = IF HoldsLease(w)
               THEN [task EXCEPT ![worker[w].task] = Settled(@, status)] ELSE task
    /\ worker' = [worker EXCEPT ![w] = IdleLoop]
    /\ UNCHANGED requeuing

completeTask(w) ==
    /\ worker[w].phase = "ended" /\ worker[w].outcome = "done"
    /\ Settle(w, "COMPLETED")

\* The write of the result throws, although the handler has done its work: the catch of
\* the loop makes it a failure like any other.
CompletionThrows(w) ==
    /\ worker[w].phase = "ended" /\ worker[w].outcome = "done"
    /\ worker' = [worker EXCEPT ![w].outcome = "retryable"]
    /\ UNCHANGED <<task, requeuing>>

\* Faulty variant: the last attempt is not made.
MayRetry_offByOne(w) == worker[w].outcome = "retryable" /\ worker[w].attempts + 1 < maxAttempts

MayRetry(w) == worker[w].outcome = "retryable" /\ worker[w].attempts < maxAttempts

failTask(w) ==
    /\ worker[w].phase = "ended" /\ worker[w].outcome # "done"
    /\ Settle(w, IF worker[w].outcome = "canceled" THEN "CANCELED"
                 ELSE IF MayRetry(w) THEN "PENDING" ELSE "FAILED")

\* Faulty variant: the sweep looks for tasks still waiting only.
Exhausted_waitingOnly ==
    {t \in Tasks : task[t].attempts >= maxAttempts /\ task[t].status = "PENDING"}

Exhausted == {t \in Tasks : /\ task[t].attempts >= maxAttempts
                            /\ task[t].status \in {"PENDING", "PROCESSING"}}

\* First statement of a batch: give up what was claimed too often.  Of the tasks in
\* progress it takes those whose lease has expired.
markExhaustedTasks ==
    \E lost \in SUBSET Exhausted :
        /\ lost # {} /\ {t \in Exhausted : task[t].status = "PENDING"} \subseteq lost
        /\ \E w \in Workers : Free(w)
        /\ task' = [t \in Tasks |-> IF t \in lost THEN Settled(task[t], "FAILED") ELSE task[t]]
        /\ UNCHANGED <<worker, requeuing>>

\* The process dies and restarts; the row knows nothing of it.
Crash(w) ==
    /\ ~Free(w)
    /\ worker' = [worker EXCEPT ![w] = IdleLoop]
    /\ UNCHANGED <<task, requeuing>>

-----------------------------------------------------------------------------
(* requeueFulfillmentTask: under a lock that other operators respect, and  *)
(* neither workers nor the finalization of a refund do.                    *)

BeginRequeue(t) ==
    /\ task[t].status = "FAILED" /\ task[t].requeues < MaxRequeues /\ t \notin requeuing
    /\ requeuing' = requeuing \cup {t}
    /\ UNCHANGED <<task, worker>>

Replayed(row) ==
    [row EXCEPT !.status = "PENDING", !.attempts = 0, !.lease = None, !.requeues = @ + 1]

Requeue(t) ==
    /\ t \in requeuing
    /\ requeuing' = requeuing \ {t}
    /\ task' = [task EXCEPT ![t] = Replayed(@)]
    /\ UNCHANGED worker

AbandonRequeue(t) ==
    /\ t \in requeuing
    /\ requeuing' = requeuing \ {t}
    /\ UNCHANGED <<task, worker>>

-----------------------------------------------------------------------------
BatchStep(w) == \/ \E t \in Tasks : claimNextTask(w, t)
                \/ completeTask(w)
                \/ failTask(w)

\* Every step of the queue but those that handlers take part in.
QueueStep ==
    \/ \E w \in Workers : BatchStep(w) \/ CompletionThrows(w)
    \/ markExhaustedTasks
    \/ \E t \in Tasks : BeginRequeue(t) \/ Requeue(t) \/ AbandonRequeue(t)

-----------------------------------------------------------------------------
(* Properties of the queue, whatever the handlers do.                      *)

\* Nobody reopens a completed task: neither a worker that lost its lease and fails
\* late, nor the exhaustion sweep, nor an operator (completeTask, failTask,
\* markExhaustedTasks, requeueFulfillmentTask, the cancellation by a refund).
CompletedIsFinal ==
    [][\A t \in Tasks : task[t].status = "COMPLETED" => task'[t] = task[t]]_queue

\* A task is given up only when its handler refused it for good, or when it has had
\* all its attempts: crashes, lost leases and replays never use up an attempt that was
\* not made (attemptCount in claimNextTask, failTask and markExhaustedTasks).
GivenUpWhenSpent ==
    [][\A t \in Tasks : task'[t].status = "FAILED" /\ task[t].status # "FAILED" =>
          \/ task[t].attempts = maxAttempts
          \/ \E w \in Workers : worker[w].task = t /\ worker[w].outcome = "permanent"]_queue

\* No task stays in the queue: whatever crashes, it is done, refused or given up, and
\* given up again after each replay.
TasksSettle ==
    \A t \in Tasks : task[t].status \in {"PENDING", "PROCESSING"}
                     ~> task[t].status \in {"COMPLETED", "FAILED", "CANCELED"}
=============================================================================
