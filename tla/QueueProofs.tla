------------------------------ MODULE QueueProofs ------------------------------
(***************************************************************************)
(* What every step of the queue preserves, for every number of tasks,      *)
(* workers, attempts and replays.  The modules that extend the queue cite  *)
(* these lemmas for their own specification.                               *)
(***************************************************************************)
EXTENDS FulfillmentQueue, TLAPS

\* An operator replays a task that was given up, and that nothing but the cancellation by
\* a refund has touched since.
ReplayedAreOver ==
    \A t \in requeuing : /\ task[t].status \in {"FAILED", "CANCELED"}
                         /\ task[t].requeues < MaxRequeues

\* A worker that still holds the lease counts the attempts as the row does.
AttemptsAgree ==
    \A w \in Workers : ~Free(w) /\ HoldsLease(w) =>
        worker[w].attempts = task[worker[w].task].attempts

InHandIsTask == \A w \in Workers : ~Free(w) => worker[w].task \in Tasks

QueueInv == QueueTypeOK /\ InHandIsTask /\ ReplayedAreOver /\ AttemptsAgree

\* What other services may do to the rows: new rows, and cancellations of open ones.
RowsMoved(rows, after) ==
    /\ after \in [Tasks -> TaskRows]
    /\ \A t \in Tasks :
          \/ after[t] = rows[t]
          \/ rows[t].status = "NONE" /\ after[t].status = "PENDING" /\ after[t].attempts = 0
          \/ /\ rows[t].status \in {"PENDING", "PROCESSING", "FAILED"}
             /\ after[t] = [rows[t] EXCEPT !.status = "CANCELED"]

FinalKept == \A t \in Tasks : task[t].status = "COMPLETED" => task'[t] = task[t]

GivenUpStep ==
    \A t \in Tasks : task'[t].status = "FAILED" /\ task[t].status # "FAILED" =>
        \/ task[t].attempts = maxAttempts
        \/ \E w \in Workers : worker[w].task = t /\ worker[w].outcome = "permanent"

LEMMA AbsentIsRow == Absent \in TaskRows /\ [Absent EXCEPT !.status = "PENDING"] \in TaskRows
  BY QueueAssumption DEF Absent, TaskRows, TaskStatuses

LEMMA IdleIsRecord == IdleLoop \in WorkerRecords
  BY QueueAssumption DEF IdleLoop, WorkerRecords, Outcomes

LEMMA QueueStarts ==
    ASSUME NEW S, QueueInit(S)
    PROVE  QueueInv
<1>1. QueueTypeOK
  BY AbsentIsRow, IdleIsRecord DEF QueueInit, QueueTypeOK
<1>2. InHandIsTask /\ ReplayedAreOver /\ AttemptsAgree
  BY DEF QueueInit, InHandIsTask, ReplayedAreOver, AttemptsAgree, Free, IdleLoop
<1> QED BY <1>1, <1>2 DEF QueueInv

(***************************************************************************)
(* Claims.                                                                 *)
(***************************************************************************)
LEMMA ClaimStep ==
    ASSUME QueueInv, NEW w \in Workers, NEW t \in Tasks, claimNextTask(w, t)
    PROVE  QueueInv' /\ FinalKept /\ GivenUpStep
<1> DEFINE row == Claimed(task[t], w)
           hand == [phase |-> "running", task |-> t, outcome |-> "done",
                    attempts |-> task[t].attempts + 1]
<1>0. /\ task' = [task EXCEPT ![t] = row]
      /\ worker' = [worker EXCEPT ![w] = hand]
      /\ requeuing' = requeuing
      /\ task[t].attempts < maxAttempts
      /\ task[t].status \in {"PENDING", "PROCESSING"}
  BY DEF claimNextTask, Claimable
<1>1. task[t] \in TaskRows
  BY DEF QueueInv, QueueTypeOK
<1>2. task[t].attempts + 1 \in 0 .. maxAttempts
  BY <1>0, <1>1, QueueAssumption DEF TaskRows
<1>3. row \in TaskRows /\ hand \in WorkerRecords
  <2>1. row \in TaskRows
    BY <1>1, <1>2 DEF TaskRows, TaskStatuses, Claimed
  <2>2. hand \in WorkerRecords
    BY <1>2 DEF WorkerRecords, Outcomes
  <2> QED BY <2>1, <2>2
<1>4. QueueTypeOK'
  BY <1>0, <1>3 DEF QueueInv, QueueTypeOK
<1>5. InHandIsTask'
  BY <1>0 DEF QueueInv, QueueTypeOK, InHandIsTask, Free
<1>6. ReplayedAreOver'
  BY <1>0 DEF QueueInv, QueueTypeOK, ReplayedAreOver, Claimed
<1>7. AttemptsAgree'
  <2> SUFFICES ASSUME NEW v \in Workers, ~Free(v)', HoldsLease(v)'
               PROVE  worker'[v].attempts = task'[worker'[v].task].attempts
    BY DEF AttemptsAgree
  <2>1. CASE v = w
    BY <2>1, <1>0, <1>1 DEF QueueInv, QueueTypeOK, TaskRows, Claimed
  <2>2. CASE v # w
    <3>1. worker'[v] = worker[v] /\ ~Free(v)
      BY <2>2, <1>0 DEF QueueInv, QueueTypeOK, Free
    <3>2. worker[v].task # t
      BY <3>1, <2>2, <1>0, <1>1 DEF QueueInv, QueueTypeOK, HoldsLease, TaskRows, Claimed
    <3>3. worker[v].task \in Tasks
      BY <3>1 DEF QueueInv, InHandIsTask
    <3>4. task'[worker[v].task] = task[worker[v].task]
      BY <3>2, <3>3, <1>0 DEF QueueInv, QueueTypeOK
    <3> QED BY <3>1, <3>4 DEF QueueInv, AttemptsAgree, HoldsLease
  <2> QED BY <2>1, <2>2
<1>8. FinalKept /\ GivenUpStep
  BY <1>0, <1>1 DEF QueueInv, QueueTypeOK, FinalKept, GivenUpStep, TaskRows, Claimed
<1> QED BY <1>4, <1>5, <1>6, <1>7, <1>8 DEF QueueInv

(***************************************************************************)
(* A worker goes on: the handler ends, the result is written, it dies.     *)
(***************************************************************************)
LEMMA RowsUntouched ==
    ASSUME QueueTypeOK, task' = task
    PROVE  FinalKept /\ GivenUpStep
  BY DEF FinalKept, GivenUpStep

LEMMA HandlerEndsStep ==
    ASSUME QueueInv, NEW w \in Workers, NEW outcome \in Outcomes, HandlerEnds(w, outcome)
    PROVE  QueueInv' /\ FinalKept /\ GivenUpStep
<1> DEFINE hand == [worker[w] EXCEPT !.phase = "ended", !.outcome = outcome]
<1>0. /\ worker' = [worker EXCEPT ![w] = hand]
      /\ task' = task /\ requeuing' = requeuing /\ ~Free(w)
  BY DEF HandlerEnds, Running, Free
<1>1. worker[w] \in WorkerRecords
  BY DEF QueueInv, QueueTypeOK
<1>2. hand \in WorkerRecords /\ hand.task = worker[w].task
      /\ hand.attempts = worker[w].attempts
  BY <1>1 DEF WorkerRecords
<1>3. QueueTypeOK'
  BY <1>0, <1>2 DEF QueueInv, QueueTypeOK
<1>4. \A v \in Workers : /\ worker'[v].task = worker[v].task
                         /\ worker'[v].attempts = worker[v].attempts
                         /\ Free(v)' <=> Free(v)
  BY <1>0, <1>2 DEF QueueInv, QueueTypeOK, Free
<1>5. InHandIsTask' /\ ReplayedAreOver' /\ AttemptsAgree'
  BY <1>0, <1>4 DEF QueueInv, InHandIsTask, ReplayedAreOver, AttemptsAgree, HoldsLease
<1> QED BY <1>0, <1>3, <1>5, RowsUntouched DEF QueueInv

LEMMA CompletionThrowsStep ==
    ASSUME QueueInv, NEW w \in Workers, CompletionThrows(w)
    PROVE  QueueInv' /\ FinalKept /\ GivenUpStep
<1> DEFINE hand == [worker[w] EXCEPT !.outcome = "retryable"]
<1>0. /\ worker' = [worker EXCEPT ![w] = hand]
      /\ task' = task /\ requeuing' = requeuing
  BY DEF CompletionThrows
<1>1. worker[w] \in WorkerRecords
  BY DEF QueueInv, QueueTypeOK
<1>2. /\ hand \in WorkerRecords /\ hand.task = worker[w].task /\ hand.phase = worker[w].phase
      /\ hand.attempts = worker[w].attempts
  BY <1>1 DEF WorkerRecords, Outcomes
<1>3. QueueTypeOK'
  BY <1>0, <1>2 DEF QueueInv, QueueTypeOK
<1>4. \A v \in Workers : /\ worker'[v].task = worker[v].task
                         /\ worker'[v].attempts = worker[v].attempts
                         /\ Free(v)' <=> Free(v)
  BY <1>0, <1>2 DEF QueueInv, QueueTypeOK, Free
<1>5. InHandIsTask' /\ ReplayedAreOver' /\ AttemptsAgree'
  BY <1>0, <1>4 DEF QueueInv, InHandIsTask, ReplayedAreOver, AttemptsAgree, HoldsLease
<1> QED BY <1>0, <1>3, <1>5, RowsUntouched DEF QueueInv

LEMMA CrashStep ==
    ASSUME QueueInv, NEW w \in Workers, Crash(w)
    PROVE  QueueInv' /\ FinalKept /\ GivenUpStep
<1>0. worker' = [worker EXCEPT ![w] = IdleLoop] /\ task' = task /\ requeuing' = requeuing
  BY DEF Crash
<1>1. QueueTypeOK'
  BY <1>0, IdleIsRecord DEF QueueInv, QueueTypeOK
<1>2. \A v \in Workers : ~Free(v)' => worker'[v] = worker[v] /\ ~Free(v)
  BY <1>0 DEF QueueInv, QueueTypeOK, Free, IdleLoop
<1>3. InHandIsTask' /\ ReplayedAreOver' /\ AttemptsAgree'
  BY <1>0, <1>2 DEF QueueInv, InHandIsTask, ReplayedAreOver, AttemptsAgree, HoldsLease
<1> QED BY <1>0, <1>1, <1>3, RowsUntouched DEF QueueInv

\* Writing a result: only a row in progress moves, and only under the worker's own lease.
LEMMA SettleStep ==
    ASSUME QueueInv, NEW w \in Workers, ~Free(w), NEW status \in TaskStatuses \ {"PROCESSING"},
           Settle(w, status),
           status = "FAILED" => \/ worker[w].attempts >= maxAttempts
                                \/ worker[w].outcome = "permanent"
    PROVE  QueueInv' /\ FinalKept /\ GivenUpStep
<1> DEFINE mine == worker[w].task
<1>0. /\ task' = IF HoldsLease(w) THEN [task EXCEPT ![mine] = Settled(@, status)] ELSE task
      /\ worker' = [worker EXCEPT ![w] = IdleLoop] /\ requeuing' = requeuing
  BY DEF Settle
<1>1. mine \in Tasks /\ task[mine] \in TaskRows /\ worker[w] \in WorkerRecords
  BY DEF QueueInv, QueueTypeOK, InHandIsTask
<1>2. Settled(task[mine], status) \in TaskRows
  BY <1>1 DEF TaskRows, Settled
<1>3. QueueTypeOK'
  BY <1>0, <1>1, <1>2, IdleIsRecord DEF QueueInv, QueueTypeOK
<1>4. \A v \in Workers : ~Free(v)' => worker'[v] = worker[v] /\ ~Free(v)
  BY <1>0 DEF QueueInv, QueueTypeOK, Free, IdleLoop
<1>5. InHandIsTask'
  BY <1>0, <1>4 DEF QueueInv, InHandIsTask
<1>6. ReplayedAreOver'
  BY <1>0, <1>1 DEF QueueInv, QueueTypeOK, ReplayedAreOver, HoldsLease
<1>7. \A t \in Tasks : \/ task'[t] = task[t]
                       \/ /\ t = mine /\ HoldsLease(w)
                          /\ task'[t] = Settled(task[t], status)
  BY <1>0, <1>1 DEF QueueInv, QueueTypeOK
<1>8. AttemptsAgree'
  <2> SUFFICES ASSUME NEW v \in Workers, ~Free(v)', HoldsLease(v)'
               PROVE  worker'[v].attempts = task'[worker'[v].task].attempts
    BY DEF AttemptsAgree
  <2>1. worker'[v] = worker[v] /\ ~Free(v) /\ worker[v].task \in Tasks
    BY <1>4 DEF QueueInv, InHandIsTask
  <2>2. task'[worker[v].task] = task[worker[v].task]
    <3>1. task'[worker[v].task].status = "PROCESSING"
      BY <2>1 DEF HoldsLease
    <3>2. task[worker[v].task] \in TaskRows
      BY <2>1 DEF QueueInv, QueueTypeOK
    <3>3. CASE task'[worker[v].task] = Settled(task[worker[v].task], status)
      <4>1. task'[worker[v].task].status = status
        BY <3>2, <3>3 DEF Settled, TaskRows
      <4> QED BY <3>1, <4>1
    <3> QED BY <1>7, <2>1, <3>3
  <2> QED BY <2>1, <2>2 DEF QueueInv, AttemptsAgree, HoldsLease
<1>9. FinalKept
  BY <1>7 DEF FinalKept, HoldsLease
<1>10. GivenUpStep
  <2> SUFFICES ASSUME NEW t \in Tasks, task'[t].status = "FAILED", task[t].status # "FAILED"
               PROVE  \/ task[t].attempts = maxAttempts
                      \/ \E v \in Workers : worker[v].task = t /\ worker[v].outcome = "permanent"
    BY DEF GivenUpStep
  <2>1. t = mine /\ HoldsLease(w) /\ task'[t] = Settled(task[t], status)
    BY <1>7
  <2>2. status = "FAILED"
    BY <2>1, <1>1 DEF Settled, TaskRows
  <2>3. worker[w].attempts = task[t].attempts
    BY <2>1 DEF QueueInv, AttemptsAgree
  <2>4. CASE worker[w].attempts >= maxAttempts
    BY <2>3, <2>4, <1>1, QueueAssumption DEF WorkerRecords
  <2> QED BY <2>1, <2>2, <2>4
<1> QED BY <1>3, <1>5, <1>6, <1>8, <1>9, <1>10 DEF QueueInv

LEMMA CompleteStep ==
    ASSUME QueueInv, NEW w \in Workers, completeTask(w)
    PROVE  QueueInv' /\ FinalKept /\ GivenUpStep
  BY SettleStep DEF completeTask, Free, TaskStatuses

LEMMA FailStep ==
    ASSUME QueueInv, NEW w \in Workers, failTask(w)
    PROVE  QueueInv' /\ FinalKept /\ GivenUpStep
<1> DEFINE status == IF worker[w].outcome = "canceled" THEN "CANCELED"
                     ELSE IF MayRetry(w) THEN "PENDING" ELSE "FAILED"
<1>1. ~Free(w) /\ worker[w].outcome # "done" /\ Settle(w, status)
  BY DEF failTask, Free
<1>2. status \in TaskStatuses \ {"PROCESSING"}
  BY DEF TaskStatuses
<1>3. worker[w] \in WorkerRecords
  BY DEF QueueInv, QueueTypeOK
<1>4. status = "FAILED" => \/ worker[w].attempts >= maxAttempts
                           \/ worker[w].outcome = "permanent"
  BY <1>1, <1>3, QueueAssumption DEF MayRetry, WorkerRecords, Outcomes
<1> QED BY <1>1, <1>2, <1>4, SettleStep

(***************************************************************************)
(* Tasks given up, replayed, and moved by other services.                  *)
(***************************************************************************)
LEMMA ExhaustedStep ==
    ASSUME QueueInv, markExhaustedTasks
    PROVE  QueueInv' /\ FinalKept /\ GivenUpStep
<1>0. PICK lost \in SUBSET Exhausted :
        /\ task' = [t \in Tasks |-> IF t \in lost THEN Settled(task[t], "FAILED") ELSE task[t]]
        /\ worker' = worker /\ requeuing' = requeuing
  BY DEF markExhaustedTasks
<1>1. \A t \in Tasks : \/ task'[t] = task[t]
                       \/ /\ t \in Exhausted /\ task'[t] = Settled(task[t], "FAILED")
  BY <1>0
<1>2. \A t \in Tasks : task[t] \in TaskRows /\ Settled(task[t], "FAILED") \in TaskRows
  BY DEF QueueInv, QueueTypeOK, TaskRows, Settled, TaskStatuses
<1>3. QueueTypeOK'
  BY <1>0, <1>2 DEF QueueInv, QueueTypeOK
<1>4. \A t \in Tasks : Settled(task[t], "FAILED").status = "FAILED"
  BY <1>2 DEF TaskRows, Settled
<1>5. InHandIsTask' /\ ReplayedAreOver'
  <2>1. InHandIsTask'
    BY <1>0 DEF QueueInv, InHandIsTask, Free
  <2>2. \A t \in requeuing : t \in Tasks /\ t \notin Exhausted
    BY DEF QueueInv, QueueTypeOK, ReplayedAreOver, Exhausted
  <2>3. \A t \in requeuing : task'[t] = task[t]
    BY <1>1, <2>2
  <2> QED BY <1>0, <2>1, <2>3 DEF QueueInv, ReplayedAreOver
<1>6. AttemptsAgree'
  <2> SUFFICES ASSUME NEW v \in Workers, ~Free(v)', HoldsLease(v)'
               PROVE  worker'[v].attempts = task'[worker'[v].task].attempts
    BY DEF AttemptsAgree
  <2>1. worker[v].task \in Tasks /\ worker'[v] = worker[v] /\ ~Free(v)
    BY <1>0 DEF QueueInv, InHandIsTask, Free
  <2>2. task'[worker[v].task] = task[worker[v].task]
    BY <1>1, <1>4, <2>1 DEF HoldsLease
  <2> QED BY <2>1, <2>2 DEF QueueInv, AttemptsAgree, HoldsLease
<1>7. FinalKept
  BY <1>1 DEF FinalKept, Exhausted
<1>8. GivenUpStep
  BY <1>1, <1>2, QueueAssumption DEF GivenUpStep, Exhausted, TaskRows
<1> QED BY <1>3, <1>5, <1>6, <1>7, <1>8 DEF QueueInv

LEMMA ReplayStep ==
    ASSUME QueueInv, NEW t \in Tasks, BeginRequeue(t) \/ Requeue(t) \/ AbandonRequeue(t)
    PROVE  QueueInv' /\ FinalKept /\ GivenUpStep
<1>1. CASE BeginRequeue(t)
  <2>1. task' = task /\ worker' = worker /\ requeuing' = requeuing \cup {t}
        /\ task[t].status = "FAILED" /\ task[t].requeues < MaxRequeues
    BY <1>1 DEF BeginRequeue
  <2>2. QueueInv'
    BY <2>1 DEF QueueInv, QueueTypeOK, InHandIsTask, ReplayedAreOver, AttemptsAgree, Free,
                HoldsLease
  <2> QED BY <2>1, <2>2, RowsUntouched DEF QueueInv
<1>2. CASE AbandonRequeue(t)
  <2>1. task' = task /\ worker' = worker /\ requeuing' = requeuing \ {t}
    BY <1>2 DEF AbandonRequeue
  <2>2. QueueInv'
    BY <2>1 DEF QueueInv, QueueTypeOK, InHandIsTask, ReplayedAreOver, AttemptsAgree, Free,
                HoldsLease
  <2> QED BY <2>1, <2>2, RowsUntouched DEF QueueInv
<1>3. CASE Requeue(t)
  <2>0. /\ t \in requeuing /\ requeuing' = requeuing \ {t} /\ worker' = worker
        /\ task' = [task EXCEPT ![t] = Replayed(@)]
    BY <1>3 DEF Requeue
  <2>1. task[t] \in TaskRows /\ task[t].status \in {"FAILED", "CANCELED"}
    BY <2>0 DEF QueueInv, QueueTypeOK, ReplayedAreOver
  <2>2. task[t].requeues + 1 \in 0 .. MaxRequeues
    BY <2>0, <2>1, QueueAssumption DEF QueueInv, ReplayedAreOver, TaskRows
  <2>3. Replayed(task[t]) \in TaskRows /\ Replayed(task[t]).status = "PENDING"
    <3>1. 0 \in 0 .. maxAttempts
      BY QueueAssumption
    <3> QED BY <2>1, <2>2, <3>1 DEF TaskRows, TaskStatuses, Replayed
  <2>4. QueueTypeOK'
    BY <2>0, <2>3 DEF QueueInv, QueueTypeOK
  <2>5. InHandIsTask' /\ ReplayedAreOver'
    BY <2>0 DEF QueueInv, QueueTypeOK, InHandIsTask, ReplayedAreOver, Free
  <2>6. AttemptsAgree'
    <3> SUFFICES ASSUME NEW v \in Workers, ~Free(v)', HoldsLease(v)'
                 PROVE  worker'[v].attempts = task'[worker'[v].task].attempts
      BY DEF AttemptsAgree
    <3>1. worker[v].task \in Tasks /\ worker'[v] = worker[v] /\ ~Free(v)
      BY <2>0 DEF QueueInv, InHandIsTask, Free
    <3>2. task'[worker[v].task] = task[worker[v].task]
      BY <2>0, <2>3, <3>1 DEF QueueInv, QueueTypeOK, HoldsLease
    <3> QED BY <3>1, <3>2 DEF QueueInv, AttemptsAgree, HoldsLease
  <2>7. FinalKept /\ GivenUpStep
    BY <2>0, <2>1, <2>3 DEF QueueInv, QueueTypeOK, FinalKept, GivenUpStep
  <2> QED BY <2>4, <2>5, <2>6, <2>7 DEF QueueInv
<1> QED BY <1>1, <1>2, <1>3

LEMMA QueueStepKeeps ==
    ASSUME QueueInv, QueueStep
    PROVE  QueueInv' /\ FinalKept /\ GivenUpStep
  BY ClaimStep, CompleteStep, CompletionThrowsStep, FailStep, ExhaustedStep, ReplayStep
     DEF QueueStep, BatchStep

LEMMA RowsMovedStep ==
    ASSUME QueueInv, RowsMoved(task, task'), UNCHANGED <<worker, requeuing>>
    PROVE  QueueInv' /\ FinalKept /\ GivenUpStep
<1>1. \A t \in Tasks : task[t] \in TaskRows /\ task'[t] \in TaskRows
  BY DEF QueueInv, QueueTypeOK, RowsMoved
<1>2. QueueTypeOK'
  BY DEF QueueInv, QueueTypeOK, RowsMoved
<1>3. \A t \in Tasks :
        \/ task'[t] = task[t]
        \/ task[t].status = "NONE" /\ task'[t].status = "PENDING"
        \/ /\ task[t].status \in {"PENDING", "PROCESSING", "FAILED"}
           /\ task'[t].status = "CANCELED" /\ task'[t].requeues = task[t].requeues
  BY <1>1 DEF RowsMoved, TaskRows
<1>4. InHandIsTask'
  BY DEF QueueInv, InHandIsTask, Free
<1>5. ReplayedAreOver'
  BY <1>3 DEF QueueInv, QueueTypeOK, ReplayedAreOver
<1>6. AttemptsAgree'
  <2> SUFFICES ASSUME NEW v \in Workers, ~Free(v)', HoldsLease(v)'
               PROVE  worker'[v].attempts = task'[worker'[v].task].attempts
    BY DEF AttemptsAgree
  <2>1. worker[v].task \in Tasks /\ worker'[v] = worker[v] /\ ~Free(v)
    BY DEF QueueInv, InHandIsTask, Free
  <2>2. task'[worker[v].task] = task[worker[v].task]
    BY <1>3, <2>1 DEF HoldsLease
  <2> QED BY <2>1, <2>2 DEF QueueInv, AttemptsAgree, HoldsLease
<1>7. FinalKept /\ GivenUpStep
  BY <1>3 DEF FinalKept, GivenUpStep
<1> QED BY <1>2, <1>4, <1>5, <1>6, <1>7 DEF QueueInv

LEMMA QueueStutters ==
    ASSUME QueueInv, UNCHANGED queue
    PROVE  QueueInv' /\ FinalKept /\ GivenUpStep
  BY RowsUntouched DEF queue, QueueInv, QueueTypeOK, InHandIsTask, ReplayedAreOver, AttemptsAgree,
         Free, HoldsLease

\* Creating tasks and canceling others, in the two forms the services use.
LEMMA EnqueuedMoves ==
    ASSUME NEW rows \in [Tasks -> TaskRows], NEW S
    PROVE  RowsMoved(rows, Enqueued(rows, S))
  BY AbsentIsRow DEF RowsMoved, Enqueued, Absent

LEMMA WithdrawnMoves ==
    ASSUME NEW rows \in [Tasks -> TaskRows], NEW S
    PROVE  RowsMoved(rows, Withdrawn(rows, S))
  BY DEF RowsMoved, Withdrawn, TaskRows, TaskStatuses
=============================================================================
