---------------------------- MODULE InvoicingProofs ----------------------------
(***************************************************************************)
(* Invoice numbers follow one another, and a task reported done has        *)
(* invoiced everybody, for every number of tasks, workers, recipients,     *)
(* attempts, replays and years.                                            *)
(*                                                                         *)
(* What carries the proof is what a handler in progress has behind it      *)
(* (Progress): all the recipients before the current one are served, and   *)
(* in its last step the current one has its number.  Rows never lose a     *)
(* number or a PDF, so this stays true whoever else executes the task.     *)
(***************************************************************************)
EXTENDS Invoicing, QueueProofs

Served(t, p) == invoice[t][p].number # 0 /\ invoice[t][p].pdf
AllServed(t) == \A i \in 1 .. Len(Recipients[t]) : Served(t, Recipients[t][i])

ProgressOf(w) ==
    job[w].step # "none" =>
        /\ Running(w)
        /\ job[w].next \in 1 .. Len(Recipients[InHand(w)])
        /\ \A i \in 1 .. Len(Recipients[InHand(w)]) :
              i < job[w].next => Served(InHand(w), Recipients[InHand(w)][i])
        /\ job[w].step = "pdf" => Row(w).number # 0

DoneMeansServed(w) ==
    worker[w].phase = "ended" /\ worker[w].outcome = "done" => AllServed(InHand(w))

CompletedServed == \A t \in Tasks : task[t].status = "COMPLETED" => AllServed(t)

Progress ==
    /\ \A w \in Workers : ProgressOf(w) /\ DoneMeansServed(w)
    /\ CompletedServed

InvoicingInv == InvoicingTypeOK /\ QueueInv /\ Progress /\ NumberedInSequence

\* No row loses its number or its PDF.
RowsGrow ==
    \A t \in Tasks, p \in Parties : invoice[t][p].number # 0 =>
        /\ invoice'[t][p].number = invoice[t][p].number
        /\ invoice'[t][p].year = invoice[t][p].year
        /\ invoice[t][p].pdf => invoice'[t][p].pdf

LEMMA RecipientTyped ==
    ASSUME NEW t \in Tasks, NEW i \in 1 .. Len(Recipients[t])
    PROVE  Recipients[t][i] \in Parties /\ Recipients[t][i] \in RecipientsOf(t)
  BY InvoicingAssumption DEF RecipientsOf

LEMMA LengthTyped == \A t \in Tasks : Len(Recipients[t]) \in Nat \ {0}
  BY InvoicingAssumption

LEMMA CompletedServedSays == CompletedServed <=> CompletedInvoicesAll
  BY DEF CompletedServed, AllServed, Served, CompletedInvoicesAll, RecipientsOf

LEMMA NoJobTyped == NoJob \in Jobs /\ NoInvoice \in Invoices
  BY InvoicingAssumption DEF NoJob, Jobs, NoInvoice, Invoices, Years

(***************************************************************************)
(* The queue seen from a handler: nobody touches a worker that runs, and   *)
(* only a worker that is done completes a task.                            *)
(***************************************************************************)
LEMMA RunningKept ==
    ASSUME QueueInv, QueueStep, NEW w \in Workers
    PROVE  /\ Running(w) => worker'[w] = worker[w]
           /\ \/ worker'[w] = worker[w]
              \/ ~(worker'[w].phase = "ended" /\ worker'[w].outcome = "done")
<1>1. ASSUME NEW v \in Workers, BatchStep(v)
      PROVE  worker'[w] = worker[w] \/ (v = w /\ ~Running(w) /\ worker'[w].phase # "ended")
  <2>1. CASE \E t \in Tasks : claimNextTask(v, t)
    BY <2>1 DEF claimNextTask, Free, Running, QueueInv, QueueTypeOK
  <2>2. CASE completeTask(v) \/ failTask(v)
    BY <2>2 DEF completeTask, failTask, Settle, Running, QueueInv, QueueTypeOK, IdleLoop
  <2> QED BY <1>1, <2>1, <2>2 DEF BatchStep
<1>2. CASE \E v \in Workers : BatchStep(v)
  BY <1>1, <1>2
<1>3. CASE markExhaustedTasks \/ \E t \in Tasks : BeginRequeue(t) \/ Requeue(t) \/ AbandonRequeue(t)
  BY <1>3 DEF markExhaustedTasks, BeginRequeue, Requeue, AbandonRequeue
<1>4. ASSUME NEW v \in Workers, CompletionThrows(v)
      PROVE  \/ worker'[w] = worker[w]
             \/ v = w /\ ~Running(w) /\ worker'[w].outcome # "done"
  BY <1>4 DEF CompletionThrows, Running, QueueInv, QueueTypeOK, WorkerRecords
<1> QED BY <1>2, <1>3, <1>4 DEF QueueStep

LEMMA CompletedByWorker ==
    ASSUME QueueInv, QueueStep, NEW t \in Tasks,
           task'[t].status = "COMPLETED", task[t].status # "COMPLETED"
    PROVE  \E w \in Workers : /\ worker[w].task = t
                              /\ worker[w].phase = "ended" /\ worker[w].outcome = "done"
<1>0. task[t] \in TaskRows
  BY DEF QueueInv, QueueTypeOK
<1>1. ASSUME NEW w \in Workers, NEW u \in Tasks, claimNextTask(w, u) PROVE FALSE
  BY <1>0, <1>1 DEF claimNextTask, Claimed, QueueInv, QueueTypeOK, TaskRows
<1>2. ASSUME NEW w \in Workers, failTask(w) PROVE FALSE
  <2>1. worker[w].task \in Tasks
    BY <1>2 DEF failTask, QueueInv, InHandIsTask, Free
  <2> QED BY <1>0, <1>2, <2>1 DEF failTask, Settle, Settled, QueueInv, QueueTypeOK, TaskRows
<1>3. ASSUME markExhaustedTasks PROVE FALSE
  BY <1>0, <1>3 DEF markExhaustedTasks, Settled, QueueInv, QueueTypeOK, TaskRows
<1>4. ASSUME NEW u \in Tasks, BeginRequeue(u) \/ Requeue(u) \/ AbandonRequeue(u) PROVE FALSE
  <2>1. CASE Requeue(u)
    <3>1. task'[t] = IF t = u THEN Replayed(task[t]) ELSE task[t]
      BY <2>1 DEF Requeue, QueueInv, QueueTypeOK
    <3> QED BY <1>0, <3>1 DEF Replayed, TaskRows
  <2> QED BY <1>4, <2>1 DEF BeginRequeue, AbandonRequeue
<1>5. ASSUME NEW w \in Workers, completeTask(w)
      PROVE  worker[w].task = t /\ worker[w].phase = "ended" /\ worker[w].outcome = "done"
  <2>1. worker[w].task \in Tasks
    BY <1>5 DEF completeTask, QueueInv, InHandIsTask, Free
  <2> QED BY <1>5, <2>1 DEF completeTask, Settle, QueueInv, QueueTypeOK
<1>6. ASSUME NEW w \in Workers, CompletionThrows(w) PROVE FALSE
  BY <1>6 DEF CompletionThrows
<1> QED BY <1>1, <1>2, <1>3, <1>4, <1>5, <1>6 DEF QueueStep, BatchStep

(***************************************************************************)
(* Frames: what a step must not do for the invariants to survive.          *)
(***************************************************************************)
LEMMA ServedKept ==
    ASSUME RowsGrow, NEW t \in Tasks
    PROVE  /\ \A i \in 1 .. Len(Recipients[t]) :
                  Served(t, Recipients[t][i]) => Served(t, Recipients[t][i])'
           /\ AllServed(t) => AllServed(t)'
<1>1. \A i \in 1 .. Len(Recipients[t]) :
          Served(t, Recipients[t][i]) => Served(t, Recipients[t][i])'
  BY RecipientTyped DEF RowsGrow, Served
<1> QED BY <1>1 DEF AllServed

LEMMA WorkerStill ==
    ASSUME InvoicingInv, RowsGrow, NEW w \in Workers,
           worker'[w] = worker[w], job'[w] = job[w]
    PROVE  ProgressOf(w)' /\ DoneMeansServed(w)'
<1>1. Running(w) \/ worker[w].phase = "ended" => InHand(w) \in Tasks
  BY DEF InvoicingInv, QueueInv, InHandIsTask, Free, Running, InHand
<1>2. InHand(w)' = InHand(w) /\ (Running(w)' <=> Running(w))
  BY DEF InHand, Running
<1>3. DoneMeansServed(w)'
  BY <1>1, <1>2, ServedKept DEF InvoicingInv, Progress, DoneMeansServed
<1>4. ASSUME job[w].step # "none"
      PROVE  /\ job[w].next \in 1 .. Len(Recipients[InHand(w)])
             /\ \A i \in 1 .. Len(Recipients[InHand(w)]) :
                   i < job[w].next => Served(InHand(w), Recipients[InHand(w)][i])'
             /\ job[w].step = "pdf" => Row(w)'.number # 0
  <2>1. ProgressOf(w) /\ Running(w) /\ InHand(w) \in Tasks
    BY <1>1, <1>4 DEF InvoicingInv, Progress, ProgressOf
  <2>2. Recipient(w) \in Parties /\ Recipient(w)' = Recipient(w)
    BY <1>2, <1>4, <2>1, RecipientTyped DEF ProgressOf, Recipient
  <2>3. job[w].step = "pdf" => Row(w)'.number # 0
    BY <1>2, <1>4, <2>1, <2>2 DEF ProgressOf, Row, RowsGrow
  <2>4. job[w].next \in 1 .. Len(Recipients[InHand(w)])
    BY <1>4, <2>1 DEF ProgressOf
  <2>5. ASSUME NEW i \in 1 .. Len(Recipients[InHand(w)]), i < job[w].next
        PROVE  Served(InHand(w), Recipients[InHand(w)][i])'
    <3>1. Served(InHand(w), Recipients[InHand(w)][i])
      BY <1>4, <2>1, <2>5 DEF ProgressOf
    <3>2. Recipients[InHand(w)][i] \in Parties
      BY <2>1, RecipientTyped
    <3> QED BY <1>2, <2>1, <3>1, <3>2 DEF Served, RowsGrow
  <2> QED BY <2>3, <2>4, <2>5
<1>5. ProgressOf(w)'
  <2> SUFFICES ASSUME job[w].step # "none" PROVE ProgressOf(w)'
    BY DEF ProgressOf
  <2>1. Running(w)
    BY DEF InvoicingInv, Progress, ProgressOf
  <2> QED BY <1>2, <1>4, <2>1 DEF ProgressOf, Row
<1> QED BY <1>3, <1>5

LEMMA CompletedStill ==
    ASSUME InvoicingInv, RowsGrow,
           \A t \in Tasks : task'[t].status = "COMPLETED" => task[t].status = "COMPLETED"
    PROVE  CompletedServed'
  BY ServedKept DEF InvoicingInv, Progress, CompletedServed

NumbersKept ==
    /\ sequence' = sequence
    /\ \A t \in Tasks, p \in Parties : /\ invoice'[t][p].number = invoice[t][p].number
                                       /\ invoice'[t][p].year = invoice[t][p].year

LEMMA NumberingStill ==
    ASSUME NumberedInSequence, NumbersKept
    PROVE  NumberedInSequence'
<1>1. Issued' = Issued
  BY DEF Issued, NumbersKept
<1>2. \A x \in Issued : Number(x)' = Number(x)
  BY DEF Issued, Number, NumbersKept
<1> QED BY <1>1, <1>2 DEF NumberedInSequence, NumbersKept

LEMMA InvoicesStill ==
    ASSUME invoice' = invoice, sequence' = sequence
    PROVE  RowsGrow /\ NumbersKept
  BY DEF RowsGrow, NumbersKept

Good == InvoicingInv' /\ RowsGrow /\ FinalKept /\ GivenUpStep

\* A handler's step moves its own worker and its own job, and no task.
LEMMA HandlerFrame ==
    ASSUME InvoicingInv, NEW w \in Workers, NEW j \in Jobs,
           job' = [job EXCEPT ![w] = j],
           \A v \in Workers \ {w} : worker'[v] = worker[v],
           QueueInv', task' = task, year' \in Years, complete' \in SUBSET Parties,
           invoice' \in [Tasks -> [Parties -> Invoices]],
           sequence' \in [Types -> [Years -> Nat]],
           RowsGrow, NumberedInSequence', ProgressOf(w)', DoneMeansServed(w)'
    PROVE  Good
<1>1. InvoicingTypeOK'
  BY DEF InvoicingInv, InvoicingTypeOK, QueueInv
<1>2. \A v \in Workers \ {w} : job'[v] = job[v]
  BY DEF InvoicingInv, InvoicingTypeOK
<1>3. \A v \in Workers : ProgressOf(v)' /\ DoneMeansServed(v)'
  <2> TAKE v \in Workers
  <2>1. CASE v = w
    BY <2>1
  <2>2. CASE v # w
    <3>1. worker'[v] = worker[v] /\ job'[v] = job[v]
      BY <1>2, <2>2
    <3> QED BY <3>1, WorkerStill
  <2> QED BY <2>1, <2>2
<1>4. CompletedServed'
  BY CompletedStill
<1>5. FinalKept /\ GivenUpStep
  BY RowsUntouched DEF InvoicingInv, QueueInv
<1> QED BY <1>1, <1>3, <1>4, <1>5 DEF Good, InvoicingInv, Progress

LEMMA QueueOfHandlers ==
    ASSUME InvoicingInv, QueueStep, UNCHANGED invoiceVars
    PROVE  Good
<1>1. QueueInv' /\ FinalKept /\ GivenUpStep
  BY QueueStepKeeps DEF InvoicingInv
<1>2. invoice' = invoice /\ sequence' = sequence /\ job' = job /\ year' = year
      /\ complete' = complete
  BY DEF invoiceVars
<1>3. RowsGrow /\ NumbersKept
  BY <1>2, InvoicesStill
<1>4. InvoicingTypeOK'
  BY <1>1, <1>2 DEF InvoicingInv, InvoicingTypeOK, QueueInv
<1>5. \A w \in Workers : ProgressOf(w)' /\ DoneMeansServed(w)'
  <2> TAKE w \in Workers
  <2>1. CASE worker'[w] = worker[w]
    BY <2>1, <1>2, <1>3, WorkerStill
  <2>2. CASE worker'[w] # worker[w]
    <3>1. ~Running(w) /\ ~(worker'[w].phase = "ended" /\ worker'[w].outcome = "done")
      BY <2>2, RunningKept DEF InvoicingInv
    <3>2. job[w].step = "none"
      BY <3>1 DEF InvoicingInv, Progress, ProgressOf
    <3> QED BY <1>2, <3>1, <3>2 DEF ProgressOf, DoneMeansServed
  <2> QED BY <2>1, <2>2
<1>6. CompletedServed'
  <2> SUFFICES ASSUME NEW t \in Tasks, task'[t].status = "COMPLETED" PROVE AllServed(t)'
    BY DEF CompletedServed
  <2>1. AllServed(t)
    <3>1. CASE task[t].status = "COMPLETED"
      BY <3>1 DEF InvoicingInv, Progress, CompletedServed
    <3>2. CASE task[t].status # "COMPLETED"
      BY <3>2, CompletedByWorker DEF InvoicingInv, Progress, DoneMeansServed, InHand
    <3> QED BY <3>1, <3>2
  <2> QED BY <1>3, <2>1, ServedKept
<1>7. NumberedInSequence'
  BY <1>3, NumberingStill DEF InvoicingInv
<1> QED BY <1>1, <1>3, <1>4, <1>5, <1>6, <1>7 DEF Good, InvoicingInv, Progress

(***************************************************************************)
(* The handler, action by action.                                          *)
(***************************************************************************)
\* What the row, the recipient and the series of a handler in progress are.
LEMMA InProgress ==
    ASSUME InvoicingInv, NEW w \in Workers, job[w].step # "none"
    PROVE  /\ Running(w) /\ ~Free(w) /\ InHand(w) \in Tasks
           /\ job[w] \in Jobs /\ job[w].next \in 1 .. Len(Recipients[InHand(w)])
           /\ Recipient(w) \in Parties
           /\ Row(w) \in Invoices
           /\ Type[InHand(w)] \in Types /\ job[w].year \in Years
           /\ Series(w) \in Nat
<1>1. Running(w) /\ job[w].next \in 1 .. Len(Recipients[InHand(w)])
  BY DEF InvoicingInv, Progress, ProgressOf
<1>2. InHand(w) \in Tasks /\ ~Free(w)
  BY <1>1 DEF InvoicingInv, QueueInv, InHandIsTask, Running, Free, InHand
<1>3. Recipient(w) \in Parties
  BY <1>1, <1>2, RecipientTyped DEF Recipient
<1>4. job[w] \in Jobs /\ job[w].year \in Years
  BY DEF InvoicingInv, InvoicingTypeOK, Jobs
<1>5. Type[InHand(w)] \in Types
  BY <1>2, InvoicingAssumption
<1>6. Row(w) \in Invoices
  BY <1>2, <1>3 DEF InvoicingInv, InvoicingTypeOK, Row
<1>7. Series(w) \in Nat
  BY <1>4, <1>5 DEF InvoicingInv, InvoicingTypeOK, Series
<1> QED BY <1>1, <1>2, <1>3, <1>4, <1>5, <1>6, <1>7

LEMMA BeginStep ==
    ASSUME InvoicingInv, NEW w \in Workers, BeginInvoices(w)
    PROVE  Good
<1> DEFINE j == [NoJob EXCEPT !.step = "issue", !.year = year, !.known = complete]
<1>1. /\ job' = [job EXCEPT ![w] = j] /\ Running(w)
      /\ UNCHANGED <<queue, invoice, sequence, year, complete>>
  BY DEF BeginInvoices
<1>2. j \in Jobs /\ j.step = "issue" /\ j.next = 1
  BY DEF NoJob, Jobs, InvoicingInv, InvoicingTypeOK
<1>3. QueueInv' /\ task' = task /\ worker' = worker
  BY <1>1, QueueStutters DEF InvoicingInv, queue
<1>4. RowsGrow /\ NumbersKept
  BY <1>1, InvoicesStill
<1>5. InHand(w) \in Tasks /\ job'[w] = j
  BY <1>1 DEF InvoicingInv, InvoicingTypeOK, QueueInv, InHandIsTask, Running, Free, InHand
<1>6. 1 \in 1 .. Len(Recipients[InHand(w)])
  BY <1>5, LengthTyped
<1>7. ProgressOf(w)'
  <2>1. Running(w)' /\ InHand(w)' = InHand(w)
    BY <1>1, <1>3 DEF Running, InHand
  <2>2. job'[w].next = 1 /\ job'[w].step = "issue"
    BY <1>2, <1>5
  <2>3. \A i \in 1 .. Len(Recipients[InHand(w)]) : ~(i < 1)
    BY <1>5, LengthTyped
  <2> QED BY <1>6, <2>1, <2>2, <2>3 DEF ProgressOf
<1>8. DoneMeansServed(w)'
  BY <1>1, <1>3 DEF DoneMeansServed, Running
<1>9. NumberedInSequence'
  BY <1>4, NumberingStill DEF InvoicingInv
<1> QED BY <1>1, <1>2, <1>3, <1>4, <1>7, <1>8, <1>9, HandlerFrame
        DEF InvoicingInv, InvoicingTypeOK

\* The job ends, and what the database holds stays.
LEMMA JobEnds ==
    ASSUME InvoicingInv, NEW w \in Workers, job' = [job EXCEPT ![w] = NoJob],
           QueueInv', task' = task, \A v \in Workers \ {w} : worker'[v] = worker[v],
           ~(worker'[w].phase = "ended" /\ worker'[w].outcome = "done"),
           UNCHANGED <<invoice, sequence, year, complete>>
    PROVE  Good
<1>1. RowsGrow /\ NumbersKept /\ NumberedInSequence'
  BY InvoicesStill, NumberingStill DEF InvoicingInv
<1>2. ProgressOf(w)' /\ DoneMeansServed(w)'
  BY DEF InvoicingInv, InvoicingTypeOK, ProgressOf, DoneMeansServed, NoJob
<1> QED BY <1>1, <1>2, NoJobTyped, HandlerFrame DEF InvoicingInv, InvoicingTypeOK

LEMMA OthersKept ==
    ASSUME QueueInv, NEW w \in Workers, NEW hand, worker' = [worker EXCEPT ![w] = hand]
    PROVE  worker'[w] = hand /\ \A v \in Workers \ {w} : worker'[v] = worker[v]
  BY DEF QueueInv, QueueTypeOK

LEMMA RefusalStep ==
    ASSUME InvoicingInv, NEW w \in Workers, NEW outcome \in {"permanent", "retryable"},
           HandlerEnds(w, outcome), job' = [job EXCEPT ![w] = NoJob],
           UNCHANGED <<invoice, sequence, year, complete>>
    PROVE  Good
<1> DEFINE hand == [worker[w] EXCEPT !.phase = "ended", !.outcome = outcome]
<1>1. QueueInv' /\ task' = task /\ worker' = [worker EXCEPT ![w] = hand]
  BY HandlerEndsStep DEF InvoicingInv, Outcomes, HandlerEnds
<1>2. worker[w] \in WorkerRecords
  BY DEF InvoicingInv, QueueInv, QueueTypeOK
<1>3. hand.outcome = outcome
  BY <1>2 DEF WorkerRecords
<1>4. worker'[w] = hand /\ \A v \in Workers \ {w} : worker'[v] = worker[v]
  BY <1>1, OthersKept DEF InvoicingInv
<1>5. worker'[w].outcome # "done"
  BY <1>3, <1>4
<1> QED BY <1>1, <1>4, <1>5, JobEnds

LEMMA DeathStep ==
    ASSUME InvoicingInv, NEW w \in Workers, ServerCrash(w)
    PROVE  Good
<1>1. QueueInv' /\ task' = task /\ worker' = [worker EXCEPT ![w] = IdleLoop]
  BY CrashStep DEF InvoicingInv, ServerCrash, Crash
<1>2. worker'[w] = IdleLoop /\ \A v \in Workers \ {w} : worker'[v] = worker[v]
  BY <1>1, OthersKept DEF InvoicingInv
<1>3. worker'[w].phase # "ended"
  BY <1>2 DEF IdleLoop
<1> QED BY <1>1, <1>2, <1>3, JobEnds DEF ServerCrash

LEMMA ReadStep ==
    ASSUME InvoicingInv, NEW w \in Workers, ReadSeries(w)
    PROVE  Good
<1> DEFINE step == IF Row(w).number # 0 THEN "pdf" ELSE "commit"
           j    == [job[w] EXCEPT !.step = step, !.seen = Series(w)]
<1>0. job[w].step = "issue"
  BY DEF ReadSeries
<1>1. /\ job' = [job EXCEPT ![w] = j]
      /\ UNCHANGED <<queue, invoice, sequence, year, complete>>
  BY DEF ReadSeries
<1>2. /\ Running(w) /\ InHand(w) \in Tasks /\ job[w] \in Jobs /\ Series(w) \in Nat
  BY <1>0, InProgress
<1>3. j \in Jobs /\ j.step = step /\ j.next = job[w].next
  BY <1>2 DEF Jobs
<1>4. QueueInv' /\ task' = task /\ worker' = worker
  BY <1>1, QueueStutters DEF InvoicingInv, queue
<1>5. RowsGrow /\ NumbersKept /\ NumberedInSequence'
  BY <1>1, InvoicesStill, NumberingStill DEF InvoicingInv
<1>6. job'[w].step = step /\ job'[w].next = job[w].next
  BY <1>1, <1>3 DEF InvoicingInv, InvoicingTypeOK
<1>7. ProgressOf(w)'
  <2>1. Running(w)' /\ InHand(w)' = InHand(w) /\ invoice' = invoice
    BY <1>1, <1>2, <1>4 DEF Running, InHand
  <2>2. Row(w)' = Row(w)
    BY <1>6, <2>1 DEF Row, Recipient
  <2>3. ProgressOf(w)
    BY DEF InvoicingInv, Progress
  <2> QED BY <1>0, <1>6, <2>1, <2>2, <2>3 DEF ProgressOf, Served
<1>8. DoneMeansServed(w)'
  BY <1>2, <1>4 DEF DoneMeansServed, Running
<1> QED BY <1>1, <1>3, <1>4, <1>5, <1>7, <1>8, HandlerFrame DEF InvoicingInv, InvoicingTypeOK

\* Numbering: the next number of the series goes to a row that had none.
LEMMA NumberGiven ==
    ASSUME InvoicingInv, NEW t \in Tasks, NEW p \in Parties, NEW y \in Years, NEW n \in Nat,
           n = sequence[Type[t]][y], invoice[t][p].number = 0,
           sequence' = [sequence EXCEPT ![Type[t]][y] = n + 1],
           invoice' = [invoice EXCEPT ![t][p] = [number |-> n + 1, year |-> y, pdf |-> FALSE]]
    PROVE  NumberedInSequence'
<1> DEFINE new == <<t, p>>
<1>1. Type[t] \in Types /\ new \in Tasks \X Parties
  BY InvoicingAssumption
<1>2. /\ invoice \in [Tasks -> [Parties -> Invoices]]
      /\ sequence \in [Types -> [Years -> Nat]]
      /\ NumberedInSequence
  BY DEF InvoicingInv, InvoicingTypeOK
<1>3. \A x \in Tasks \X Parties :
        invoice'[x[1]][x[2]] = IF x = new THEN [number |-> n + 1, year |-> y, pdf |-> FALSE]
                               ELSE invoice[x[1]][x[2]]
  BY <1>2
<1>4. \A k \in Types, z \in Years :
        sequence'[k][z] = IF k = Type[t] /\ z = y THEN n + 1 ELSE sequence[k][z]
  BY <1>2
<1>5. Issued' = Issued \cup {new} /\ new \notin Issued
  BY <1>1, <1>3 DEF Issued
<1>6. Number(new)' = <<Type[t], y, n + 1>>
  BY <1>1, <1>3 DEF Number
<1>7. \A x \in Issued : /\ x \in Tasks \X Parties /\ x # new
                        /\ Number(x)' = Number(x)
  BY <1>3, <1>5 DEF Number, Issued
<1>8. \A x \in Issued : /\ Number(x)[1] \in Types /\ Number(x)[2] \in Years
                        /\ Number(x)[3] \in 1 .. sequence[Number(x)[1]][Number(x)[2]]
  <2> TAKE x \in Issued
  <2>1. x[1] \in Tasks /\ x[2] \in Parties
    BY DEF Issued
  <2>2. Type[x[1]] \in Types /\ invoice[x[1]][x[2]].year \in Years
    BY <1>2, <2>1, InvoicingAssumption DEF Invoices
  <2> QED BY <1>2, <2>2 DEF Number, NumberedInSequence
<1>9. \A x \in Issued : Number(x) # <<Type[t], y, n + 1>>
  BY <1>8
<1>10. \A x, z \in Issued' : Number(x)' = Number(z)' => x = z
  <2> SUFFICES ASSUME NEW x \in Issued', NEW z \in Issued', Number(x)' = Number(z)'
               PROVE  x = z
    OBVIOUS
  <2>1. CASE x = new /\ z = new
    BY <2>1
  <2>2. CASE x = new /\ z # new
    BY <1>5, <1>6, <1>7, <1>9, <2>2
  <2>3. CASE x # new /\ z = new
    BY <1>5, <1>6, <1>7, <1>9, <2>3
  <2>4. CASE x # new /\ z # new
    <3>1. x \in Issued /\ z \in Issued
      BY <1>5, <2>4
    <3>2. Number(x) = Number(z)
      BY <1>7, <3>1
    <3> QED BY <1>2, <3>1, <3>2 DEF NumberedInSequence
  <2> QED BY <2>1, <2>2, <2>3, <2>4
<1>11. \A x \in Issued' : Number(x)'[3] \in 1 .. sequence'[Number(x)'[1]][Number(x)'[2]]
  <2> TAKE x \in Issued'
  <2>1. CASE x = new
    BY <1>1, <1>4, <1>6, <2>1
  <2>2. CASE x # new
    <3>1. x \in Issued /\ Number(x)' = Number(x)
      BY <1>5, <1>7, <2>2
    <3> QED BY <1>2, <1>4, <1>8, <3>1
  <2> QED BY <2>1, <2>2
<1>12. ASSUME NEW k \in Types, NEW z \in Years, NEW m \in 1 .. sequence'[k][z]
       PROVE  \E x \in Issued' : Number(x)' = <<k, z, m>>
  <2>1. CASE k = Type[t] /\ z = y /\ m = n + 1
    BY <1>5, <1>6, <2>1
  <2>2. CASE ~(k = Type[t] /\ z = y /\ m = n + 1)
    <3>1. m \in 1 .. sequence[k][z]
      <4>1. sequence[k][z] \in Nat /\ (k = Type[t] /\ z = y => sequence[k][z] = n)
        BY <1>2
      <4>2. CASE k = Type[t] /\ z = y
        <5>1. m \in 1 .. n + 1 /\ m # n + 1
          BY <1>4, <2>2, <4>2
        <5> QED BY <4>1, <4>2, <5>1
      <4>3. CASE ~(k = Type[t] /\ z = y)
        BY <1>4, <4>3
      <4> QED BY <4>2, <4>3
    <3>2. PICK x \in Issued : Number(x) = <<k, z, m>>
      BY <1>2, <3>1 DEF NumberedInSequence
    <3> QED BY <1>5, <1>7, <3>2
  <2> QED BY <2>1, <2>2
<1> QED BY <1>10, <1>11, <1>12 DEF NumberedInSequence

LEMMA CreateStep ==
    ASSUME InvoicingInv, NEW w \in Workers, createInvoiceRecord(w)
    PROVE  Good
<1>0. job[w].step = "commit" /\ UNCHANGED <<queue, year, complete>>
  BY DEF createInvoiceRecord
<1>1. /\ Running(w) /\ InHand(w) \in Tasks /\ job[w] \in Jobs /\ Series(w) \in Nat
      /\ Recipient(w) \in Parties /\ Row(w) \in Invoices
      /\ Type[InHand(w)] \in Types /\ job[w].year \in Years
  BY <1>0, InProgress
<1>2. QueueInv' /\ task' = task /\ worker' = worker /\ year' = year /\ complete' = complete
  BY <1>0, QueueStutters DEF InvoicingInv, queue
<1>3. ProgressOf(w)
  BY DEF InvoicingInv, Progress
<1>4. Running(w)' /\ InHand(w)' = InHand(w)
  BY <1>1, <1>2 DEF Running, InHand
<1>5. DoneMeansServed(w)'
  BY <1>1, <1>2 DEF DoneMeansServed, Running
<1>6. CASE ~Serializable(w)
  <2> DEFINE j == [job[w] EXCEPT !.step = "issue"]
  <2>1. job' = [job EXCEPT ![w] = j] /\ invoice' = invoice /\ sequence' = sequence
    BY <1>6 DEF createInvoiceRecord
  <2>2. j \in Jobs /\ j.step = "issue" /\ j.next = job[w].next
    BY <1>1 DEF Jobs
  <2>3. job'[w] = j
    BY <2>1 DEF InvoicingInv, InvoicingTypeOK
  <2>4. ProgressOf(w)'
    BY <1>0, <1>3, <1>4, <2>1, <2>2, <2>3 DEF ProgressOf, Served
  <2>5. RowsGrow /\ NumberedInSequence'
    BY <2>1, InvoicesStill, NumberingStill DEF InvoicingInv
  <2> QED BY <1>2, <1>5, <2>1, <2>2, <2>4, <2>5, HandlerFrame DEF InvoicingInv, InvoicingTypeOK
<1>7. CASE Serializable(w)
  <2> DEFINE j   == [job[w] EXCEPT !.step = "pdf"]
             t   == InHand(w)
             p   == Recipient(w)
             y   == job[w].year
             n   == job[w].seen
             row == [number |-> n + 1, year |-> y, pdf |-> FALSE]
  <2>1. /\ job' = [job EXCEPT ![w] = j]
        /\ sequence' = [sequence EXCEPT ![Type[t]][y] = n + 1]
        /\ invoice' = [invoice EXCEPT ![t][p] = row]
    BY <1>7 DEF createInvoiceRecord
  <2>2. n \in Nat /\ n = sequence[Type[t]][y] /\ invoice[t][p].number = 0
    BY <1>1, <1>7 DEF Serializable, Series, Row, Jobs
  <2>3. j \in Jobs /\ j.step = "pdf" /\ j.next = job[w].next
    BY <1>1 DEF Jobs
  <2>4. job'[w] = j
    BY <2>1 DEF InvoicingInv, InvoicingTypeOK
  <2>5. NumberedInSequence'
    BY <1>1, <2>1, <2>2, NumberGiven
  <2>6. invoice \in [Tasks -> [Parties -> Invoices]]
        /\ sequence \in [Types -> [Years -> Nat]]
    BY DEF InvoicingInv, InvoicingTypeOK
  <2>7. row \in Invoices /\ n + 1 \in Nat
    BY <1>1, <2>2 DEF Invoices
  <2>8. /\ invoice' \in [Tasks -> [Parties -> Invoices]]
        /\ sequence' \in [Types -> [Years -> Nat]]
    BY <1>1, <2>1, <2>6, <2>7
  <2>9. RowsGrow
    BY <1>1, <2>1, <2>2, <2>6 DEF RowsGrow
  <2>10. Row(w)'.number # 0
    <3>1. Recipient(w)' = p
      BY <1>4, <2>3, <2>4 DEF Recipient
    <3>2. Row(w)' = row
      BY <1>1, <1>4, <2>1, <2>6, <3>1 DEF Row
    <3> QED BY <2>2, <3>2
  <2>11. ProgressOf(w)'
    <3>1. job'[w].next \in 1 .. Len(Recipients[InHand(w)])
      BY <1>0, <1>3, <2>3, <2>4 DEF ProgressOf
    <3>2. ASSUME NEW i \in 1 .. Len(Recipients[InHand(w)]), i < job'[w].next
          PROVE  Served(InHand(w), Recipients[InHand(w)][i])'
      <4>1. Served(InHand(w), Recipients[InHand(w)][i])
        BY <1>0, <1>3, <2>3, <2>4, <3>2 DEF ProgressOf
      <4>2. Recipients[InHand(w)][i] \in Parties
        BY <1>1, RecipientTyped
      <4> QED BY <1>1, <1>4, <2>9, <4>1, <4>2 DEF Served, RowsGrow
    <3> QED BY <1>4, <2>10, <3>1, <3>2 DEF ProgressOf
  <2> QED BY <1>2, <1>5, <2>1, <2>3, <2>5, <2>8, <2>9, <2>11, HandlerFrame
          DEF InvoicingInv, InvoicingTypeOK
<1> QED BY <1>6, <1>7

\* With the PDF of its last recipient made, every recipient is served.
LEMMA PdfStep ==
    ASSUME InvoicingInv, NEW w \in Workers, ensureInvoicePdf(w)
    PROVE  Good
<1>a. job[w].step = "pdf"
  BY DEF ensureInvoicePdf
<1>b. InHand(w) \in Tasks /\ Recipient(w) \in Parties
  BY <1>a, InProgress
<1>c. PICK t \in Tasks, p \in Parties : t = InHand(w) /\ p = Recipient(w)
  BY <1>b
<1>0. /\ job[w].step = "pdf"
      /\ invoice' = [invoice EXCEPT ![t][p].pdf = TRUE]
      /\ UNCHANGED <<sequence, year, complete>>
  BY <1>c DEF ensureInvoicePdf
<1>1. /\ Running(w) /\ t \in Tasks /\ job[w] \in Jobs /\ p \in Parties /\ Row(w) \in Invoices
      /\ job[w].next \in 1 .. Len(Recipients[t])
  BY <1>0, <1>c, InProgress
<1>2. ProgressOf(w) /\ Row(w).number # 0
  BY <1>0 DEF InvoicingInv, Progress, ProgressOf
<1>3. invoice \in [Tasks -> [Parties -> Invoices]]
  BY DEF InvoicingInv, InvoicingTypeOK
<1>4. [Row(w) EXCEPT !.pdf = TRUE] \in Invoices
  BY <1>1 DEF Invoices
<1>5. /\ invoice' \in [Tasks -> [Parties -> Invoices]]
      /\ \A u \in Tasks, q \in Parties :
            invoice'[u][q] = IF u = t /\ q = p THEN [Row(w) EXCEPT !.pdf = TRUE]
                             ELSE invoice[u][q]
  BY <1>0, <1>1, <1>3, <1>4, <1>c DEF Row
<1>6. /\ [Row(w) EXCEPT !.pdf = TRUE].number = Row(w).number
      /\ [Row(w) EXCEPT !.pdf = TRUE].year = Row(w).year
      /\ [Row(w) EXCEPT !.pdf = TRUE].pdf
  BY <1>1 DEF Invoices
<1>7. RowsGrow /\ NumbersKept
  BY <1>0, <1>5, <1>6, <1>c DEF RowsGrow, NumbersKept, Row
<1>8. NumberedInSequence'
  BY <1>7, NumberingStill DEF InvoicingInv
<1>9. Served(t, p)'
  BY <1>2, <1>5, <1>6, <1>c DEF Served, Row
<1>10. \A i \in 1 .. Len(Recipients[t]) :
          i <= job[w].next => Served(t, Recipients[t][i])'
  <2> TAKE i \in 1 .. Len(Recipients[t])
  <2>1. CASE i < job[w].next
    <3>1. Served(t, Recipients[t][i])
      BY <1>0, <1>2, <1>c, <2>1 DEF ProgressOf
    <3>2. Recipients[t][i] \in Parties
      BY <1>1, RecipientTyped
    <3> QED BY <1>1, <1>7, <3>1, <3>2 DEF Served, RowsGrow
  <2>2. CASE i = job[w].next
    <3>1. Recipients[t][i] = p
      BY <1>c, <2>2 DEF Recipient
    <3> QED BY <1>9, <3>1
  <2> QED BY <1>1, <2>1, <2>2
<1>11. sequence' \in [Types -> [Years -> Nat]] /\ year' \in Years /\ complete' \in SUBSET Parties
  BY <1>0 DEF InvoicingInv, InvoicingTypeOK
<1>12. CASE LastRecipient(w)
  <2> DEFINE hand == [worker[w] EXCEPT !.phase = "ended", !.outcome = "done"]
  <2>1. HandlerEnds(w, "done") /\ job' = [job EXCEPT ![w] = NoJob]
    BY <1>12 DEF ensureInvoicePdf
  <2>2. QueueInv' /\ task' = task /\ worker' = [worker EXCEPT ![w] = hand]
    BY <2>1, HandlerEndsStep DEF InvoicingInv, Outcomes, HandlerEnds
  <2>3. worker'[w] = hand /\ \A v \in Workers \ {w} : worker'[v] = worker[v]
    BY <2>2, OthersKept DEF InvoicingInv
  <2>4. hand.task = worker[w].task
    BY DEF InvoicingInv, QueueInv, QueueTypeOK, WorkerRecords
  <2>5. AllServed(t)'
    <3>1. \A i \in 1 .. Len(Recipients[t]) : i <= job[w].next
      BY <1>1, <1>12, <1>c, LengthTyped DEF LastRecipient
    <3> QED BY <1>10, <3>1 DEF AllServed
  <2>6. DoneMeansServed(w)'
    <3>1. InHand(w)' = t
      BY <1>c, <2>3, <2>4 DEF InHand
    <3> QED BY <2>5, <3>1 DEF DoneMeansServed
  <2>7. ProgressOf(w)'
    BY <2>1 DEF ProgressOf, NoJob, InvoicingInv, InvoicingTypeOK
  <2> QED BY <1>5, <1>7, <1>8, <1>11, <2>1, <2>2, <2>3, <2>6, <2>7, NoJobTyped, HandlerFrame
<1>13. CASE ~LastRecipient(w)
  <2> DEFINE j == [job[w] EXCEPT !.step = "issue", !.next = job[w].next + 1]
  <2>1. job' = [job EXCEPT ![w] = j] /\ UNCHANGED queue
    BY <1>13 DEF ensureInvoicePdf
  <2>2. QueueInv' /\ task' = task /\ worker' = worker
    BY <2>1, QueueStutters DEF InvoicingInv, queue
  <2>3. j \in Jobs /\ j.step = "issue" /\ j.next = job[w].next + 1
    <3>1. job[w].next + 1 \in Nat
      BY <1>1, LengthTyped
    <3> QED BY <1>1, <3>1 DEF Jobs
  <2>4. job'[w] = j
    BY <2>1 DEF InvoicingInv, InvoicingTypeOK
  <2>5. Running(w)' /\ InHand(w)' = t
    BY <1>1, <1>c, <2>2 DEF Running, InHand
  <2>6. job'[w].next \in 1 .. Len(Recipients[t])
    BY <1>1, <1>13, <1>c, <2>3, <2>4, LengthTyped DEF LastRecipient
  <2>7. \A i \in 1 .. Len(Recipients[t]) :
            i < job'[w].next => Served(t, Recipients[t][i])'
    BY <1>1, <1>10, <2>3, <2>4, LengthTyped
  <2>8. ProgressOf(w)'
    BY <2>3, <2>4, <2>5, <2>6, <2>7 DEF ProgressOf
  <2>9. DoneMeansServed(w)'
    BY <2>5 DEF DoneMeansServed, Running
  <2> QED BY <1>5, <1>7, <1>8, <1>11, <2>1, <2>2, <2>3, <2>8, <2>9, HandlerFrame
<1> QED BY <1>12, <1>13

\* The artists and the calendar move what a handler reads, and nothing else.
LEMMA SurroundingsStep ==
    ASSUME InvoicingInv, NewYear \/ \E p \in Parties : EditProfile(p)
    PROVE  Good
<1>1. UNCHANGED <<queue, invoice, sequence, job>> /\ year' \in Years
      /\ complete' \in SUBSET Parties
  BY InvoicingAssumption DEF NewYear, EditProfile, InvoicingInv, InvoicingTypeOK, Years
<1>2. QueueInv' /\ FinalKept /\ GivenUpStep /\ task' = task /\ worker' = worker
  BY <1>1, QueueStutters DEF InvoicingInv, queue
<1>3. RowsGrow /\ NumberedInSequence'
  BY <1>1, InvoicesStill, NumberingStill DEF InvoicingInv
<1>4. InvoicingTypeOK'
  BY <1>1, <1>2 DEF InvoicingInv, InvoicingTypeOK, QueueInv
<1>5. Progress'
  BY <1>1, <1>2, <1>3, WorkerStill, CompletedStill DEF Progress
<1> QED BY <1>2, <1>3, <1>4, <1>5 DEF Good, InvoicingInv

LEMMA InvoicingStarts == InvoicingInit => InvoicingInv
<1> SUFFICES ASSUME InvoicingInit PROVE InvoicingInv
  OBVIOUS
<1>1. QueueInv
  BY QueueStarts DEF InvoicingInit
<1>2. InvoicingTypeOK
  BY <1>1, NoJobTyped, InvoicingAssumption DEF InvoicingInit, InvoicingTypeOK, QueueInv, Years
<1>3. Progress
  BY DEF InvoicingInit, QueueInit, Progress, ProgressOf, DoneMeansServed, CompletedServed,
         NoJob, IdleLoop, Absent
<1>4. NumberedInSequence
  <2>1. Issued = {}
    BY DEF InvoicingInit, Issued, NoInvoice
  <2>2. \A k \in Types, y \in Years : 1 .. sequence[k][y] = {}
    BY DEF InvoicingInit
  <2> QED BY <2>1, <2>2 DEF NumberedInSequence
<1> QED BY <1>1, <1>2, <1>3, <1>4 DEF InvoicingInv

LEMMA InvoicingSteps == InvoicingInv /\ [InvoicingNext]_invoicingVars => Good
<1> SUFFICES ASSUME InvoicingInv, [InvoicingNext]_invoicingVars PROVE Good
  OBVIOUS
<1>1. CASE Queued(QueueStep)
  BY <1>1, QueueOfHandlers DEF Queued
<1>2. CASE \E w \in Workers : HandlerStep(w) \/ ServerCrash(w)
  <2>1. PICK w \in Workers : HandlerStep(w) \/ ServerCrash(w)
    BY <1>2
  <2>2. CASE RefuseRecipient(w)
    BY <2>2, RefusalStep DEF RefuseRecipient
  <2>3. CASE HandlerThrows(w)
    BY <2>3, RefusalStep DEF HandlerThrows
  <2> QED BY <2>1, <2>2, <2>3, BeginStep, ReadStep, CreateStep, PdfStep, DeathStep
          DEF HandlerStep
<1>3. CASE NewYear \/ \E p \in Parties : EditProfile(p)
  BY <1>3, SurroundingsStep
<1>4. CASE UNCHANGED invoicingVars
  <2>1. UNCHANGED <<queue, invoice, sequence, year, complete, job>>
    BY <1>4 DEF invoicingVars, invoiceVars
  <2>2. QueueInv' /\ FinalKept /\ GivenUpStep /\ task' = task /\ worker' = worker
    BY <2>1, QueueStutters DEF InvoicingInv, queue
  <2>3. RowsGrow /\ NumberedInSequence'
    BY <2>1, InvoicesStill, NumberingStill DEF InvoicingInv
  <2>4. InvoicingTypeOK'
    BY <2>1, <2>2 DEF InvoicingInv, InvoicingTypeOK, QueueInv
  <2>5. Progress'
    BY <2>1, <2>2, <2>3, WorkerStill, CompletedStill DEF Progress
  <2> QED BY <2>2, <2>3, <2>4, <2>5 DEF Good, InvoicingInv
<1> QED BY <1>1, <1>2, <1>3, <1>4 DEF InvoicingNext

LEMMA InvoicingInvariant == InvoicingSpec => []InvoicingInv
<1>1. InvoicingInv /\ [InvoicingNext]_invoicingVars => InvoicingInv'
  BY InvoicingSteps DEF Good
<1> QED BY <1>1, InvoicingStarts, PTL DEF InvoicingSpec

(***************************************************************************)
(* The theorems.                                                           *)
(***************************************************************************)
\* Rows, workers, counters and handlers keep their types, whatever the instance.
THEOREM InvoicingTypeCorrect == InvoicingSpec => []InvoicingTypeOK
  BY InvoicingInvariant, PTL DEF InvoicingInv

\* The numbers of each series follow one another, without a hole and without a repetition
\* (createInvoiceRecord).
THEOREM NumbersFollow == InvoicingSpec => []NumberedInSequence
  BY InvoicingInvariant, PTL DEF InvoicingInv

\* A task reported done has invoiced all its recipients (issueSaleInvoice,
\* issueCommissionInvoices, and the queue that may execute them twice).
THEOREM CompletedTasksInvoiced == InvoicingSpec => []CompletedInvoicesAll
<1>1. InvoicingInv => CompletedInvoicesAll
  BY CompletedServedSays DEF InvoicingInv, Progress
<1> QED BY <1>1, InvoicingInvariant, PTL

\* No invoice is numbered again, and no PDF is lost.
THEOREM InvoicesStayIssued == InvoicingSpec => InvoicesAreFinal
<1>1. InvoicingInv /\ [InvoicingNext]_invoicingVars =>
        [\A t \in Tasks, p \in Parties : invoice[t][p].number # 0 =>
           /\ invoice'[t][p].number = invoice[t][p].number
           /\ invoice'[t][p].year = invoice[t][p].year
           /\ invoice[t][p].pdf => invoice'[t][p].pdf]_invoicingVars
  BY InvoicingSteps DEF Good, RowsGrow
<1> QED BY <1>1, InvoicingInvariant, PTL DEF InvoicingSpec, InvoicesAreFinal
=============================================================================
