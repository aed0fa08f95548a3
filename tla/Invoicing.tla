------------------------------- MODULE Invoicing -------------------------------
(***************************************************************************)
(* The invoices of an order (services/invoice.service.js): the sale        *)
(* invoice of its buyer and the commission invoices of its artists, each   *)
(* kind issued by one task of the outbox, with numbers that follow one     *)
(* another in their series, and a PDF made after the number is taken.      *)
(*                                                                         *)
(* A transaction is a snapshot and a commit that the database refuses when *)
(* somebody committed to what was read (Serializable).  What an invoice    *)
(* says is left out: who it is for, its number and whether its PDF exists. *)
(* Commission invoicing is enabled.                                        *)
(***************************************************************************)
EXTENDS FulfillmentQueue, Sequences

CONSTANTS
    Parties,        \* buyers and artists that receive invoices
    Type,           \* [Tasks -> kind of the invoices the task issues]
    Recipients,     \* [Tasks -> who gets them: the buyer, or the artists of the items]
    MaxYear

Types == {"SALE", "COMMISSION"}
Years == 1 .. MaxYear

RecipientsOf(t) == {Recipients[t][i] : i \in 1 .. Len(Recipients[t])}

ASSUME InvoicingAssumption ==
    /\ Type \in [Tasks -> Types]
    /\ Recipients \in [Tasks -> Seq(Parties)]
    /\ \A t \in Tasks : Len(Recipients[t]) > 0
    /\ MaxYear \in Nat \ {0}

VARIABLES
    invoice,        \* [Tasks -> [Parties -> invoice row, its number 0 before creation]]
    sequence,       \* [Types -> [Years -> last number given]]
    year,           \* the current year
    complete,       \* parties whose billing details are complete
    job             \* [Workers -> where the handler of the task in hand is]

invoiceVars == <<invoice, sequence, year, complete, job>>
invoicingVars == <<queue, invoiceVars>>

Invoices == [number : Nat, year : Years, pdf : BOOLEAN]
Jobs == [step : {"none", "issue", "commit", "pdf"}, next : Nat, year : Years,
         known : SUBSET Parties, seen : Nat]

InvoicingTypeOK ==
    /\ QueueTypeOK
    /\ invoice \in [Tasks -> [Parties -> Invoices]]
    /\ sequence \in [Types -> [Years -> Nat]]
    /\ year \in Years
    /\ complete \in SUBSET Parties
    /\ job \in [Workers -> Jobs]

NoInvoice == [number |-> 0, year |-> 1, pdf |-> FALSE]
NoJob     == [step |-> "none", next |-> 1, year |-> 1, known |-> {}, seen |-> 0]

\* The orders were paid, which enqueued their tasks.
InvoicingInit ==
    /\ QueueInit(Tasks)
    /\ invoice = [t \in Tasks |-> [p \in Parties |-> NoInvoice]]
    /\ sequence = [k \in Types |-> [y \in Years |-> 0]]
    /\ year = 1
    /\ complete \in SUBSET Parties
    /\ job = [w \in Workers |-> NoJob]

-----------------------------------------------------------------------------
(* The handlers: issueSaleInvoice and issueCommissionInvoices.  A sale has *)
(* one recipient; a commission goes through the artists of the order.      *)

InHand(w)    == worker[w].task
Recipient(w) == Recipients[InHand(w)][job[w].next]
Row(w)       == invoice[InHand(w)][Recipient(w)]

\* The order, the billing details and the date are read once, for all the invoices.
BeginInvoices(w) ==
    /\ Running(w) /\ job[w].step = "none"
    /\ job' = [job EXCEPT ![w] = [NoJob EXCEPT !.step = "issue", !.year = year,
                                              !.known = complete]]
    /\ UNCHANGED <<queue, invoice, sequence, year, complete>>

\* An artist without an address ends the task for good; the invoices of those before stay.
RefuseRecipient(w) ==
    /\ Running(w) /\ job[w].step = "issue" /\ Recipient(w) \notin job[w].known
    /\ HandlerEnds(w, "permanent")
    /\ job' = [job EXCEPT ![w] = NoJob]
    /\ UNCHANGED <<invoice, sequence, year, complete>>

Series(w) == sequence[Type[InHand(w)]][job[w].year]

\* The snapshot of createInvoiceRecord: an invoice that exists is returned.
ReadSeries(w) ==
    /\ Running(w) /\ job[w].step = "issue" /\ Recipient(w) \in job[w].known
    /\ job' = [job EXCEPT ![w].step = IF Row(w).number # 0 THEN "pdf" ELSE "commit",
                          ![w].seen = Series(w)]
    /\ UNCHANGED <<queue, invoice, sequence, year, complete>>

\* Faulty variant: the transaction is not serializable.
Serializable_always(w) == TRUE

\* Faulty variant: the counter is protected, and the unique invoice of a recipient is not.
Serializable_counterOnly(w) == Series(w) = job[w].seen

\* Nobody has committed to what the snapshot read: no invoice, and the counter.
Serializable(w) == Row(w).number = 0 /\ Series(w) = job[w].seen

\* The counter and the invoice, together; on a conflict (P2034), from the snapshot again.
createInvoiceRecord(w) ==
    /\ Running(w) /\ job[w].step = "commit"
    /\ IF Serializable(w)
       THEN /\ sequence' = [sequence EXCEPT ![Type[InHand(w)]][job[w].year] = job[w].seen + 1]
            /\ invoice' = [invoice EXCEPT ![InHand(w)][Recipient(w)] =
                  [number |-> job[w].seen + 1, year |-> job[w].year, pdf |-> FALSE]]
            /\ job' = [job EXCEPT ![w].step = "pdf"]
       ELSE job' = [job EXCEPT ![w].step = "issue"] /\ UNCHANGED <<invoice, sequence>>
    /\ UNCHANGED <<queue, year, complete>>

\* Faulty variant: the first invoice is taken for the only one.
LastRecipient_first(w) == TRUE

LastRecipient(w) == job[w].next = Len(Recipients[InHand(w)])

\* The PDF is made once the number is given, then the next recipient's turn comes.
ensureInvoicePdf(w) ==
    /\ Running(w) /\ job[w].step = "pdf"
    /\ invoice' = [invoice EXCEPT ![InHand(w)][Recipient(w)].pdf = TRUE]
    /\ IF LastRecipient(w)
       THEN HandlerEnds(w, "done") /\ job' = [job EXCEPT ![w] = NoJob]
       ELSE /\ job' = [job EXCEPT ![w].step = "issue", ![w].next = @ + 1]
            /\ UNCHANGED queue
    /\ UNCHANGED <<sequence, year, complete>>

\* Five conflicts, a PDF that cannot be made, a database that is away.
HandlerThrows(w) ==
    /\ HandlerEnds(w, "retryable")
    /\ job' = [job EXCEPT ![w] = NoJob]
    /\ UNCHANGED <<invoice, sequence, year, complete>>

ServerCrash(w) ==
    /\ Crash(w)
    /\ job' = [job EXCEPT ![w] = NoJob]
    /\ UNCHANGED <<invoice, sequence, year, complete>>

HandlerStep(w) ==
    \/ BeginInvoices(w) \/ RefuseRecipient(w) \/ ReadSeries(w)
    \/ createInvoiceRecord(w) \/ ensureInvoicePdf(w) \/ HandlerThrows(w)

-----------------------------------------------------------------------------
\* Artists complete and change their details, once their application is open to changes;
\* the billing details of an order do not move.
EditProfile(p) ==
    /\ \E t \in Tasks : Type[t] = "COMMISSION" /\ p \in RecipientsOf(t)
    /\ complete' \in {complete \cup {p}, complete \ {p}}
    /\ UNCHANGED <<queue, invoice, sequence, year, job>>

NewYear ==
    /\ year < MaxYear /\ year' = year + 1
    /\ UNCHANGED <<queue, invoice, sequence, complete, job>>

Queued(A) == A /\ UNCHANGED invoiceVars

InvoicingNext ==
    \/ Queued(QueueStep)
    \/ \E w \in Workers : HandlerStep(w) \/ ServerCrash(w)
    \/ \E p \in Parties : EditProfile(p)
    \/ NewYear

InvoicingSpec == InvoicingInit /\ [][InvoicingNext]_invoicingVars

-----------------------------------------------------------------------------
(* Properties.                                                             *)

Issued == {x \in Tasks \X Parties : invoice[x[1]][x[2]].number # 0}

Number(x) == <<Type[x[1]], invoice[x[1]][x[2]].year, invoice[x[1]][x[2]].number>>

\* The numbers of a series follow one another from 1, without a hole and without a
\* repetition, whatever fails between the number and the PDF, and however often and by
\* however many workers a task is executed (createInvoiceRecord).
NumberedInSequence ==
    /\ \A x, y \in Issued : Number(x) = Number(y) => x = y
    /\ \A x \in Issued : Number(x)[3] \in 1 .. sequence[Number(x)[1]][Number(x)[2]]
    /\ \A k \in Types, y \in Years : \A n \in 1 .. sequence[k][y] :
          \E x \in Issued : Number(x) = <<k, y, n>>

\* A task that is reported done has invoiced every recipient, with the PDF, although it
\* starts from the first again after each failure (issueCommissionInvoices).
CompletedInvoicesAll ==
    \A t \in Tasks : task[t].status = "COMPLETED" =>
        \A p \in RecipientsOf(t) : invoice[t][p].number # 0 /\ invoice[t][p].pdf

\* An invoice once numbered keeps its number, and its PDF once made: late workers,
\* replays and a change of year do not issue it again.
InvoicesAreFinal ==
    [][\A t \in Tasks, p \in Parties : invoice[t][p].number # 0 =>
          /\ invoice'[t][p].number = invoice[t][p].number
          /\ invoice'[t][p].year = invoice[t][p].year
          /\ invoice[t][p].pdf => invoice'[t][p].pdf]_invoicingVars
=============================================================================
