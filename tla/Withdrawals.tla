------------------------------ MODULE Withdrawals ------------------------------
(***************************************************************************)
(* The withdrawals of one artist (services/artist-withdrawal.service.js):  *)
(* requests against the balance of the sales, reviewed by administrators.  *)
(*                                                                         *)
(* Nothing here runs in a transaction: the balance of a request, and the   *)
(* status a review starts from, are read by one statement, and what        *)
(* follows from them is written by another.  No sale and no refund happens *)
(* meanwhile.                                                              *)
(***************************************************************************)
EXTENDS Naturals, FiniteSetsExt

CONSTANTS
    Requests,       \* withdrawals that may be asked for
    Reviewers,      \* reviews and cancellations in flight at the same time
    Nobody,
    balance,        \* availableBalanceValue: earnings of the artist, in euros
    minimumAmount   \* in euros

VARIABLES
    withdrawal,     \* [Requests -> withdrawal row, in euros; "NONE" before creation]
    asking,         \* requests whose balance was found sufficient, not yet written
    review          \* [Reviewers -> the request and the action that was found legal]

vars == <<withdrawal, asking, review>>

Statuses == {"REQUESTED", "APPROVED", "REJECTED", "PAID", "CANCELED"}
Actions  == {"approve", "reject", "mark_paid", "cancel"}

NoReview == [request |-> Nobody, action |-> "cancel"]

Init ==
    /\ withdrawal = [r \in Requests |-> [status |-> "NONE", amount |-> 0]]
    /\ asking = {}
    /\ review = [v \in Reviewers |-> NoReview]

-----------------------------------------------------------------------------
Withdrawn == {r \in Requests : withdrawal[r].status \in {"REQUESTED", "APPROVED", "PAID"}}

Sum(S) == MapThenSumSet(LAMBDA r : withdrawal[r].amount, S)

\* availableToWithdrawValue: the balance is in euros, the sums of the rows are in cents.
Available == IF balance > 100 * Sum(Withdrawn) THEN balance - 100 * Sum(Withdrawn) ELSE 0

\* buildArtistWithdrawalWorkspace and the checks of createArtistWithdrawalRequest.
BeginRequest(r, amount) ==
    /\ withdrawal[r].status = "NONE" /\ r \notin asking
    /\ amount >= minimumAmount /\ amount <= Available
    /\ asking' = asking \cup {r}
    /\ withdrawal' = [withdrawal EXCEPT ![r].amount = amount]
    /\ UNCHANGED review

createWithdrawal(r) ==
    /\ r \in asking
    /\ asking' = asking \ {r}
    /\ withdrawal' = [withdrawal EXCEPT ![r].status = "REQUESTED"]
    /\ UNCHANGED review

\* assertTransitionAllowed: what an action starts from, and what it leads to.
From(action) == IF action = "mark_paid" THEN "APPROVED" ELSE "REQUESTED"
To(action)   == [approve |-> "APPROVED", reject |-> "REJECTED", mark_paid |-> "PAID",
                 cancel |-> "CANCELED"][action]

BeginReview(v, r, action) ==
    /\ review[v] = NoReview /\ withdrawal[r].status = From(action)
    /\ review' = [review EXCEPT ![v] = [request |-> r, action |-> action]]
    /\ UNCHANGED <<withdrawal, asking>>

\* The row is updated by its id, whatever its status has become.
updateWithdrawal(v) ==
    /\ review[v] # NoReview
    /\ withdrawal' = [withdrawal EXCEPT ![review[v].request].status = To(review[v].action)]
    /\ review' = [review EXCEPT ![v] = NoReview]
    /\ UNCHANGED asking

Next ==
    \/ \E r \in Requests : \/ \E amount \in 1 .. balance : BeginRequest(r, amount)
                           \/ createWithdrawal(r)
    \/ \E v \in Reviewers : \/ \E r \in Requests, action \in Actions : BeginReview(v, r, action)
                            \/ updateWithdrawal(v)

Spec == Init /\ [][Next]_vars

-----------------------------------------------------------------------------
\* What is asked for, approved and paid together never exceeds the balance: a request
\* above what is available is refused (createArtistWithdrawalRequest).
NeverOverdrawn == Sum(Withdrawn) <= balance
=============================================================================
