----------------------------- MODULE RefundsProofs -----------------------------
(***************************************************************************)
(* Refunds never exceed the payment, the order follows the confirmed ones, *)
(* and a row keeps the first final verdict that reached it: proof for      *)
(* every number of refunds, of requests in flight and for every amount.    *)
(*                                                                         *)
(* The invariant says what each status implies about the others: a refund  *)
(* the provider knows has a row that holds its amount, an event that has   *)
(* not been processed names a status the provider's refund has been in,    *)
(* and a refund the provider has decided on is decided in its row, or will *)
(* be by an event on its way.                                              *)
(***************************************************************************)
EXTENDS Refunds, FiniteSetTheorems, TLAPS

(***************************************************************************)
(* Sums.  A set of units is finite and counted; the operators below take   *)
(* the rows as a parameter, to speak of them before and after a step.      *)
(***************************************************************************)
UnitsIn(rows, S) == {u \in Refunds \X (1 .. Total) : u[1] \in S /\ u[2] <= rows[u[1]].amount}
AmountIn(rows, S) == Cardinality(UnitsIn(rows, S))
StatusIn(rows, S) == {r \in Refunds : rows[r].status \in S}

RefundRows == [status : RefundStatuses \cup {"NONE"}, amount : 0 .. Total, linked : BOOLEAN]

LEMMA SumsNow ==
    ASSUME NEW S
    PROVE  /\ Amount(S) = AmountIn(refund, S) /\ Amount(S)' = AmountIn(refund', S)
           /\ WithStatus(S) = StatusIn(refund, S) /\ WithStatus(S)' = StatusIn(refund', S)
  BY DEF Amount, AmountIn, Units, UnitsIn, WithStatus, StatusIn

\* A larger set adds up to at least as much.
LEMMA AmountGrows ==
    ASSUME NEW rows, IsFiniteSet(UnitsIn(rows, Refunds)), NEW S, NEW T, S \subseteq T
    PROVE  /\ AmountIn(rows, S) \in Nat /\ AmountIn(rows, T) \in Nat
           /\ AmountIn(rows, S) <= AmountIn(rows, T)
  <1>1. UnitsIn(rows, T) \subseteq UnitsIn(rows, Refunds)  BY DEF UnitsIn
  <1>2. UnitsIn(rows, S) \subseteq UnitsIn(rows, T)  BY DEF UnitsIn
  <1>3. IsFiniteSet(UnitsIn(rows, T))  BY <1>1, FS_Subset
  <1>4. IsFiniteSet(UnitsIn(rows, S))  BY <1>2, <1>3, FS_Subset
  <1> QED  BY <1>2, <1>3, <1>4, FS_Subset, FS_CardinalityType DEF AmountIn

\* One more refund, of any amount but zero, adds up to more.
LEMMA AmountGrowsStrictly ==
    ASSUME NEW rows \in [Refunds -> RefundRows], IsFiniteSet(UnitsIn(rows, Refunds)),
           NEW S, NEW T, S \subseteq T,
           NEW r \in Refunds, r \in T, r \notin S, rows[r].amount # 0
    PROVE  AmountIn(rows, S) < AmountIn(rows, T)
  <1>1. rows[r].amount \in 1 .. Total  BY RefundsAssumption DEF RefundRows
  <1>2. 1 \in 1 .. Total /\ 1 <= rows[r].amount  BY <1>1, RefundsAssumption
  <1>3. <<r, 1>> \in UnitsIn(rows, T) /\ <<r, 1>> \notin UnitsIn(rows, S)
    BY <1>2 DEF UnitsIn
  <1>4. UnitsIn(rows, S) \subseteq UnitsIn(rows, T)  BY DEF UnitsIn
  <1>5. IsFiniteSet(UnitsIn(rows, T))
    <2>1. UnitsIn(rows, T) \subseteq UnitsIn(rows, Refunds)  BY DEF UnitsIn
    <2> QED  BY <2>1, FS_Subset
  <1>6. AmountIn(rows, S) # AmountIn(rows, T)  BY <1>3, <1>4, <1>5, FS_Subset DEF AmountIn
  <1> QED  BY <1>6, AmountGrows

\* No refund, nothing.
LEMMA AmountOfNone == ASSUME NEW rows PROVE AmountIn(rows, {}) = 0
  <1>1. UnitsIn(rows, {}) = {}  BY DEF UnitsIn
  <1> QED  BY <1>1, FS_EmptySet DEF AmountIn

\* Sums look at the amounts of their set, and at nothing else of the rows.
LEMMA SameAmounts ==
    ASSUME NEW rows, NEW after, NEW S,
           \A r \in S \cap Refunds : after[r].amount = rows[r].amount
    PROVE  AmountIn(after, S) = AmountIn(rows, S) /\ UnitsIn(after, S) = UnitsIn(rows, S)
  <1>1. UnitsIn(after, S) = UnitsIn(rows, S)  BY DEF UnitsIn
  <1> QED  BY <1>1 DEF AmountIn

\* A refund that gets an amount adds no more than that amount.
LEMMA AmountAdded ==
    ASSUME NEW rows, NEW after, IsFiniteSet(UnitsIn(rows, Refunds)),
           NEW r \in Refunds, NEW m \in 1 .. Total, NEW S, NEW T, T \subseteq S \cup {r},
           after[r].amount = m,
           \A q \in Refunds \ {r} : after[q].amount = rows[q].amount
    PROVE  /\ IsFiniteSet(UnitsIn(after, Refunds))
           /\ AmountIn(after, T) <= AmountIn(rows, S) + m
  <1> DEFINE new == {r} \X (1 .. m)
  <1>1. IsFiniteSet(new) /\ Cardinality(new) = m
    <2>1. IsFiniteSet({r}) /\ Cardinality({r}) = 1  BY FS_Singleton
    <2>2. IsFiniteSet(1 .. m) /\ Cardinality(1 .. m) = m
      BY RefundsAssumption, FS_Interval
    <2>3. IsFiniteSet(new) /\ Cardinality(new) = 1 * m
      BY <2>1, <2>2, FS_Product
    <2> QED  BY <2>3
  <1>2. UnitsIn(after, Refunds) \subseteq UnitsIn(rows, Refunds) \cup new
    BY RefundsAssumption DEF UnitsIn
  <1>3. UnitsIn(after, T) \subseteq UnitsIn(rows, S) \cup new
    BY RefundsAssumption DEF UnitsIn
  <1>4. IsFiniteSet(UnitsIn(rows, S))
    <2>1. UnitsIn(rows, S) \subseteq UnitsIn(rows, Refunds)  BY DEF UnitsIn
    <2> QED  BY <2>1, FS_Subset
  <1> HIDE DEF new
  <1>5. IsFiniteSet(UnitsIn(after, Refunds))
    <2>1. IsFiniteSet(UnitsIn(rows, Refunds) \cup new)  BY <1>1, FS_Union
    <2> QED  BY <1>2, <2>1, FS_Subset
  <1>6. AmountIn(after, T) <= AmountIn(rows, S) + m
    <2>1. /\ IsFiniteSet(UnitsIn(rows, S) \cup new)
          /\ Cardinality(UnitsIn(rows, S) \cup new)
                = Cardinality(UnitsIn(rows, S)) + m - Cardinality(UnitsIn(rows, S) \cap new)
      BY <1>1, <1>4, FS_Union
    <2>2. Cardinality(UnitsIn(rows, S) \cap new) \in Nat
      BY <1>4, FS_Intersection, FS_CardinalityType
    <2>3. Cardinality(UnitsIn(after, T)) <= Cardinality(UnitsIn(rows, S) \cup new)
          /\ IsFiniteSet(UnitsIn(after, T))
      BY <1>3, <2>1, FS_Subset
    <2>4. Cardinality(UnitsIn(after, T)) \in Nat /\ Cardinality(UnitsIn(rows, S)) \in Nat
      BY <1>4, <2>3, FS_CardinalityType
    <2> QED  BY <2>1, <2>2, <2>3, <2>4, RefundsAssumption DEF AmountIn
  <1> QED  BY <1>5, <1>6

(***************************************************************************)
(* The invariant.                                                          *)
(***************************************************************************)
EventOf(r, status) == [refund |-> r, status |-> status]

\* What is under way or made fits into the payment; a refund that exists has an amount.
Covered ==
    /\ IsFiniteSet(Units(Refunds))
    /\ Amount(WithStatus({"PENDING", "SUCCEEDED"})) <= Total
    /\ \A r \in Refunds : refund[r].amount = 0 <=> refund[r].status = "NONE"

\* A request in flight works on a refund that exists.
InHandExist ==
    \A a \in Admins : admin[a].step # "idle" =>
        admin[a].refund \in Refunds /\ refund[admin[a].refund].status # "NONE"

\* What a row may say, given what the provider has decided so far.
RowFollowsBank ==
    \A r \in Refunds :
        /\ stripeRefund[r] = "none" => refund[r].status \in {"NONE", "PENDING"}
        /\ stripeRefund[r] = "pending" => refund[r].status = "PENDING"
        /\ stripeRefund[r] = "succeeded" => refund[r].status \in {"PENDING", "SUCCEEDED"}
        /\ stripeRefund[r] = "failed" => refund[r].status \in {"PENDING", "FAILED"}
        /\ stripeRefund[r] = "returned" => refund[r].status # "NONE"

\* Events say what the provider has decided at some time, and a refund it has decided on
\* is final in its row, or made so by an event still on its way.
EventsFollowBank ==
    /\ \A e \in refundEvents : stripeRefund[e.refund] # "none"
    /\ \A r \in Refunds :
          /\ EventOf(r, "SUCCEEDED") \in refundEvents => stripeRefund[r] \in {"succeeded", "returned"}
          /\ EventOf(r, "FAILED") \in refundEvents => stripeRefund[r] \in {"failed", "returned"}
          /\ stripeRefund[r] = "succeeded" =>
                EventOf(r, "SUCCEEDED") \in refundEvents \/ refund[r].status = "SUCCEEDED"
          /\ stripeRefund[r] \in {"failed", "returned"} =>
                EventOf(r, "FAILED") \in refundEvents \/ refund[r].status \in {"SUCCEEDED", "FAILED"}

RefundsInv ==
    /\ RefundsTypeOK /\ Covered /\ OrderMatchesRefunds
    /\ InHandExist /\ RowFollowsBank /\ EventsFollowBank

\* In the beginning nothing has been asked for.
LEMMA RefundsStart == RefundsInit => RefundsInv
  <1> SUFFICES ASSUME RefundsInit PROVE RefundsInv
    OBVIOUS
  <1>1. Units(Refunds) = {} /\ WithStatus({"PENDING", "SUCCEEDED"}) = {}
        /\ WithStatus({"SUCCEEDED"}) = {}
    BY RefundsAssumption DEF RefundsInit, Units, WithStatus
  <1>2. Amount({}) = 0  BY SumsNow, AmountOfNone
  <1>3. RefundsTypeOK
    BY RefundsAssumption DEF RefundsInit, RefundsTypeOK, Refundable, RefundStatuses, AtRest, ProviderStates
  <1>4. Covered
    <2>1. IsFiniteSet(Units(Refunds))  BY <1>1, FS_EmptySet
    <2>2. Amount(WithStatus({"PENDING", "SUCCEEDED"})) = 0  BY <1>1, <1>2
    <2>3. \A r \in Refunds : refund[r].amount = 0 <=> refund[r].status = "NONE"
      BY DEF RefundsInit
    <2> QED  BY <2>1, <2>2, <2>3, RefundsAssumption DEF Covered
  <1>5. OrderMatchesRefunds  BY <1>1, <1>2 DEF OrderMatchesRefunds, RefundsInit
  <1>6. InHandExist /\ RowFollowsBank /\ EventsFollowBank
    BY DEF RefundsInit, InHandExist, RowFollowsBank, EventsFollowBank, AtRest
  <1> QED  BY <1>3, <1>4, <1>5, <1>6 DEF RefundsInv

(***************************************************************************)
(* Steps that leave the amounts and the statuses of the rows alone.        *)
(***************************************************************************)
LEMMA MoneyKept ==
    ASSUME RefundsInv, UNCHANGED order,
           \A r \in Refunds : /\ refund'[r].status = refund[r].status
                              /\ refund'[r].amount = refund[r].amount
    PROVE  Covered' /\ OrderMatchesRefunds'
  <1>1. \A S : StatusIn(refund', S) = StatusIn(refund, S)  BY DEF StatusIn
  <1>2. \A S : /\ AmountIn(refund', S) = AmountIn(refund, S)
               /\ UnitsIn(refund', S) = UnitsIn(refund, S)
    BY SameAmounts
  <1>3. \A S : Amount(S)' = Amount(S)  BY <1>2, SumsNow
  <1>4. WithStatus({"PENDING", "SUCCEEDED"})' = WithStatus({"PENDING", "SUCCEEDED"})
        /\ WithStatus({"SUCCEEDED"})' = WithStatus({"SUCCEEDED"})
    BY <1>1, SumsNow
  <1>5. Units(Refunds)' = Units(Refunds)  BY <1>2 DEF Units, UnitsIn
  <1>6. /\ Amount(WithStatus({"PENDING", "SUCCEEDED"}))' = Amount(WithStatus({"PENDING", "SUCCEEDED"}))
        /\ Amount(WithStatus({"SUCCEEDED"}))' = Amount(WithStatus({"SUCCEEDED"}))
    BY <1>2, <1>4 DEF Amount, Units, UnitsIn, AmountIn
  <1> QED  BY <1>4, <1>5, <1>6 DEF RefundsInv, Covered, OrderMatchesRefunds

LEMMA RefundsStutter == RefundsInv /\ UNCHANGED refundVars => RefundsInv'
  <1> SUFFICES ASSUME RefundsInv, UNCHANGED refundVars PROVE RefundsInv'
    OBVIOUS
  <1>1. Covered' /\ OrderMatchesRefunds'  BY MoneyKept DEF refundVars
  <1> QED
    BY <1>1 DEF refundVars, RefundsInv, RefundsTypeOK, InHandExist, RowFollowsBank, EventsFollowBank

\* A repeated key, and a request that stops, leave the database alone.
LEMMA HandKeeps ==
    ASSUME RefundsInv, NEW a \in Admins,
           AbandonRequest(a) \/ \E r \in Refunds : RepeatRequest(a, r)
    PROVE  RefundsInv'
  <1>1. UNCHANGED <<order, refund, stripeRefund, refundEvents>>
    BY DEF AbandonRequest, RepeatRequest
  <1>2. Covered' /\ OrderMatchesRefunds'  BY <1>1, MoneyKept
  <1>3. RefundsTypeOK' /\ InHandExist'
    BY <1>1 DEF AbandonRequest, RepeatRequest, Call, AtRest, RefundsInv, RefundsTypeOK, InHandExist
  <1>4. RowFollowsBank' /\ EventsFollowBank'
    BY <1>1 DEF RefundsInv, RowFollowsBank, EventsFollowBank
  <1> QED  BY <1>2, <1>3, <1>4 DEF RefundsInv

\* The second write of a request changes neither status nor amount.
LEMMA LinkKeeps ==
    ASSUME RefundsInv, NEW a \in Admins, LinkRefund(a)
    PROVE  RefundsInv'
  <1> DEFINE r == admin[a].refund
  <1>1. r \in Refunds  BY DEF RefundsInv, InHandExist, LinkRefund
  <1>2. /\ refund' = [refund EXCEPT ![r].linked = TRUE]
        /\ admin' = [admin EXCEPT ![a] = AtRest]
        /\ UNCHANGED <<order, stripeRefund, refundEvents>>
    BY DEF LinkRefund
  <1>3. refund \in [Refunds -> RefundRows]  BY DEF RefundsInv, RefundsTypeOK, RefundRows
  <1> HIDE DEF r
  <1>4. /\ refund' \in [Refunds -> RefundRows]
        /\ \A q \in Refunds : refund'[q].status = refund[q].status
                              /\ refund'[q].amount = refund[q].amount
    BY <1>1, <1>2, <1>3 DEF RefundRows
  <1>5. Covered' /\ OrderMatchesRefunds'  BY <1>2, <1>4, MoneyKept
  <1>6. RefundsTypeOK'
    BY <1>2, <1>4 DEF RefundsInv, RefundsTypeOK, AtRest, RefundRows
  <1>7. InHandExist'  BY <1>2, <1>4 DEF RefundsInv, RefundsTypeOK, InHandExist, AtRest
  <1>8. RowFollowsBank' /\ EventsFollowBank'
    BY <1>2, <1>4 DEF RefundsInv, RowFollowsBank, EventsFollowBank
  <1> QED  BY <1>5, <1>6, <1>7, <1>8 DEF RefundsInv

(***************************************************************************)
(* The provider.                                                           *)
(***************************************************************************)
\* The provider's refund takes a status it announces, later than those it announced before.
LEMMA Announced ==
    ASSUME RefundsInv, NEW r \in Refunds, NEW after \in {"pending", "succeeded", "failed", "returned"},
           refund[r].status # "NONE",
           after = "pending" => stripeRefund[r] = "none",
           after = "succeeded" => stripeRefund[r] \in {"none", "pending"},
           after = "failed" => stripeRefund[r] = "pending",
           after = "returned" => stripeRefund[r] = "succeeded",
           stripeRefund' = [stripeRefund EXCEPT ![r] = after],
           Emit(r, targetRefundStatus(after)), UNCHANGED <<order, refund>>
    PROVE  /\ Covered' /\ OrderMatchesRefunds' /\ RowFollowsBank' /\ EventsFollowBank'
           /\ stripeRefund' \in [Refunds -> ProviderStates]
           /\ refundEvents' \in SUBSET [refund : Refunds, status : RefundStatuses]
  <1>1. /\ stripeRefund \in [Refunds -> ProviderStates]
        /\ refundEvents \in SUBSET [refund : Refunds, status : RefundStatuses]
        /\ refund \in [Refunds -> RefundRows]
    BY DEF RefundsInv, RefundsTypeOK, RefundRows
  <1>2. Covered' /\ OrderMatchesRefunds'  BY MoneyKept
  <1>3. refundEvents' = refundEvents \cup {EventOf(r, targetRefundStatus(after))}
    BY DEF Emit, EventOf
  <1>4. targetRefundStatus(after) = IF after = "pending" THEN "PENDING"
                                    ELSE IF after = "succeeded" THEN "SUCCEEDED" ELSE "FAILED"
    BY DEF targetRefundStatus
  <1>5. RowFollowsBank'
    <2>1. \A q \in Refunds : refund[q].status \in {"NONE", "PENDING", "SUCCEEDED", "FAILED"}
      BY <1>1 DEF RefundRows, RefundStatuses
    <2> QED  BY <1>1, <2>1 DEF RefundsInv, RowFollowsBank, ProviderStates
  <1>6. EventsFollowBank'
    <2>1. \A e \in refundEvents' : stripeRefund'[e.refund] # "none"
      BY <1>1, <1>3 DEF RefundsInv, EventsFollowBank, EventOf
    <2>2. ASSUME NEW q \in Refunds
          PROVE  /\ EventOf(q, "SUCCEEDED") \in refundEvents'
                        => stripeRefund'[q] \in {"succeeded", "returned"}
                 /\ EventOf(q, "FAILED") \in refundEvents'
                        => stripeRefund'[q] \in {"failed", "returned"}
                 /\ stripeRefund'[q] = "succeeded" =>
                       EventOf(q, "SUCCEEDED") \in refundEvents' \/ refund'[q].status = "SUCCEEDED"
                 /\ stripeRefund'[q] \in {"failed", "returned"} =>
                       EventOf(q, "FAILED") \in refundEvents'
                       \/ refund'[q].status \in {"SUCCEEDED", "FAILED"}
      <3>1. \A s, t : EventOf(q, s) = EventOf(r, t) <=> q = r /\ s = t  BY DEF EventOf
      <3>2. CASE q = r
        BY <1>1, <1>3, <1>4, <3>1, <3>2 DEF RefundsInv, EventsFollowBank
      <3>3. CASE q # r
        BY <1>1, <1>3, <3>1, <3>3 DEF RefundsInv, EventsFollowBank
      <3> QED  BY <3>2, <3>3
    <2> QED  BY <2>1, <2>2 DEF EventsFollowBank, EventOf
  <1>7. refundEvents' \in SUBSET [refund : Refunds, status : RefundStatuses]
    BY <1>1, <1>3, <1>4 DEF EventOf, RefundStatuses
  <1>8. stripeRefund' \in [Refunds -> ProviderStates]  BY <1>1 DEF ProviderStates
  <1> QED  BY <1>2, <1>5, <1>6, <1>7, <1>8

LEMMA SettlesKeeps ==
    ASSUME RefundsInv, NEW r \in Refunds, StripeSettles(r)
    PROVE  RefundsInv'
  <1>1. PICK after \in {"succeeded", "failed", "returned"} :
              /\ stripeRefund[r] = (IF after = "returned" THEN "succeeded" ELSE "pending")
              /\ stripeRefund' = [stripeRefund EXCEPT ![r] = after]
              /\ Emit(r, targetRefundStatus(after))
              /\ UNCHANGED <<order, refund, admin>>
    BY DEF StripeSettles
  <1>2. refund[r].status # "NONE"  BY <1>1 DEF RefundsInv, RowFollowsBank
  <1>3. /\ Covered' /\ OrderMatchesRefunds' /\ RowFollowsBank' /\ EventsFollowBank'
        /\ stripeRefund' \in [Refunds -> ProviderStates]
        /\ refundEvents' \in SUBSET [refund : Refunds, status : RefundStatuses]
    BY <1>1, <1>2, Announced
  <1>4. RefundsTypeOK' /\ InHandExist'
    BY <1>1, <1>3 DEF RefundsInv, RefundsTypeOK, InHandExist
  <1> QED  BY <1>3, <1>4 DEF RefundsInv

\* The first call under a key creates the refund; a repeated one finds it.
LEMMA ProviderKeeps ==
    ASSUME RefundsInv, NEW a \in Admins, CreateAtProvider(a)
    PROVE  RefundsInv'
  <1> DEFINE r == admin[a].refund
  <1>1. r \in Refunds /\ refund[r].status # "NONE"
    BY DEF CreateAtProvider, RefundsInv, InHandExist
  <1>2. UNCHANGED <<order, refund>> /\ admin' = [admin EXCEPT ![a].step = "link"]
    BY DEF CreateAtProvider
  <1>3. \/ UNCHANGED <<stripeRefund, refundEvents>>
        \/ \E status \in {"pending", "succeeded"} :
              /\ stripeRefund[r] = "none"
              /\ stripeRefund' = [stripeRefund EXCEPT ![r] = status]
              /\ Emit(r, targetRefundStatus(status))
    BY DEF CreateAtProvider
  <1>0. admin[a].step # "idle"  BY DEF CreateAtProvider
  <1> HIDE DEF r
  <1>4. /\ Covered' /\ OrderMatchesRefunds' /\ RowFollowsBank' /\ EventsFollowBank'
        /\ stripeRefund' \in [Refunds -> ProviderStates]
        /\ refundEvents' \in SUBSET [refund : Refunds, status : RefundStatuses]
    <2>1. CASE UNCHANGED <<stripeRefund, refundEvents>>
      BY <1>2, <2>1, MoneyKept DEF RefundsInv, RefundsTypeOK, RowFollowsBank, EventsFollowBank
    <2>2. ASSUME NEW status \in {"pending", "succeeded"},
                 stripeRefund[r] = "none",
                 stripeRefund' = [stripeRefund EXCEPT ![r] = status],
                 Emit(r, targetRefundStatus(status))
          PROVE  /\ Covered' /\ OrderMatchesRefunds' /\ RowFollowsBank' /\ EventsFollowBank'
                 /\ stripeRefund' \in [Refunds -> ProviderStates]
                 /\ refundEvents' \in SUBSET [refund : Refunds, status : RefundStatuses]
      BY <1>1, <1>2, <2>2, Announced
    <2> QED  BY <1>3, <2>1, <2>2
  <1>5. admin' \in [Admins -> [step : {"idle", "provider", "link"},
                              refund : Refunds \cup {Nobody}]]
        /\ \A d \in Admins : admin'[d].refund = admin[d].refund
                            /\ (admin'[d].step # "idle" => admin[d].step # "idle")
    BY <1>0, <1>2 DEF RefundsInv, RefundsTypeOK
  <1>6. RefundsTypeOK'  BY <1>2, <1>4, <1>5 DEF RefundsInv, RefundsTypeOK
  <1>7. InHandExist'  BY <1>2, <1>5 DEF RefundsInv, InHandExist
  <1> QED  BY <1>4, <1>6, <1>7 DEF RefundsInv

(***************************************************************************)
(* Steps that move money.                                                  *)
(***************************************************************************)
\* A new request takes its amount out of the balance.
LEMMA ReserveKeeps ==
    ASSUME RefundsInv, NEW a \in Admins, NEW r \in Refunds, NEW m \in 1 .. Total,
           reserveRefund(a, r, m)
    PROVE  RefundsInv'
  <1> DEFINE live == {"PENDING", "SUCCEEDED"}
  <1>1. /\ refund[r].status = "NONE"
        /\ m <= Total - AmountIn(refund, StatusIn(refund, live))
        /\ refund' = [refund EXCEPT ![r] = [status |-> "PENDING", amount |-> m,
                                            linked |-> FALSE]]
        /\ admin' = [admin EXCEPT ![a] = [step |-> "provider", refund |-> r]]
        /\ UNCHANGED <<order, stripeRefund, refundEvents>>
    BY SumsNow DEF reserveRefund, Balance, Call
  <1>2. /\ refund \in [Refunds -> RefundRows]
        /\ IsFiniteSet(UnitsIn(refund, Refunds))
        /\ \A q \in Refunds : refund[q].amount = 0 <=> refund[q].status = "NONE"
    BY DEF RefundsInv, RefundsTypeOK, RefundRows, Covered, Units, UnitsIn
  <1>3. /\ refund' \in [Refunds -> RefundRows]
        /\ refund'[r].status = "PENDING" /\ refund'[r].amount = m
        /\ \A q \in Refunds \ {r} : refund'[q] = refund[q]
    <2> DEFINE row == [status |-> "PENDING", amount |-> m, linked |-> FALSE]
    <2>1. row \in RefundRows /\ row.status = "PENDING" /\ row.amount = m
      BY <1>2, RefundsAssumption DEF RefundRows, RefundStatuses
    <2>2. refund' = [refund EXCEPT ![r] = row]  BY <1>1
    <2> HIDE DEF row
    <2> QED  BY <1>2, <2>1, <2>2
  <1>4. StatusIn(refund', live) \subseteq StatusIn(refund, live) \cup {r}
        /\ StatusIn(refund', {"SUCCEEDED"}) = StatusIn(refund, {"SUCCEEDED"})
    BY <1>1, <1>3 DEF StatusIn
  <1>5. Covered'
    <2>1. /\ IsFiniteSet(UnitsIn(refund', Refunds))
          /\ AmountIn(refund', StatusIn(refund', live))
                <= AmountIn(refund, StatusIn(refund, live)) + m
      BY <1>2, <1>3, <1>4, AmountAdded
    <2>2. AmountIn(refund, StatusIn(refund, live)) \in Nat  BY <1>2, AmountGrows
    <2>3. AmountIn(refund', StatusIn(refund', live)) \in Nat  BY <2>1, AmountGrows
    <2>4. AmountIn(refund', StatusIn(refund', live)) <= Total
      BY <1>1, <2>1, <2>2, <2>3, RefundsAssumption
    <2>5. Amount(WithStatus(live))' <= Total
      BY <2>4 DEF Amount, Units, AmountIn, UnitsIn, WithStatus, StatusIn
    <2>6. IsFiniteSet(Units(Refunds))'  BY <2>1 DEF Units, UnitsIn
    <2>7. \A q \in Refunds : refund'[q].amount = 0 <=> refund'[q].status = "NONE"
      BY <1>2, <1>3
    <2> QED  BY <2>5, <2>6, <2>7 DEF Covered
  <1>6. OrderMatchesRefunds'
    <2>1. AmountIn(refund', StatusIn(refund, {"SUCCEEDED"}))
            = AmountIn(refund, StatusIn(refund, {"SUCCEEDED"}))
      <3>1. \A q \in StatusIn(refund, {"SUCCEEDED"}) \cap Refunds :
                refund'[q].amount = refund[q].amount
        BY <1>1, <1>3 DEF StatusIn
      <3> QED  BY <3>1, SameAmounts
    <2>2. /\ Amount(WithStatus({"SUCCEEDED"}))' = Amount(WithStatus({"SUCCEEDED"}))
          /\ WithStatus({"SUCCEEDED"})' = WithStatus({"SUCCEEDED"})
      BY <1>4, <2>1 DEF Amount, Units, AmountIn, UnitsIn, WithStatus, StatusIn
    <2> QED  BY <1>1, <2>2 DEF RefundsInv, OrderMatchesRefunds
  <1>7. RefundsTypeOK'
    BY <1>1, <1>3 DEF RefundsInv, RefundsTypeOK, RefundRows
  <1>8. InHandExist'
    BY <1>1, <1>3 DEF RefundsInv, RefundsTypeOK, InHandExist
  <1>9. RowFollowsBank' /\ EventsFollowBank'
    BY <1>1, <1>3 DEF RefundsInv, RowFollowsBank, EventsFollowBank
  <1> QED  BY <1>5, <1>6, <1>7, <1>8, <1>9 DEF RefundsInv

\* What an event can find, and what it makes of the row.
LEMMA EventFinds ==
    ASSUME RefundsInv, NEW e \in refundEvents, processStripeRefundEvent(e)
    PROVE  /\ e.refund \in Refunds /\ e.status \in RefundStatuses
           /\ e = EventOf(e.refund, e.status)
           /\ refund \in [Refunds -> RefundRows] /\ refund' \in [Refunds -> RefundRows]
           /\ \A q \in Refunds : refund'[q].amount = refund[q].amount
           /\ \A q \in Refunds \ {e.refund} : refund'[q].status = refund[q].status
           /\ refund[e.refund].status # "NONE"
           /\ \/ /\ e.status = "SUCCEEDED" /\ ~Outdated(e)
                 /\ refund[e.refund].status \in {"PENDING", "SUCCEEDED"}
                 /\ refund'[e.refund].status = "SUCCEEDED"
                 /\ applySucceededRefund(e)
              \/ /\ e.status = "FAILED" /\ UNCHANGED order
                 /\ refund[e.refund].status \in {"PENDING", "FAILED"}
                 /\ refund'[e.refund].status = "FAILED"
              \/ /\ e.status = "PENDING" \/ Outdated(e)
                 /\ UNCHANGED order /\ refund'[e.refund].status = refund[e.refund].status
  <1> DEFINE r == e.refund
             row == refund[r]
             status == IF e.status \in Final /\ ~Outdated(e) THEN e.status ELSE row.status
  <1>1. /\ refund \in [Refunds -> RefundRows]
        /\ r \in Refunds /\ e.status \in RefundStatuses /\ e = EventOf(r, e.status)
    BY DEF RefundsInv, RefundsTypeOK, RefundRows, EventOf
  <1>2. refund[r].status \in {"PENDING", "SUCCEEDED", "FAILED"}
    BY <1>1 DEF RefundsInv, RefundsTypeOK, RowFollowsBank, EventsFollowBank, RefundStatuses,
       ProviderStates
  <1>3. refund' = [refund EXCEPT ![r] = [status |-> status, amount |-> row.amount,
                                         linked |-> TRUE]]
    BY <1>1 DEF processStripeRefundEvent, applyRefundEvent
  <1>4. status \in RefundStatuses  BY <1>1, <1>2 DEF RefundStatuses
  <1>5. /\ refund' \in [Refunds -> RefundRows]
        /\ refund'[r].status = status /\ refund'[r].amount = refund[r].amount
        /\ \A q \in Refunds \ {r} : refund'[q] = refund[q]
    <2> HIDE DEF r, status
    <2> QED  BY <1>1, <1>3, <1>4 DEF RefundRows
  <1>6. IF e.status = "SUCCEEDED" /\ ~Outdated(e) THEN applySucceededRefund(e) ELSE UNCHANGED order
    BY DEF processStripeRefundEvent, applyRefundEvent
  <1>7. Outdated(e) <=> refund[r].status \in {"SUCCEEDED", "FAILED"} /\ refund[r].status # e.status
    BY DEF Outdated
  <1>8. status = IF e.status \in {"SUCCEEDED", "FAILED"} /\ ~Outdated(e) THEN e.status
                 ELSE refund[r].status
    BY DEF Final
  <1> HIDE DEF r, status
  <1>9. \/ /\ e.status = "SUCCEEDED" /\ ~Outdated(e)
           /\ refund[r].status \in {"PENDING", "SUCCEEDED"} /\ status = "SUCCEEDED"
           /\ applySucceededRefund(e)
        \/ /\ e.status = "FAILED" /\ UNCHANGED order
           /\ refund[r].status \in {"PENDING", "FAILED"} /\ status = "FAILED"
        \/ /\ e.status = "PENDING" \/ Outdated(e)
           /\ UNCHANGED order /\ status = refund[r].status
    BY <1>1, <1>2, <1>6, <1>7, <1>8 DEF RefundStatuses
  <1> QED  BY <1>1, <1>2, <1>5, <1>9 DEF r

\* A confirmed refund moves order and payment to what the confirmed sum now says.
LEMMA SuccessMoves ==
    ASSUME RefundsInv, NEW e \in refundEvents, processStripeRefundEvent(e),
           e.status = "SUCCEEDED", ~Outdated(e)
    PROVE  Covered' /\ OrderMatchesRefunds' /\ order'.refunded \in 0 .. Total
  <1> DEFINE r      == e.refund
             live   == {"PENDING", "SUCCEEDED"}
             before == StatusIn(refund, {"SUCCEEDED"})
             made   == StatusIn(refund', {"SUCCEEDED"})
             next   == StatusAfter(e)
  <1>1. /\ r \in Refunds /\ refund \in [Refunds -> RefundRows]
        /\ refund' \in [Refunds -> RefundRows]
        /\ \A q \in Refunds : refund'[q].amount = refund[q].amount
        /\ \A q \in Refunds \ {r} : refund'[q].status = refund[q].status
        /\ refund[r].status \in {"PENDING", "SUCCEEDED"}
        /\ refund'[r].status = "SUCCEEDED"
        /\ applySucceededRefund(e)
    BY EventFinds
  <1>2. /\ IsFiniteSet(UnitsIn(refund, Refunds))
        /\ \A q \in Refunds : refund[q].amount = 0 <=> refund[q].status = "NONE"
        /\ AmountIn(refund, StatusIn(refund, live)) <= Total
    BY SumsNow DEF RefundsInv, Covered, Units, UnitsIn, Amount, AmountIn, WithStatus, StatusIn
  <1>3. \A S : /\ AmountIn(refund', S) = AmountIn(refund, S)
               /\ UnitsIn(refund', S) = UnitsIn(refund, S)
    BY <1>1, SameAmounts
  <1>4. made = before \cup {r} /\ StatusIn(refund', live) = StatusIn(refund, live)
        /\ made \subseteq StatusIn(refund, live)
    BY <1>1 DEF StatusIn
  <1>5. Confirmed(e) = made
    BY <1>4, SumsNow DEF Confirmed
  <1>6. /\ AmountIn(refund, made) \in Nat /\ AmountIn(refund, made) <= Total
        /\ AmountIn(refund, before) \in Nat
    <2>1. /\ AmountIn(refund, made) \in Nat
          /\ AmountIn(refund, StatusIn(refund, live)) \in Nat
          /\ AmountIn(refund, made) <= AmountIn(refund, StatusIn(refund, live))
      BY <1>2, <1>4, AmountGrows
    <2>2. AmountIn(refund, before) \in Nat  BY <1>2, AmountGrows
    <2> QED  BY <1>2, <2>1, <2>2, RefundsAssumption
  <1>7. refund[r].status = "PENDING" => AmountIn(refund, before) < AmountIn(refund, made)
    <2> SUFFICES ASSUME refund[r].status = "PENDING"
                 PROVE  AmountIn(refund, before) < AmountIn(refund, made)
      OBVIOUS
    <2>1. r \notin before /\ r \in made /\ before \subseteq made /\ refund[r].amount # 0
      BY <1>1, <1>2, <1>4 DEF StatusIn
    <2> HIDE DEF before, made
    <2> QED  BY <1>1, <1>2, <2>1, AmountGrowsStrictly
  <1>8. next = IF AmountIn(refund, made) = Total THEN "REFUNDED" ELSE "PARTIALLY_REFUNDED"
    BY <1>5, SumsNow DEF StatusAfter
  <1>9. order' = [status   |-> Moved(canTransitionOrder(order.status, next), order.status, next),
                  payment  |-> Moved(canTransitionPayment(order.payment, next), order.payment, next),
                  refunded |-> AmountIn(refund, made)]
    BY <1>1, <1>5, SumsNow DEF applySucceededRefund
  <1>10. /\ order.status = (IF before = {} THEN "PAID"
                            ELSE IF AmountIn(refund, before) = Total THEN "REFUNDED"
                            ELSE "PARTIALLY_REFUNDED")
         /\ order.payment = IF order.status = "PAID" THEN "SUCCEEDED" ELSE order.status
    BY SumsNow DEF RefundsInv, OrderMatchesRefunds
  <1>11. refund[r].status = "SUCCEEDED" => before = made /\ before # {}
    BY <1>1, <1>4 DEF StatusIn
  <1>12. made # {}  BY <1>4
  <1> HIDE DEF r, before, made, next
  <1>13. order.status = next \/ order.status = "PAID"
         \/ (order.status = "PARTIALLY_REFUNDED" /\ next = "REFUNDED")
    BY <1>1, <1>6, <1>7, <1>8, <1>10, <1>11, RefundsAssumption
  <1>14. /\ canTransitionOrder(order.status, next)
         /\ canTransitionPayment(order.payment, next)
    BY <1>8, <1>10, <1>13
       DEF canTransitionOrder, canTransitionPayment, ORDER_TRANSITIONS, PAYMENT_TRANSITIONS
  <1>15. order' = [status |-> next, payment |-> next, refunded |-> AmountIn(refund, made)]
    BY <1>9, <1>14 DEF Moved
  <1>16. OrderMatchesRefunds'
    <2>1. WithStatus({"SUCCEEDED"})' = made  BY SumsNow DEF made
    <2>2. Amount(WithStatus({"SUCCEEDED"}))' = AmountIn(refund, made)
      BY <1>3, <2>1 DEF Amount, Units, AmountIn, UnitsIn
    <2> QED  BY <1>8, <1>12, <1>15, <2>1, <2>2 DEF OrderMatchesRefunds
  <1>17. Covered'
    <2>1. Amount(WithStatus(live))' = AmountIn(refund, StatusIn(refund, live))
      BY <1>3, <1>4 DEF Amount, Units, AmountIn, UnitsIn, WithStatus, StatusIn
    <2>2. IsFiniteSet(Units(Refunds))'  BY <1>2, <1>3 DEF Units, UnitsIn
    <2>3. \A q \in Refunds : refund'[q].amount = 0 <=> refund'[q].status = "NONE"
      BY <1>1, <1>2
    <2> QED  BY <1>2, <2>1, <2>2, <2>3 DEF Covered
  <1> QED  BY <1>6, <1>15, <1>16, <1>17, RefundsAssumption

\* A failed refund gives its amount back to the balance.
LEMMA FailureMoves ==
    ASSUME RefundsInv, NEW e \in refundEvents, processStripeRefundEvent(e),
           e.status = "FAILED", UNCHANGED order,
           refund[e.refund].status \in {"PENDING", "FAILED"},
           refund'[e.refund].status = "FAILED"
    PROVE  Covered' /\ OrderMatchesRefunds'
  <1> DEFINE r    == e.refund
             live == {"PENDING", "SUCCEEDED"}
  <1>1. /\ r \in Refunds
        /\ \A q \in Refunds : refund'[q].amount = refund[q].amount
        /\ \A q \in Refunds \ {r} : refund'[q].status = refund[q].status
    BY EventFinds
  <1>2. /\ IsFiniteSet(UnitsIn(refund, Refunds))
        /\ \A q \in Refunds : refund[q].amount = 0 <=> refund[q].status = "NONE"
        /\ AmountIn(refund, StatusIn(refund, live)) <= Total
    BY SumsNow DEF RefundsInv, Covered, Units, UnitsIn, Amount, AmountIn, WithStatus, StatusIn
  <1>3. \A S : /\ AmountIn(refund', S) = AmountIn(refund, S)
               /\ UnitsIn(refund', S) = UnitsIn(refund, S)
    BY <1>1, SameAmounts
  <1>4. /\ StatusIn(refund', {"SUCCEEDED"}) = StatusIn(refund, {"SUCCEEDED"})
        /\ StatusIn(refund', live) \subseteq StatusIn(refund, live)
    BY <1>1 DEF StatusIn
  <1>5. OrderMatchesRefunds'
    <2>1. WithStatus({"SUCCEEDED"})' = WithStatus({"SUCCEEDED"})  BY <1>4, SumsNow
    <2>2. Amount(WithStatus({"SUCCEEDED"}))' = Amount(WithStatus({"SUCCEEDED"}))
      BY <1>3, <2>1 DEF Amount, Units, AmountIn, UnitsIn
    <2> QED  BY <2>1, <2>2 DEF RefundsInv, OrderMatchesRefunds
  <1>6. Covered'
    <2>1. /\ AmountIn(refund, StatusIn(refund', live)) \in Nat
          /\ AmountIn(refund, StatusIn(refund, live)) \in Nat
          /\ AmountIn(refund, StatusIn(refund', live)) <= AmountIn(refund, StatusIn(refund, live))
      BY <1>2, <1>4, AmountGrows
    <2>2. Amount(WithStatus(live))' = AmountIn(refund, StatusIn(refund', live))
      BY <1>3 DEF Amount, Units, AmountIn, UnitsIn, WithStatus, StatusIn
    <2>3. IsFiniteSet(Units(Refunds))'  BY <1>2, <1>3 DEF Units, UnitsIn
    <2>4. \A q \in Refunds : refund'[q].amount = 0 <=> refund'[q].status = "NONE"
      BY <1>1, <1>2
    <2> QED  BY <1>2, <2>1, <2>2, <2>3, <2>4, RefundsAssumption DEF Covered
  <1> QED  BY <1>5, <1>6

\* An event finalizes what it can, and takes away nothing another event has finalized.
LEMMA EventKeeps ==
    ASSUME RefundsInv, NEW e \in refundEvents, processStripeRefundEvent(e)
    PROVE  RefundsInv'
  <1> DEFINE r == e.refund
  <1>1. /\ r \in Refunds /\ e.status \in RefundStatuses /\ e = EventOf(r, e.status)
        /\ refund \in [Refunds -> RefundRows] /\ refund' \in [Refunds -> RefundRows]
        /\ \A q \in Refunds : refund'[q].amount = refund[q].amount
        /\ \A q \in Refunds \ {r} : refund'[q].status = refund[q].status
        /\ refund[r].status # "NONE"
    BY EventFinds
  <1>2. /\ refundEvents' = refundEvents \ {e}
        /\ UNCHANGED <<admin, stripeRefund>>
    BY DEF processStripeRefundEvent
  <1>3. \/ /\ e.status = "SUCCEEDED" /\ ~Outdated(e) /\ applySucceededRefund(e)
           /\ refund[r].status \in {"PENDING", "SUCCEEDED"} /\ refund'[r].status = "SUCCEEDED"
        \/ /\ e.status = "FAILED" /\ UNCHANGED order
           /\ refund[r].status \in {"PENDING", "FAILED"} /\ refund'[r].status = "FAILED"
        \/ /\ e.status = "PENDING" \/ refund[r].status \in {"SUCCEEDED", "FAILED"}
           /\ UNCHANGED order /\ refund'[r].status = refund[r].status
    BY EventFinds DEF Outdated
  <1>4. Covered' /\ OrderMatchesRefunds' /\ order'.refunded \in 0 .. Total
    <2>1. order.refunded \in 0 .. Total  BY DEF RefundsInv, RefundsTypeOK
    <2>2. CASE e.status = "SUCCEEDED" /\ ~Outdated(e)
      BY <2>2, SuccessMoves
    <2>3. CASE e.status = "FAILED" /\ UNCHANGED order
               /\ refund[r].status \in {"PENDING", "FAILED"} /\ refund'[r].status = "FAILED"
      BY <2>1, <2>3, FailureMoves
    <2>4. CASE UNCHANGED order /\ refund'[r].status = refund[r].status
      <3>1. \A q \in Refunds : /\ refund'[q].status = refund[q].status
                               /\ refund'[q].amount = refund[q].amount
        BY <1>1, <2>4
      <3> QED  BY <2>1, <2>4, <3>1, MoneyKept
    <2> QED  BY <1>3, <2>2, <2>3, <2>4
  <1>5. stripeRefund[r] # "none"
        /\ (e.status = "SUCCEEDED" => stripeRefund[r] \in {"succeeded", "returned"})
        /\ (e.status = "FAILED" => stripeRefund[r] \in {"failed", "returned"})
    BY <1>1 DEF RefundsInv, EventsFollowBank
  <1>6. \A q \in Refunds, s \in {"SUCCEEDED", "FAILED"} :
           EventOf(q, s) \in refundEvents' <=>
              EventOf(q, s) \in refundEvents /\ ~(q = r /\ s = e.status)
    BY <1>1, <1>2 DEF EventOf
  <1> HIDE DEF r
  <1>7. RefundsTypeOK'
    <2>1. order' \in [status : Refundable \cup {"REFUNDED"}, refunded : 0 .. Total,
                      payment : {"SUCCEEDED", "PARTIALLY_REFUNDED", "REFUNDED"}]
      <3>1. CASE UNCHANGED order
        BY <3>1 DEF RefundsInv, RefundsTypeOK
      <3>2. CASE applySucceededRefund(e)
        <4>1. order' = [status |-> order'.status, payment |-> order'.payment,
                        refunded |-> order'.refunded]
          BY <3>2 DEF applySucceededRefund
        <4>2. /\ order'.status \in {"PAID", "PARTIALLY_REFUNDED", "REFUNDED"}
              /\ order'.payment \in {"SUCCEEDED", "PARTIALLY_REFUNDED", "REFUNDED"}
          BY <1>4 DEF OrderMatchesRefunds
        <4> QED  BY <1>4, <4>1, <4>2 DEF Refundable
      <3> QED  BY <1>3, <3>1, <3>2
    <2> QED  BY <1>1, <1>2, <2>1 DEF RefundsInv, RefundsTypeOK, RefundRows
  <1>8. InHandExist'
    <2>1. \A q \in Refunds : refund[q].status # "NONE" => refund'[q].status # "NONE"
      BY <1>1, <1>3
    <2> QED  BY <1>2, <2>1 DEF RefundsInv, InHandExist
  <1>9. RowFollowsBank'
    <2>1. ASSUME NEW q \in Refunds, q # r
          PROVE  refund'[q].status = refund[q].status
      BY <1>1, <2>1
    <2>2. stripeRefund'[r] = stripeRefund[r]  BY <1>2
    <2> QED  BY <1>1, <1>2, <1>3, <1>5, <2>1 DEF RefundsInv, RowFollowsBank
  <1>10. EventsFollowBank'
    <2>1. \A d \in refundEvents' : stripeRefund'[d.refund] # "none"
      BY <1>2 DEF RefundsInv, EventsFollowBank
    <2>2. ASSUME NEW q \in Refunds
          PROVE  /\ EventOf(q, "SUCCEEDED") \in refundEvents'
                        => stripeRefund'[q] \in {"succeeded", "returned"}
                 /\ EventOf(q, "FAILED") \in refundEvents'
                        => stripeRefund'[q] \in {"failed", "returned"}
                 /\ stripeRefund'[q] = "succeeded" =>
                       EventOf(q, "SUCCEEDED") \in refundEvents' \/ refund'[q].status = "SUCCEEDED"
                 /\ stripeRefund'[q] \in {"failed", "returned"} =>
                       EventOf(q, "FAILED") \in refundEvents'
                       \/ refund'[q].status \in {"SUCCEEDED", "FAILED"}
      <3>1. /\ EventOf(q, "SUCCEEDED") \in refundEvents => stripeRefund[q] \in {"succeeded", "returned"}
            /\ EventOf(q, "FAILED") \in refundEvents => stripeRefund[q] \in {"failed", "returned"}
            /\ stripeRefund[q] = "succeeded" =>
                  EventOf(q, "SUCCEEDED") \in refundEvents \/ refund[q].status = "SUCCEEDED"
            /\ stripeRefund[q] \in {"failed", "returned"} =>
                  EventOf(q, "FAILED") \in refundEvents
                  \/ refund[q].status \in {"SUCCEEDED", "FAILED"}
            /\ stripeRefund[q] = "succeeded" => refund[q].status \in {"PENDING", "SUCCEEDED"}
        BY DEF RefundsInv, EventsFollowBank, RowFollowsBank
      <3>2. CASE q = r
        BY <1>1, <1>2, <1>3, <1>6, <3>1, <3>2
      <3>3. CASE q # r
        BY <1>1, <1>2, <1>6, <3>1, <3>3
      <3> QED  BY <3>2, <3>3
    <2> QED  BY <2>1, <2>2 DEF EventsFollowBank, EventOf
  <1> QED  BY <1>4, <1>7, <1>8, <1>9, <1>10 DEF RefundsInv

LEMMA RefundsStep == RefundsInv /\ [RefundsNext]_refundVars => RefundsInv'
  <1> SUFFICES ASSUME RefundsInv, [RefundsNext]_refundVars PROVE RefundsInv'
    OBVIOUS
  <1>1. CASE UNCHANGED refundVars
    BY <1>1, RefundsStutter
  <1>2. ASSUME NEW a \in Admins,
               \/ \E r \in Refunds : RepeatRequest(a, r) \/ \E m \in 1 .. Total : reserveRefund(a, r, m)
               \/ CreateAtProvider(a) \/ LinkRefund(a) \/ AbandonRequest(a)
        PROVE  RefundsInv'
    BY <1>2, HandKeeps, ReserveKeeps, ProviderKeeps, LinkKeeps
  <1>3. ASSUME NEW r \in Refunds, StripeSettles(r) PROVE RefundsInv'
    BY <1>3, SettlesKeeps
  <1>4. ASSUME NEW e \in refundEvents, processStripeRefundEvent(e) PROVE RefundsInv'
    BY <1>4, EventKeeps
  <1> QED  BY <1>1, <1>2, <1>3, <1>4 DEF RefundsNext, RequestStep

(***************************************************************************)
(* What the invariant is for.                                              *)
(***************************************************************************)
LEMMA OnlyCoveredIsAsked == RefundsInv => NeverOverRefunded
  <1> SUFFICES ASSUME RefundsInv PROVE NeverOverRefunded
    OBVIOUS
  <1> DEFINE asked == {r \in Refunds : stripeRefund[r] \in {"pending", "succeeded"}}
             live  == StatusIn(refund, {"PENDING", "SUCCEEDED"})
  <1>1. asked \subseteq live  BY DEF RefundsInv, RowFollowsBank, StatusIn
  <1>2. IsFiniteSet(UnitsIn(refund, Refunds)) /\ AmountIn(refund, live) <= Total
    BY SumsNow DEF RefundsInv, Covered, Units, UnitsIn, Amount, AmountIn, WithStatus, StatusIn
  <1> HIDE DEF asked, live
  <1>3. /\ AmountIn(refund, asked) \in Nat /\ AmountIn(refund, live) \in Nat
        /\ AmountIn(refund, asked) <= AmountIn(refund, live)
    BY <1>1, <1>2, AmountGrows
  <1>4. AmountIn(refund, asked) <= Total  BY <1>2, <1>3, RefundsAssumption
  <1> QED  BY <1>4, SumsNow DEF NeverOverRefunded, asked

LEMMA SettledIsFinal == RefundsInv => SettledByFirstVerdict
  <1> SUFFICES ASSUME RefundsInv, NEW r \in Refunds, \A e \in refundEvents : e.refund # r
               PROVE  refund[r].status \in
                         [none      |-> {"NONE", "PENDING"},
                          pending   |-> {"PENDING"},
                          succeeded |-> {"SUCCEEDED"},
                          failed    |-> {"FAILED"},
                          returned  |-> {"SUCCEEDED", "FAILED"}][stripeRefund[r]]
    BY DEF SettledByFirstVerdict
  <1>1. \A s : EventOf(r, s) \notin refundEvents  BY DEF EventOf
  <1>2. stripeRefund[r] \in ProviderStates  BY DEF RefundsInv, RefundsTypeOK
  <1>3. /\ stripeRefund[r] = "none" => refund[r].status \in {"NONE", "PENDING"}
        /\ stripeRefund[r] = "pending" => refund[r].status = "PENDING"
        /\ stripeRefund[r] = "succeeded" => refund[r].status = "SUCCEEDED"
        /\ stripeRefund[r] = "failed" => refund[r].status = "FAILED"
        /\ stripeRefund[r] = "returned" => refund[r].status \in {"SUCCEEDED", "FAILED"}
    BY <1>1 DEF RefundsInv, RowFollowsBank, EventsFollowBank
  <1> QED  BY <1>2, <1>3 DEF ProviderStates

LEMMA RefundsHold == RefundsSpec => []RefundsInv
  BY RefundsStart, RefundsStep, PTL DEF RefundsSpec

\* The rows, the requests and the events keep their shapes, and no sum leaves 0 .. Total
\* (refund.service.js, refund-finalization.service.js).
THEOREM RefundsHaveTypes == RefundsSpec => []RefundsTypeOK
  BY RefundsHold, PTL DEF RefundsInv

\* However many requests race, are repeated or lose the answer of the provider, what the
\* provider has been asked to pay back never exceeds what was captured (reserveRefund).
THEOREM RefundsStayCovered == RefundsSpec => []NeverOverRefunded
  BY RefundsHold, OnlyCoveredIsAsked, PTL

\* In whatever order events confirm and fail refunds, the order, its payment and its
\* refunded amount are what the confirmed refunds add up to (applySucceededRefund).
THEOREM OrderFollowsRefunds == RefundsSpec => []OrderMatchesRefunds
  BY RefundsHold, PTL DEF RefundsInv

\* A refund none of whose events is outstanding has the status the provider gave it, and
\* if it came back after it had succeeded, the first final status that was processed
\* (applyRefundEvent: ignored_terminal_transition), which may be SUCCEEDED.
THEOREM SettledRefundsKeepVerdict == RefundsSpec => []SettledByFirstVerdict
  BY RefundsHold, SettledIsFinal, PTL
=============================================================================
