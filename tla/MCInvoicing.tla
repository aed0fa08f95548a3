----------------------------- MODULE MCInvoicing -----------------------------
(***************************************************************************)
(* Instances of the invoicing for TLC: the commissions of an order of two  *)
(* artists, and the sale to one of them of another.                        *)
(***************************************************************************)
EXTENDS Invoicing, TLC

CONSTANTS commissions, sale, ann, bob

MCType       == [t \in Tasks |-> IF t = sale THEN "SALE" ELSE "COMMISSION"]
MCRecipients == [t \in Tasks |-> IF t = sale THEN <<ann>> ELSE <<ann, bob>>]

InvoicingSymmetry == Permutations(Workers)
=============================================================================
