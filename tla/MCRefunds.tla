------------------------------ MODULE MCRefunds ------------------------------
(***************************************************************************)
(* Instances of the refunds for TLC: keys and requests in flight are       *)
(* interchangeable.                                                        *)
(***************************************************************************)
EXTENDS Refunds, TLC

RefundSymmetry == Permutations(Refunds) \cup Permutations(Admins)
=============================================================================
