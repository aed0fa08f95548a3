----------------------------- MODULE MCCheckout -----------------------------
(***************************************************************************)
(* Instances of the checkout for TLC.  Buyers, orders and handlers are     *)
(* interchangeable, artworks too when all are sold under one licence at    *)
(* one price: only safety runs use the symmetry.                           *)
(***************************************************************************)
EXTENDS CheckoutAllocation, TLC

Symmetry == Permutations(Users) \cup Permutations(Orders) \cup Permutations(Workers)
            \cup Permutations(Tabs)
FullSymmetry == Symmetry \cup Permutations(Artworks)
=============================================================================
