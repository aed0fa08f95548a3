-------------------------- MODULE CheckoutAllocation --------------------------
(***************************************************************************)
(* The checkout implements the abstract allocation of exclusive artworks.  *)
(* The abstract variables are read from two tables which must agree: an    *)
(* artwork whose counters say it is not for sale is owned by the order     *)
(* whose reservation rows name it.                                         *)
(***************************************************************************)
EXTENDS Checkout

Owners(a) == {o \in Orders : Holding(o) /\ a \in Reserved(o)}

Owner == [a \in Exclusive |->
            IF artwork[a].stock > artwork[a].reserved \/ Owners(a) = {}
            THEN None ELSE CHOOSE o \in Owners(a) : TRUE]

Sold == {a \in Exclusive : artwork[a].sold}

Abstract == INSTANCE Allocation WITH owner <- Owner, sold <- Sold

\* Every step of every handler is one move of an order's artworks, all together, or none
\* at all: no race leaves an order with part of its artworks, frees what is sold, or moves
\* an artwork from one order to another without it being free in between.
ImplementsAllocation == Abstract!Spec
===============================================================================
