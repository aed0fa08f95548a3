------------------------------ MODULE Allocation ------------------------------
(***************************************************************************)
(* What buying an exclusive artwork promises, with no handler, no payment  *)
(* and no provider in sight: each artwork is free, held for one order or   *)
(* sold to one order; an order takes all the artworks it asks for or none, *)
(* gives all of them back or buys all of them; and what is sold stays sold *)
(* to the order that bought it.                                            *)
(***************************************************************************)
CONSTANTS Exclusive, Orders, None

VARIABLES
    owner,      \* [Exclusive -> Orders \cup {None}]: who holds or has bought each artwork
    sold        \* the artworks sold

vars == <<owner, sold>>

Owned(o) == {a \in Exclusive : owner[a] = o}

Init ==
    /\ owner = [a \in Exclusive |-> None]
    /\ sold = {}

\* Take every artwork of a cart, while all of them are free.
Hold(o, artworks) ==
    /\ Owned(o) = {}
    /\ \A a \in artworks : owner[a] = None
    /\ owner' = [a \in Exclusive |-> IF a \in artworks THEN o ELSE owner[a]]
    /\ UNCHANGED sold

Free(o) ==
    /\ Owned(o) \cap sold = {}
    /\ owner' = [a \in Exclusive |-> IF owner[a] = o THEN None ELSE owner[a]]
    /\ UNCHANGED sold

Sell(o) ==
    /\ Owned(o) \cap sold = {}
    /\ sold' = sold \cup Owned(o)
    /\ UNCHANGED owner

Next ==
    \E o \in Orders :
        \/ \E artworks \in (SUBSET Exclusive) \ {{}} : Hold(o, artworks)
        \/ Free(o)
        \/ Sell(o)

Spec == Init /\ [][Next]_vars
===============================================================================
