------------------------------ MODULE MCDelivery ------------------------------
(***************************************************************************)
(* Instances of the delivery for TLC: workers, downloads and disputes are  *)
(* interchangeable.                                                        *)
(***************************************************************************)
EXTENDS DigitalDelivery, TLC

DeliverySymmetry == Permutations(Workers) \cup Permutations(Downloaders)
                    \cup Permutations(Disputes)
=============================================================================
