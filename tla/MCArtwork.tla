------------------------------ MODULE MCArtwork ------------------------------
(***************************************************************************)
(* Instances of the artwork for TLC: orders, requests and files are        *)
(* interchangeable.                                                        *)
(***************************************************************************)
EXTENDS ArtworkLifecycle, TLC

ArtworkSymmetry == Permutations(Orders) \cup Permutations(Tabs) \cup Permutations(Files)
=============================================================================
