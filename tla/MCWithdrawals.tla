---------------------------- MODULE MCWithdrawals ----------------------------
(***************************************************************************)
(* Instances of the withdrawals for TLC: requests and reviews are          *)
(* interchangeable.                                                        *)
(***************************************************************************)
EXTENDS Withdrawals, TLC

WithdrawalSymmetry == Permutations(Requests) \cup Permutations(Reviewers)
=============================================================================
