-------------------------- MODULE MCSubscriptions --------------------------
(* Two interchangeable subscriptions.                                      *)
EXTENDS Subscriptions, TLC

Swaps == Permutations(Subs)
=============================================================================
