---------------------------- MODULE MCSubscriptions ----------------------------
(* Small instances of Subscriptions for TLC.                                 *)
EXTENDS Subscriptions, TLC

Symmetric == Permutations(Keys) \cup Permutations(Requests)
=============================================================================
