--------------------------- MODULE MCSellerPipeline ---------------------------
(* A small instance of SellerPipeline for TLC: the second revision is broken. *)
EXTENDS SellerPipeline, TLC

FirstIsSound == {1}
Symmetric == Permutations(Workers) \cup Permutations(Runs) \cup Permutations(Versions)
=============================================================================
