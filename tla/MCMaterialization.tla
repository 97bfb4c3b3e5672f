--------------------------- MODULE MCMaterialization ---------------------------
(* A small instance of Materialization for TLC: an owner with a project, and  *)
(* somebody it is shared with, who may come to make a working copy.           *)
EXTENDS Materialization, TLC

CONSTANTS owner, guest, s1, s2, own, bought, e1

SessionUser == [s \in {s1, s2} |-> IF s = s1 THEN owner ELSE guest]
GuestsEntitlement == [e \in {e1} |-> guest]
ReservedCopy == [e \in {e1} |-> bought]
Symmetric == Permutations(Requests)
=============================================================================
