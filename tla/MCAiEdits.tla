------------------------------ MODULE MCAiEdits ------------------------------
(* Small instances of AiEdits for TLC.                                       *)
EXTENDS AiEdits, TLC

CONSTANTS k1, k2, s1, p1, u1, u2

\* One Action of the first month, one of a pack.
FirstMonthAndPack == [u \in {u1, u2} |-> IF u = u1 THEN 1 ELSE p1]
OneEach == [k \in Keys |-> 1]
TwoMonths == {1, 2}
Symmetric == Permutations(Workers) \cup Permutations(Keys)
=============================================================================
