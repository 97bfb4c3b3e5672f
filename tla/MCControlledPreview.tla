------------------------- MODULE MCControlledPreview -------------------------
(* Small instances of ControlledPreview for TLC.                            *)
EXTENDS ControlledPreview, TLC

\* The project may have fewer jobs than there are entries.
OneLease == {[of |-> Generations, limit |-> 1]}
Symmetric == Permutations(Generations) \cup Permutations(Requests)
=============================================================================
