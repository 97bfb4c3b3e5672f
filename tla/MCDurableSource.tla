-------------------------- MODULE MCDurableSource --------------------------
(* Small instances of DurableSource for TLC.                               *)
EXTENDS DurableSource, TLC

CONSTANTS a, b, x, y, absent, k1, k2, k3, s1, s2

\* One edit creates a file and writes another, the next undoes half of it.
Imported == (a :> x) @@ (b :> absent)
TwoEdits == (k1 :> ((a :> y) @@ (b :> x))) @@ (k2 :> ((a :> y) @@ (b :> absent)))
ThreeEdits == TwoEdits @@ (k3 :> (a :> x))
=============================================================================
