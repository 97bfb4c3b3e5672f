-------------------------- MODULE MCSourceHistory --------------------------
(* Small instances of SourceHistory for TLC.                               *)
EXTENDS SourceHistory, TLC

CONSTANTS a, b, x, y, absent

\* a is edited back and forth, and together with b, which is created.
Imported == (a :> x) @@ (b :> absent)
BackAndForth == {a :> y, a :> x, (a :> y) @@ (b :> x), b :> absent}
=============================================================================
