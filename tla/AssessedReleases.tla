--------------------------- MODULE AssessedReleases ---------------------------
(***************************************************************************)
(* What the seller pipeline promises, with reviewers, workers, leases and  *)
(* operators left out: a work goes to buyers only after a reviewer let it  *)
(* in, an assessment of exactly this work passed, it was released and its  *)
(* rights were cleared; no stage is taken back or decided twice.           *)
(* SellerPipeline is shown to implement this specification.                *)
(***************************************************************************)
CONSTANTS
    Works,  \* revisions of one project
    Sound   \* works that pass the fixed check

VARIABLES
    stage,    \* how far a work has come
    cleared,  \* released works whose rights were verified
    offer,    \* the work that the project's listing is bound to, if any
    shown     \* buyers can buy it

vars == <<stage, cleared, offer, shown>>

Init ==
    /\ stage = [w \in Works |-> "private"]
    /\ cleared = {}
    /\ offer = {}
    /\ shown = FALSE

\* One decision: the only way from a stage to another.
Moves(w, from, to) ==
    /\ stage[w] = from
    /\ stage' = [stage EXCEPT ![w] = to]
    /\ UNCHANGED <<cleared, offer, shown>>

Verdicts(w) == {"errored"} \cup (IF w \in Sound THEN {"passed"} ELSE {"failed"})

Advance(w) ==
    \/ Moves(w, "private", "submitted")
    \/ \E verdict \in {"refused", "approved"} : Moves(w, "submitted", verdict)
    \/ Moves(w, "approved", "admitted")
    \/ \E verdict \in Verdicts(w) : Moves(w, "admitted", verdict)
    \/ Moves(w, "admitted", "cancelled")
    \/ Moves(w, "passed", "released")

Clear(w) ==
    /\ stage[w] = "released"
    /\ cleared' = cleared \cup {w}
    /\ UNCHANGED <<stage, offer, shown>>

Offer(w) ==
    /\ w \in cleared /\ offer = {}
    /\ offer' = {w}
    /\ shown' = TRUE
    /\ UNCHANGED <<stage, cleared>>

Show ==
    /\ offer # {}
    /\ shown' \in BOOLEAN
    /\ UNCHANGED <<stage, cleared, offer>>

Next == Show \/ \E w \in Works : Advance(w) \/ Clear(w) \/ Offer(w)

Spec == Init /\ [][Next]_vars
=============================================================================
