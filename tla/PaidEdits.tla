------------------------------ MODULE PaidEdits ------------------------------
(* What the editor promises about AI edits and the AI Actions that pay for   *)
(* them, whatever requests, failures and payment events come in between:     *)
(* an edit needs a claim on Actions of live sources, the claim is charged at *)
(* most once, and once the edit is part of the source the claim is given up  *)
(* only when the money behind it went back.                                  *)
CONSTANTS
    Keys,  \* AI requests, named by their idempotency keys
    Packs  \* purchased sources of Actions, which a reversal takes back

VARIABLES
    claim,  \* how a request's Actions stand
    uses,   \* the purchased sources a claim was made on
    dead,   \* sources whose payment was reversed
    edited  \* requests whose edit is part of the project's source

vars == <<claim, uses, dead, edited>>

Init ==
    /\ claim = [k \in Keys |-> "none"]
    /\ uses = [k \in Keys |-> {}]
    /\ dead = {}
    /\ edited = {}

\* A claim is made on live sources; old claims without an edit may go with it.
Hold(k) ==
    /\ claim[k] = "none"
    /\ \E P \in SUBSET (Packs \ dead) : uses' = [uses EXCEPT ![k] = P]
    /\ \E D \in SUBSET {j \in Keys \ edited : claim[j] = "held"} :
         claim' = [j \in Keys |->
                     IF j = k THEN "held" ELSE IF j \in D THEN "dropped" ELSE claim[j]]
    /\ UNCHANGED <<dead, edited>>

\* The edit becomes part of the source. A claim may be gone by then, but only
\* because its source died.
Edit(k) ==
    /\ k \notin edited
    /\ \/ claim[k] \in {"held", "charged"}
       \/ claim[k] = "dropped" /\ uses[k] \cap dead # {}
    /\ edited' = edited \cup {k}
    /\ UNCHANGED <<claim, uses, dead>>

Charge(k) ==
    /\ claim[k] = "held"
    /\ uses[k] \cap dead = {}
    /\ claim' = [claim EXCEPT ![k] = "charged"]
    /\ UNCHANGED <<uses, dead, edited>>

Drop(k) ==
    /\ claim[k] = "held"
    /\ k \notin edited
    /\ claim' = [claim EXCEPT ![k] = "dropped"]
    /\ UNCHANGED <<uses, dead, edited>>

\* A reversal ends the source and every claim on it that is not charged yet.
Revoke(p) ==
    /\ p \notin dead
    /\ dead' = dead \cup {p}
    /\ claim' = [k \in Keys |->
                   IF claim[k] = "held" /\ p \in uses[k] THEN "dropped" ELSE claim[k]]
    /\ UNCHANGED <<uses, edited>>

Next ==
    \/ \E k \in Keys : Hold(k) \/ Edit(k) \/ Charge(k) \/ Drop(k)
    \/ \E p \in Packs : Revoke(p)

Spec == Init /\ [][Next]_vars
=============================================================================
