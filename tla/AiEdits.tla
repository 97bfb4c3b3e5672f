------------------------------- MODULE AiEdits -------------------------------
(* AI requests and the source they edit (worker/ai.js, the AI and save       *)
(* routes of worker/editor-projects.js), paid with the Actions of AiCredits. *)
(* One project of one user.                                                  *)
(*                                                                           *)
(* A request is an asynchronous function: a transaction or a call to the     *)
(* model is one action, and between two of them any other request runs.      *)
EXTENDS AiCredits, Sequences

CONSTANTS
    Saves,      \* idempotency keys of edits by hand
    Workers,    \* AI requests that run at the same time
    NoKey,
    MaxRevision, \* bound: saves that are accepted
    MaxFaults   \* bound: transactions that fail and requests that die

ASSUME NameAssumption == NoKey \notin Keys /\ Keys \cap Saves = {}

VARIABLES
    req,       \* what each running AI request does next
    edits,     \* the accepted transactions of the history; the revision is their number
    faults

requestVars == <<req, edits, faults>>
vars == <<month, pack, reservation, req, edits, faults>>

Steps == {"idle", "recover", "reserve", "rerelease", "generate", "apply", "reapply",
          "commitReview", "commitDone", "updateDone", "release", "markSettle", "markRelease"}

Request == [step : Steps, key : Keys \cup {NoKey}, apply : BOOLEAN, base : Nat]

Idle == [step |-> "idle", key |-> NoKey, apply |-> FALSE, base |-> 0]

Init ==
    /\ CreditInit
    /\ req = [w \in Workers |-> Idle]
    /\ edits = <<>>
    /\ faults = 0

Revision == Len(edits)
Accepted == {edits[i].key : i \in DOMAIN edits}

Goes(w, step) == req' = [req EXCEPT ![w] = IF step = "idle" THEN Idle ELSE [@ EXCEPT !.step = step]]
Key(w) == req[w].key
At(w, step) == req[w].step = step
-----------------------------------------------------------------------------
(* The source. Its writers take the row's lock, so a save is one step.       *)

\* Faulty: the edit is applied to whatever the source is now.
SavedAnywhere(key, base) == IF key \in Accepted THEN "replayed" ELSE "accepted"

\* saveCode, saveVisual: a key that is in the history is answered from it, an
\* edit of another revision is refused, and everything else is appended.
Saved(key, base) ==
    IF key \in Accepted THEN "replayed" ELSE IF base # Revision THEN "conflict" ELSE "accepted"

AppendIfNew(key, base) ==
    edits' = IF Saved(key, base) = "accepted"
             THEN Append(edits, [key |-> key, base |-> base]) ELSE edits

\* Save, undo or redo by hand, of the revision a tab shows, and again whenever
\* the tab has no answer.
SaveByHand(s) ==
    /\ Revision < MaxRevision
    /\ \E base \in 0..Revision : Saved(s, base) # "conflict" /\ AppendIfNew(s, base)
    /\ UNCHANGED <<creditVars, req, faults>>
-----------------------------------------------------------------------------
(* AI requests.                                                              *)

\* aiProposal up to the reservation. An edit that is in the history already
\* needs no model: the request only settles its reservation.
Read(w, k, apply) ==
    LET recovers == apply /\ k \in Accepted
    IN  /\ At(w, "idle")
        /\ recovers => reservation[k].status \notin {"none", "released"}
        /\ req' = [req EXCEPT ![w] =
             [step |-> IF recovers THEN "recover" ELSE "reserve", key |-> k, apply |-> apply,
              base |-> IF recovers THEN reservation[k].base ELSE Revision]]
        /\ UNCHANGED <<creditVars, edits, faults>>

\* The first reservation of a key lets the request go on. A repeated one is
\* answered from the row; that a save of this key waits to be settled is seen
\* by Read, since the revision has moved.
ReserveActions(w) ==
    LET row == reservation[Key(w)]
    IN  /\ At(w, "reserve")
        /\ \/ /\ \E U \in SUBSET Units : Reserve(Key(w), req[w].base, U)
              /\ Goes(w, "generate")
           \/ /\ row.status = "none" /\ Refused(Key(w))
              /\ Goes(w, "idle")
              /\ UNCHANGED reservation
           \/ /\ row.status # "none"
              /\ Goes(w, IF row.base # req[w].base THEN "idle"
                         ELSE IF row.status = "reserved" /\ row.outcome = "releasePending"
                         THEN "rerelease"
                         ELSE IF row.status = "committed" /\ row.outcome = "review" /\ req[w].apply
                         THEN "reapply" ELSE "idle")
              /\ UNCHANGED reservation
        /\ UNCHANGED <<month, pack, edits, faults>>

\* generateProposal and parseProposal: operations to apply, a proposal to look
\* at, or an error, after at most one more attempt.
Generate(w) ==
    /\ At(w, "generate")
    /\ \E next \in {"commitReview", "release"} \cup (IF req[w].apply THEN {"apply"} ELSE {}) :
         Goes(w, next)
    /\ UNCHANGED <<creditVars, edits, faults>>

\* apply: the proposal is saved on the revision the request read.
Apply(w) ==
    /\ Revision < MaxRevision
    /\ req[w].step \in {"apply", "reapply"}
    /\ AppendIfNew(Key(w), req[w].base)
    /\ Goes(w, IF Saved(Key(w), req[w].base) = "conflict"
               THEN IF At(w, "apply") THEN "release" ELSE "idle"
               ELSE IF At(w, "apply") THEN "commitDone" ELSE "updateDone")
    /\ UNCHANGED <<creditVars, faults>>

\* Faulty: an error releases the reservation, whatever was saved before.
OnErrorRelease(step) ==
    CASE step \in {"apply", "commitReview", "commitDone"} -> "release"
      [] step = "release" -> "markRelease"
      [] OTHER -> "idle"

\* What a request does when the commit, the save or the release it waits for
\* throws. After an accepted save the reservation is never released.
OnError(step) ==
    CASE step \in {"apply", "commitReview"} -> "release"
      [] step = "commitDone" -> "markSettle"
      [] step = "release" -> "markRelease"
      [] OTHER -> "idle"

CommitActions(w) ==
    LET step == req[w].step
    IN  /\ step \in {"recover", "commitReview", "commitDone", "updateDone"}
        /\ \/ /\ Commit(Key(w), IF step = "commitReview" THEN "review" ELSE "done")
              /\ Goes(w, "idle")
           \/ /\ ~CanCommit(Key(w))
              /\ Goes(w, OnError(step))
              /\ UNCHANGED reservation
        /\ UNCHANGED <<month, pack, edits, faults>>

ReleaseActions(w) ==
    /\ req[w].step \in {"release", "rerelease"}
    /\ Release(Key(w))
    /\ Goes(w, "idle")
    /\ UNCHANGED <<month, pack, edits, faults>>

\* recordPending: what is left to do is noted on the reservation.
NotePending(w) ==
    /\ req[w].step \in {"markSettle", "markRelease"}
    /\ RecordPending(Key(w), IF At(w, "markSettle") THEN "settlementPending" ELSE "releasePending")
    /\ Goes(w, "idle")
    /\ UNCHANGED <<month, pack, edits, faults>>

\* A transaction fails and is rolled back.
TransactionFails(w) ==
    /\ faults < MaxFaults
    /\ req[w].step \notin {"idle", "generate"}
    /\ Goes(w, OnError(req[w].step))
    /\ faults' = faults + 1
    /\ UNCHANGED <<creditVars, edits>>

\* The request ends where it is: the Worker is gone, or its one connection to
\* the database, without which nothing that is left to do can be done.
RequestDies(w) ==
    /\ faults < MaxFaults
    /\ ~At(w, "idle")
    /\ Goes(w, "idle")
    /\ faults' = faults + 1
    /\ UNCHANGED <<creditVars, edits>>

Progress(w) ==
    \/ ReserveActions(w) \/ Generate(w) \/ Apply(w)
    \/ CommitActions(w) \/ ReleaseActions(w) \/ NotePending(w)

Next ==
    \/ \E w \in Workers : Progress(w) \/ TransactionFails(w) \/ RequestDies(w)
    \/ \E w \in Workers, k \in Keys, apply \in BOOLEAN : Read(w, k, apply)
    \/ \E s \in Saves : SaveByHand(s)
    \/ (\E p \in Packs : PackStep(p)) /\ UNCHANGED requestVars
    \/ NextMonth /\ UNCHANGED requestVars

Spec == Init /\ [][Next]_vars
-----------------------------------------------------------------------------
(* Properties.                                                               *)

TypeOK ==
    /\ CreditTypeOK
    /\ req \in [Workers -> Request]
    /\ edits \in Seq([key : Keys \cup Saves, base : Nat])
    /\ faults \in 0..MaxFaults

\* No Action is spent twice: active reservations hold different Actions, each
\* as many as its request costs. reserve (ai-usage.js) decides it, for every
\* order of reservations, failed releases, months and revoked packs.
NeverOverdrawn ==
    \A k \in Active :
        /\ Cardinality(reservation[k].units) = Cost[k]
        /\ \A j \in Active \ {k} : reservation[k].units \cap reservation[j].units = {}

\* The history is a chain: every accepted edit, by hand or by the AI, was made
\* on the revision before it, and no idempotency key is in it twice.
EditsChain ==
    \A i \in DOMAIN edits :
        /\ edits[i].base = i - 1
        /\ \A j \in DOMAIN edits : edits[i].key = edits[j].key => i = j

Claim(row) ==
    CASE row.status = "reserved" -> "held"
      [] row.status = "committed" -> "charged"
      [] row.status = "released" -> "dropped"
      [] OTHER -> "none"

Paid == INSTANCE PaidEdits WITH
    claim <- [k \in Keys |-> Claim(reservation[k])],
    uses <- [k \in Keys |-> {SourceOf[u] : u \in reservation[k].units} \cap Packs],
    dead <- {p \in Packs : pack[p].recorded # {}},
    edited <- Keys \cap Accepted

\* Whatever fails, an AI edit that is in the source was paid for with Actions
\* that nothing else used, unless the payment behind them was reversed: the
\* orders of commit, release and recovery in ai.js and editor-projects.js.
ImplementsPaidEdits == Paid!Spec
=============================================================================
