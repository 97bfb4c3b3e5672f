------------------------------ MODULE AiCredits ------------------------------
(* AI Actions: the included grant of every month, purchased packs (their     *)
(* orders at PayPal, captures and reversals) and the reservations that spend *)
(* them (worker/ai-usage.js, worker/payments/ai-packs.js). One user.         *)
(*                                                                           *)
(* An Action is a member of Units that belongs to a month's grant or a pack: *)
(* "n Actions of a source are left" is "n of its units are in no active      *)
(* reservation". Every operator below that changes a reservation is one      *)
(* database transaction under the user's advisory lock; AiEdits composes     *)
(* them with the requests that run them.                                     *)
EXTENDS FiniteSets, Naturals

CONSTANTS
    Keys,        \* idempotency keys of AI requests
    Months,      \* calendar months, 1..n
    Packs,       \* AI pack orders
    Units,       \* Actions
    SourceOf,    \* the month or the pack an Action belongs to
    Cost,        \* Actions a request costs: 1, or 3 for a deep one
    Concurrency, \* aiConcurrency of the user's plan
    Kinds,       \* of reversals: "refund", "dispute"
    MaxCheckouts \* bound: checkout requests of one pack in flight

ASSUME CreditAssumption ==
    /\ Months \subseteq Nat /\ 1 \in Months
    /\ Months \cap Packs = {}
    /\ SourceOf \in [Units -> Months \cup Packs]
    /\ Cost \in [Keys -> Nat \ {0}]
    /\ Concurrency \in Nat \ {0}
    /\ Kinds \subseteq {"refund", "dispute"}
    /\ MaxCheckouts \in Nat

VARIABLES
    month,       \* the month the clock is in
    pack,        \* wcb_ai_pack_orders with its credit and what PayPal did
    reservation  \* wcb_ai_usage_reservations, one row for each key

creditVars == <<month, pack, reservation>>

OrderStatuses ==
    {"absent", "creating", "approval_pending", "completed", "refunded", "reconciliation_required"}

PackRow ==
    [order : OrderStatuses,
     paypal : {"none", "created", "approved", "held", "captured"},
     credit : {"none", "live", "revoked"},
     recorded : SUBSET Kinds,   \* wcb_payment_reversals
     known : SUBSET Kinds,      \* reversals in wcb_payment_identities
     reading : SUBSET {"creating", "approval_pending"},  \* checkouts in flight, by the status read
     writing : SUBSET {"approval_pending", "reconciliation_required"}]  \* writes they still make

\* outcome: what a settled reservation answers, or what a failure noted on it.
Reservation ==
    [status : {"none", "reserved", "committed", "released"},
     base : Nat, units : SUBSET Units,
     outcome : {"none", "review", "done", "settlementPending", "releasePending"}]

NoPack ==
    [order |-> "absent", paypal |-> "none", credit |-> "none",
     recorded |-> {}, known |-> {}, reading |-> {}, writing |-> {}]

NoReservation == [status |-> "none", base |-> 0, units |-> {}, outcome |-> "none"]

CreditInit ==
    /\ month = 1
    /\ pack = [p \in Packs |-> NoPack]
    /\ reservation = [k \in Keys |-> NoReservation]
-----------------------------------------------------------------------------
(* Reservations.                                                             *)

Live(u) ==
    \/ SourceOf[u] = month
    \/ SourceOf[u] \in Packs /\ pack[SourceOf[u]].credit = "live"

Active == {k \in Keys : reservation[k].status \in {"reserved", "committed"}}

\* Reservations whose release failed; reserve releases them first.
ToRelease ==
    {k \in Keys : reservation[k].status = "reserved" /\ reservation[k].outcome = "releasePending"}

UnitsOf(S) == UNION {reservation[k].units : k \in S}

\* Faulty: only committed reservations count as consumed.
SpendableUnreserved ==
    {u \in Units : Live(u)}
        \ UnitsOf({k \in Keys : reservation[k].status = "committed"})

\* allocateAiActions: the month's grant first, then purchased credits.
Spendable == {u \in Units : Live(u)} \ UnitsOf(Active \ ToRelease)

Allocation(k, U) ==
    /\ U \subseteq Spendable
    /\ Cardinality(U) = Cost[k]
    /\ (\E u \in U : SourceOf[u] \in Packs) =>
         {u \in Spendable : SourceOf[u] = month} \subseteq U

AtConcurrencyLimit ==
    Cardinality({k \in Keys \ ToRelease : reservation[k].status = "reserved"}) >= Concurrency

\* A refusal (429, 402) rolls the whole transaction back.
Refused(k) == AtConcurrencyLimit \/ Cardinality(Spendable) < Cost[k]

Reserve(k, base, U) ==
    /\ reservation[k].status = "none"
    /\ ~Refused(k)
    /\ Allocation(k, U)
    /\ reservation' = [j \in Keys |->
         IF j = k
         THEN [status |-> "reserved", base |-> base, units |-> U, outcome |-> "none"]
         ELSE IF j \in ToRelease THEN [reservation[j] EXCEPT !.status = "released"]
         ELSE reservation[j]]

\* A commit is refused once the reservation was released or its credit revoked.
CanCommit(k) ==
    \/ reservation[k].status = "committed"
    \/ /\ reservation[k].status = "reserved"
       /\ \A u \in reservation[k].units :
            SourceOf[u] \in Packs => pack[SourceOf[u]].credit # "revoked"

Commit(k, outcome) ==
    /\ CanCommit(k)
    /\ reservation' = [reservation EXCEPT ![k] =
         [status |-> "committed", base |-> @.base, units |-> @.units, outcome |-> outcome]]

Settled(row) == IF row.status = "reserved" THEN [row EXCEPT !.status = "released"] ELSE row

Release(k) == reservation' = [reservation EXCEPT ![k] = Settled(@)]

RecordPending(k, outcome) ==
    reservation' = [reservation EXCEPT ![k] =
        IF @.status = "reserved" THEN [@ EXCEPT !.outcome = outcome] ELSE @]

\* A new month: the old grant has expired, what was spent of it stays spent.
NextMonth ==
    /\ month + 1 \in Months
    /\ month' = month + 1
    /\ UNCHANGED <<pack, reservation>>
-----------------------------------------------------------------------------
(* Packs. A checkout is a request that read the order, asks PayPal, and then *)
(* writes a status without looking at the order again.                       *)

SetPack(p, row) == pack' = [pack EXCEPT ![p] = row]

\* createAiPackOrder up to its first await: insert the order or read it.
RequestPack(p) ==
    LET status == IF pack[p].order = "absent" THEN "creating" ELSE pack[p].order
    IN  /\ Cardinality(pack[p].reading) + Cardinality(pack[p].writing) < MaxCheckouts
        /\ status \in {"creating", "approval_pending"}
        /\ SetPack(p, [pack[p] EXCEPT !.order = status, !.reading = @ \cup {status}])
        /\ UNCHANGED <<month, reservation>>

\* finishOrderCreation creates PayPal's order (once: the request id is the
\* order's), verifyOrder asks for it and decides what to write.
VerifyPack(p, seen) ==
    LET open == pack[p].paypal \in {"none", "created"}
        write == IF ~open THEN {"reconciliation_required"}
                 ELSE IF seen = "creating" THEN {"approval_pending"} ELSE {}
    IN  /\ seen \in pack[p].reading
        /\ SetPack(p, [pack[p] EXCEPT !.paypal = IF @ = "none" THEN "created" ELSE @,
                                      !.reading = @ \ {seen}, !.writing = @ \cup write])
        /\ UNCHANGED <<month, reservation>>

WriteVerified(p, status) ==
    /\ status \in pack[p].writing
    /\ SetPack(p, [pack[p] EXCEPT !.order = status, !.writing = @ \ {status}])
    /\ UNCHANGED <<month, reservation>>

\* The buyer has the approval link of an order a checkout has answered.
ApprovePack(p) ==
    /\ pack[p].paypal = "created" /\ pack[p].order \notin {"absent", "creating"}
    /\ SetPack(p, [pack[p] EXCEPT !.paypal = "approved"])
    /\ UNCHANGED <<month, reservation>>

\* captureAiPackOrder: PayPal takes the money, or holds the capture for now.
CapturePack(p) ==
    /\ pack[p].order = "approval_pending" /\ pack[p].paypal = "approved"
    /\ \E outcome \in {"held", "captured"} :
         SetPack(p, [pack[p] EXCEPT !.paypal = outcome])
    /\ UNCHANGED <<month, reservation>>

HeldCaptureSettles(p) ==
    /\ pack[p].paypal = "held"
    /\ SetPack(p, [pack[p] EXCEPT !.paypal = "captured"])
    /\ UNCHANGED <<month, reservation>>

ReversedStatus(kinds) ==
    IF "refund" \in kinds THEN "refunded" ELSE "reconciliation_required"

\* Faulty: the capture does not look for a reversal that came first.
FinalizeBlindly(p) ==
    /\ pack[p].paypal = "captured" /\ pack[p].credit = "none"
    /\ SetPack(p, [pack[p] EXCEPT !.order = "completed", !.credit = "live"])
    /\ UNCHANGED <<month, reservation>>

\* finalize, by the capture request or a webhook, as often as PayPal tells it.
\* A credit row exists exactly when the capture's identity does.
FinalizePack(p) ==
    LET row == pack[p]
    IN  /\ row.paypal \in {"held", "captured"}
        /\ row.order # "completed"
        /\ \/ /\ row.paypal = "held"
              /\ SetPack(p, [row EXCEPT !.order = "reconciliation_required"])
           \/ /\ row.paypal = "captured" /\ row.credit = "none"
              /\ row.recorded = {}
              /\ SetPack(p, [row EXCEPT !.order = "completed", !.credit = "live"])
           \/ /\ row.paypal = "captured" /\ row.credit = "none"
              /\ row.recorded # {}
              /\ SetPack(p, [row EXCEPT !.order = ReversedStatus(row.recorded),
                                        !.credit = "revoked"])
        /\ UNCHANGED <<month, reservation>>

\* applyAiPackReversal, whenever PayPal tells, and as often: record it, and if the capture is stored end
\* the credit together with the reservations that wait on it.
ReversePack(p, kind) ==
    LET row == pack[p]
        uses(k) == \E u \in reservation[k].units : SourceOf[u] = p
    IN  /\ row.paypal = "captured"
        /\ \/ /\ row.credit = "none"
              /\ SetPack(p, [row EXCEPT !.recorded = @ \cup {kind}])
              /\ UNCHANGED reservation
           \/ /\ row.credit # "none" /\ kind \notin row.known
              /\ SetPack(p, [row EXCEPT !.recorded = @ \cup {kind}, !.known = @ \cup {kind},
                       !.credit = "revoked",
                       !.order = IF @ = "refunded" THEN @ ELSE ReversedStatus({kind})])
              /\ reservation' = [k \in Keys |->
                   IF row.credit = "live" /\ uses(k) THEN Settled(reservation[k])
                   ELSE reservation[k]]
        /\ UNCHANGED month

PackStep(p) ==
    \/ RequestPack(p)
    \/ \E s \in OrderStatuses : VerifyPack(p, s) \/ WriteVerified(p, s)
    \/ ApprovePack(p) \/ CapturePack(p) \/ HeldCaptureSettles(p) \/ FinalizePack(p)
    \/ \E kind \in Kinds : ReversePack(p, kind)

CreditTypeOK ==
    /\ month \in Months
    /\ pack \in [Packs -> PackRow]
    /\ reservation \in [Keys -> Reservation]
=============================================================================
