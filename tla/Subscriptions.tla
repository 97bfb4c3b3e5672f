----------------------------- MODULE Subscriptions -----------------------------
(* The plan of one user (createPlanSubscription, applySubscriptionEvent and  *)
(* the cancel route of worker/payments): checkouts and cancellations in       *)
(* steps around their calls to PayPal, and PayPal's events in any order.      *)
EXTENDS Naturals, Sequences, FiniteSets

CONSTANTS
    Keys,        \* idempotency keys; the rows of the table are named by them
    Requests,    \* requests of the user that run at the same time
    NoKey,
    MaxEvents    \* bound: what PayPal has to tell

VARIABLES
    row,         \* key -> row of wcb_subscriptions
    payments,    \* sales that are in wcb_subscription_payments
    grants,      \* events whose month has the plan's Actions
    flagged,     \* events left to a person
    handled,     \* events that were answered with 200
    request,     \* requests, by where they are
    offered,     \* keys whose approval page the user was sent to
    agreement,   \* key -> the subscription at PayPal
    events       \* what PayPal tells, in the order in which it happened

books == <<row, payments, grants, flagged>>
told == <<payments, grants, flagged, handled>>
paypal == <<agreement, events>>
vars == <<books, handled, request, offered, paypal>>

NoRow == [status |-> "none", linked |-> FALSE, url |-> FALSE, paid |-> FALSE, last |-> 0]
Idle == [step |-> "idle", key |-> NoKey]

Init ==
    /\ row = [k \in Keys |-> NoRow]
    /\ payments = {} /\ grants = {} /\ flagged = {} /\ handled = {}
    /\ request = [r \in Requests |-> Idle]
    /\ offered = {}
    /\ agreement = [k \in Keys |-> "none"]
    /\ events = <<>>
-----------------------------------------------------------------------------
Exists(k) == row[k].status # "none"
Over == {"cancelled", "expired"}

\* The rows that the table allows a user one of.
Current == {"creating", "approval_pending", "active", "past_due", "cancelled"}

\* Mutant: the index leaves out rows that PayPal has not confirmed.
NoneButConfirmed(k) ==
    \A other \in Keys \ {k} : row[other].status \notin Current \ {"creating", "approval_pending"}

NoOtherCurrent(k) == \A other \in Keys \ {k} : row[other].status \notin Current

Goes(r, step) == request' = [request EXCEPT ![r].step = step]
Ends(r) == request' = [request EXCEPT ![r] = Idle]
At(r, step, k) == request[r].step = step /\ request[r].key = k

\* The rows a checkout asks for. Only a race leaves the user more than one;
\* which of them is the latest is then left open.
Standing(k) == row[k].status \in Current \cup {"reconciliation_required"}

\* A checkout takes up an unapproved row of its own key, or the one it finds.
LooksAt(k, found) ==
    IF Exists(k) THEN found = k ELSE Standing(found)

ResumeCheckout(r, k, found) ==
    /\ request[r] = Idle
    /\ LooksAt(k, found)
    /\ \/ row[found].status = "approval_pending"
       \/ row[found].status = "creating" /\ found = k
    /\ request' = [request EXCEPT ![r] =
          [step |-> IF row[found].linked THEN "verify" ELSE "create", key |-> found]]
    /\ UNCHANGED <<books, handled, offered, paypal>>

\* Nothing is in the way, or a plan whose paid time is over.
StartCheckout(r, k) ==
    /\ request[r] = Idle /\ ~Exists(k)
    /\ \/ \A other \in Keys : ~Standing(other)
       \/ \E other \in Keys : row[other].status = "cancelled" /\ ~row[other].paid
    /\ request' = [request EXCEPT ![r] = [step |-> "insert", key |-> k]]
    /\ UNCHANGED <<books, handled, offered, paypal>>

\* After verifyLivePlan; the table refuses a second current row.
InsertRow(r, k) ==
    /\ At(r, "insert", k)
    /\ ~Exists(k) /\ NoOtherCurrent(k)
    /\ row' = [row EXCEPT ![k] = [NoRow EXCEPT !.status = "creating"]]
    /\ Goes(r, "create")
    /\ UNCHANGED <<told, offered, paypal>>

\* PayPal-Request-Id makes a repeated call answer with the same subscription.
CreateAtProvider(r, k) ==
    /\ At(r, "create", k)
    /\ agreement' = [agreement EXCEPT ![k] = IF @ = "none" THEN "approval_pending" ELSE @]
    /\ Goes(r, "link")
    /\ UNCHANGED <<books, handled, offered, events>>

LinkRow(r, k) ==
    /\ At(r, "link", k)
    /\ row' = [row EXCEPT ![k].linked = TRUE, ![k].url = TRUE]
    /\ Goes(r, "verify")
    /\ UNCHANGED <<told, offered, paypal>>

\* PayPal has the subscription and it still waits for the buyer.
VerifyPending(r, k) ==
    /\ At(r, "verify", k) /\ agreement[k] = "approval_pending"
    /\ Goes(r, "mark")
    /\ UNCHANGED <<books, handled, offered, paypal>>

\* PayPal does not know it any more.
VerifyFails(r, k) ==
    /\ At(r, "verify", k) /\ agreement[k] = "gone"
    /\ Goes(r, "doubt")
    /\ UNCHANGED <<books, handled, offered, paypal>>

MarkForReconciliation(r, k) ==
    /\ At(r, "doubt", k)
    /\ row' = [row EXCEPT ![k] =
          IF @.linked /\ @.status \in {"creating", "approval_pending"}
          THEN [@ EXCEPT !.status = "reconciliation_required", !.url = FALSE] ELSE @]
    /\ Ends(r)
    /\ UNCHANGED <<told, offered, paypal>>

MarkPending(k) ==
    row' = [row EXCEPT ![k].status = IF @ = "creating" THEN "approval_pending" ELSE @]

\* The answer carries the page where the buyer approves.
MarkApprovalPending(r, k) ==
    /\ At(r, "mark", k)
    /\ MarkPending(k)
    /\ offered' = IF row[k].url THEN offered \cup {k} ELSE offered
    /\ Ends(r)
    /\ UNCHANGED <<told, paypal>>
-----------------------------------------------------------------------------
(* The cancel route.                                                         *)

StartCancel(r, k) ==
    /\ request[r] = Idle
    /\ Exists(k) /\ row[k].status \notin Over /\ row[k].linked
    /\ request' = [request EXCEPT ![r] = [step |-> "cancel", key |-> k]]
    /\ UNCHANGED <<books, handled, offered, paypal>>

Tells(k, kind) == events' = Append(events, [key |-> k, kind |-> kind])

CancelAtProvider(r, k) ==
    /\ At(r, "cancel", k)
    /\ agreement[k] \in {"active", "suspended"} /\ Len(events) < MaxEvents
    /\ agreement' = [agreement EXCEPT ![k] = "cancelled"]
    /\ Tells(k, "cancelled")
    /\ Goes(r, "cancelled")
    /\ UNCHANGED <<books, handled, offered>>

StoreCancelled(r, k) ==
    /\ At(r, "cancelled", k)
    /\ NoOtherCurrent(k)
    /\ row' = [row EXCEPT ![k].status = "cancelled"]
    /\ Ends(r)
    /\ UNCHANGED <<told, offered, paypal>>

\* A refusal, a failed call, a row the table refuses, or a dead Worker.
Abandon(r) ==
    /\ request[r] # Idle
    /\ Ends(r)
    /\ UNCHANGED <<books, handled, offered, paypal>>
-----------------------------------------------------------------------------
(* PayPal and the clock.                                                     *)

\* What PayPal and the buyer do by themselves: kind, and the states around it.
Happenings == {<<"approval_pending", "activated", "active">>, <<"active", "renewed", "active">>,
               <<"active", "failed", "active">>, <<"active", "suspended", "suspended">>,
               <<"suspended", "activated", "active">>, <<"active", "cancelled", "cancelled">>,
               <<"suspended", "cancelled", "cancelled">>, <<"active", "expired", "expired">>}

Happens(k) ==
    /\ Len(events) < MaxEvents
    /\ agreement[k] = "approval_pending" => k \in offered
    /\ \E h \in Happenings :
          /\ agreement[k] = h[1]
          /\ agreement' = [agreement EXCEPT ![k] = h[3]]
          /\ Tells(k, h[2])
    /\ UNCHANGED <<books, handled, request, offered>>

\* PayPal forgets a subscription that nobody approves.
Vanish(k) ==
    /\ agreement[k] = "approval_pending"
    /\ agreement' = [agreement EXCEPT ![k] = "gone"]
    /\ UNCHANGED <<books, handled, request, offered, events>>

PaidTimeEnds(k) ==
    /\ row[k].paid
    /\ row' = [row EXCEPT ![k].paid = FALSE]
    /\ UNCHANGED <<told, request, offered, paypal>>
-----------------------------------------------------------------------------
(* Webhooks. An event is its place in events, and so the time it happened;   *)
(* only one that was stored by this system's own checkout can be approved,   *)
(* so every event finds its row.                                             *)

\* Mutant: events are applied as they come.
StaleNever(i) == FALSE

Stale(i) == i < row[events[i].key].last
Reviving == {"activated", "renewed"}

StatusAfter(kind) ==
    CASE kind \in Reviving -> "active"
      [] kind \in {"failed", "suspended"} -> "past_due"
      [] OTHER -> kind

Ignore(i) ==
    /\ Stale(i) \/ (row[events[i].key].status \in Over /\ events[i].kind \in {"failed", "suspended"})
    /\ UNCHANGED books

FlagAfterEnd(i) ==
    /\ ~Stale(i) /\ row[events[i].key].status \in Over /\ events[i].kind \in Reviving
    /\ flagged' = flagged \cup {i}
    /\ UNCHANGED <<row, payments, grants>>

\* The time PayPal names as the next billing may be over when its event comes.
Apply(i, paid) ==
    LET k == events[i].key  kind == events[i].kind IN
    /\ ~Stale(i) /\ (row[k].status \in Over => kind \in Over)
    /\ StatusAfter(kind) \in Current => NoOtherCurrent(k)
    /\ paid # row[k].paid => kind \in Reviving
    /\ row' = [row EXCEPT ![k].status = StatusAfter(kind), ![k].paid = paid, ![k].last = i]
    /\ payments' = IF kind = "renewed" THEN payments \cup {i} ELSE payments
    /\ grants' = IF kind \in Reviving THEN grants \cup {i} ELSE grants
    /\ UNCHANGED flagged

\* applySubscriptionEvent in its transaction; when it throws nothing is kept
\* and PayPal delivers again.
Deliver(i) ==
    /\ i \in DOMAIN events \ handled
    /\ handled' = handled \cup {i}
    /\ Ignore(i) \/ FlagAfterEnd(i) \/ \E paid \in BOOLEAN : Apply(i, paid)
    /\ UNCHANGED <<request, offered, paypal>>

Checkout(r, k) ==
    \/ \E found \in Keys : ResumeCheckout(r, k, found)
    \/ StartCheckout(r, k) \/ InsertRow(r, k) \/ CreateAtProvider(r, k) \/ LinkRow(r, k)
    \/ VerifyPending(r, k) \/ VerifyFails(r, k) \/ MarkForReconciliation(r, k) \/ MarkApprovalPending(r, k)

Cancel(r, k) == StartCancel(r, k) \/ CancelAtProvider(r, k) \/ StoreCancelled(r, k)

Next ==
    \/ \E r \in Requests : Abandon(r) \/ \E k \in Keys : Checkout(r, k) \/ Cancel(r, k)
    \/ \E k \in Keys : Happens(k) \/ Vanish(k) \/ PaidTimeEnds(k)
    \/ \E i \in 1..MaxEvents : Deliver(i)

Spec == Init /\ [][Next]_vars
-----------------------------------------------------------------------------
(* What must hold.                                                           *)

TypeOK ==
    /\ row \in [Keys -> [status : Current \cup {"none", "expired", "reconciliation_required"},
                         linked : BOOLEAN, url : BOOLEAN, paid : BOOLEAN,
                         last : 0..MaxEvents]]
    /\ payments \subseteq handled /\ grants \subseteq handled /\ flagged \subseteq handled
    /\ handled \subseteq 1..Len(events)
    /\ offered \subseteq Keys

\* However checkouts overlap, are retried, given up or resumed under another
\* key, and whatever PayPal tells late: the user never has two plans at PayPal
\* that are billed at the same time.
BilledOnce == Cardinality({k \in Keys : agreement[k] \in {"active", "suspended"}}) <= 1

\* The events' order does not matter: once all that PayPal told of a plan was
\* delivered, the row says what PayPal says, also when the cancel route and
\* a checkout wrote to it in between.
Told(k) == {i \in DOMAIN events : events[i].key = k}

SettledAgrees ==
    \A k \in Keys : Told(k) # {} /\ Told(k) \subseteq handled =>
       row[k].status = StatusAfter(events[CHOOSE i \in Told(k) : \A j \in Told(k) : j <= i].kind)
=============================================================================
