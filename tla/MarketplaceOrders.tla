------------------------- MODULE MarketplaceOrders -------------------------
(***************************************************************************)
(* The marketplace checkout of worker/payments: an order is created, paid  *)
(* at PayPal, captured, refunded and disputed by Worker requests and by    *)
(* PayPal webhooks that run concurrently on one PostgreSQL database.       *)
(*                                                                         *)
(* A request is cut at its awaits: a database transaction or an unlocked   *)
(* read is one action, a call to PayPal is one action, and between two of  *)
(* them any other request, webhook or PayPal event may run, or the Worker  *)
(* may die.  repo.atomic either commits all of its writes or none.         *)
(*                                                                         *)
(* An order stands for one (buyer, idempotency key) pair, and the PayPal   *)
(* order, the capture and the CAPTURE.COMPLETED event that belong to it    *)
(* are named by it; a refund or a dispute names itself and its event.      *)
(***************************************************************************)
EXTENDS Integers

CONSTANTS
    Orders,     \* marketplace orders, one for each buyer and checkout key
    Refunds,    \* refund ids; the operator's refund key of the same refund too
    Disputes,   \* dispute and reversal ids
    Title,      \* what an order buys: one buyer, release and provider
    OrderOf,    \* the order whose capture a refund or a dispute is about
    Gross,      \* price of an order in minor units, 0 for a free listing
    Fee,        \* platform fee of an order, fixed when it was created
    Amount,     \* amount of a refund in minor units
    Workers,    \* requests the Worker handles at the same time
    MaxThrows,  \* bound: transient failures of webhook handlers
    MaxCrashes, \* bound: webhook handlers that die without answering
    Overlap     \* may PayPal deliver an event again before an answer?

Events == Orders \cup Refunds \cup Disputes

ASSUME DistinctIds ==
    /\ Orders \cap Refunds = {}
    /\ Orders \cap Disputes = {}
    /\ Refunds \cap Disputes = {}

ASSUME MoneyAssumption ==
    /\ OrderOf \in [Refunds \cup Disputes -> Orders]
    /\ Gross \in [Orders -> Nat]
    /\ Fee \in [Orders -> Nat]
    /\ \A o \in Orders : Fee[o] <= Gross[o]
    /\ Amount \in [Refunds -> Nat \ {0}]

ASSUME BoundAssumption ==
    /\ MaxThrows \in Nat
    /\ MaxCrashes \in Nat
    /\ Overlap \in BOOLEAN

VARIABLES
    order,       \* wcb_orders
    entitlement, \* wcb_license_entitlements.status of the order's entitlement
    identities,  \* wcb_payment_identities: captures (by order) and disputes
    refundRow,   \* wcb_refunds: by which kind of idempotency key it was stored
    refunded,    \* sum of wcb_refunds.refund_minor of an order
    ledger,      \* wcb_creator_ledger of an order: the sale and the reversals
    flagged,     \* wcb_payment_reconciliation: events held for a person
    inbox,       \* wcb_provider_events.status
    paypal,      \* PayPal's own state of the order
    sent,        \* events PayPal has something to tell about
    acked,       \* events PayPal has got a 200 for
    handler,     \* the webhook request that works on an event
    request,     \* the buyer's or operator's request each worker is running
    throws,      \* transient webhook failures so far
    crashes      \* webhook handlers that died so far

books == <<order, entitlement, identities, refundRow, refunded, ledger>>
mail == <<flagged, inbox, acked, handler, throws, crashes>>
vars == <<books, mail, paypal, sent, request>>

Idle == [step |-> "idle"]
Steps == {"insert", "free", "create", "link", "capture", "finalize",
          "mismatch", "refund", "applyRefund"}

Statuses == {"absent", "processing", "creating", "approval_pending",
             "completed", "partially_refunded", "refunded", "disputed"}
OrderRow == [status : Statuses, linked : BOOLEAN, captureId : BOOLEAN]
LedgerRow == [sold : BOOLEAN, fee : Nat, creator : Nat]
Request == {Idle} \cup [step : Steps, subject : Orders \cup Refunds]

TypeOK ==
    /\ order \in [Orders -> OrderRow]
    /\ entitlement \in [Orders -> {"none", "active", "revoked"}]
    /\ identities \subseteq Orders \cup Disputes
    /\ refundRow \in [Refunds -> {"absent", "operator", "webhook"}]
    /\ refunded \in [Orders -> Nat]
    /\ ledger \in [Orders -> LedgerRow]
    /\ flagged \subseteq Events
    /\ inbox \in [Events -> {"absent", "received", "processed", "failed"}]
    /\ paypal \in [Orders -> {"none", "created", "approved", "pending", "captured"}]
    /\ sent \subseteq Events
    /\ acked \subseteq Events
    /\ handler \in [Events -> {"idle", "apply", "mark", "answer", "fail"}]
    /\ request \in [Workers -> Request]
    /\ throws \in 0..MaxThrows
    /\ crashes \in 0..MaxCrashes

Init ==
    /\ order = [o \in Orders |->
         [status |-> "absent", linked |-> FALSE, captureId |-> FALSE]]
    /\ entitlement = [o \in Orders |-> "none"]
    /\ identities = {}
    /\ refundRow = [r \in Refunds |-> "absent"]
    /\ refunded = [o \in Orders |-> 0]
    /\ ledger = [o \in Orders |-> [sold |-> FALSE, fee |-> 0, creator |-> 0]]
    /\ flagged = {}
    /\ inbox = [e \in Events |-> "absent"]
    /\ paypal = [o \in Orders |-> "none"]
    /\ sent = {}
    /\ acked = {}
    /\ handler = [e \in Events |-> "idle"]
    /\ request = [w \in Workers |-> Idle]
    /\ throws = 0
    /\ crashes = 0
-----------------------------------------------------------------------------
(* The transactions of domain.js, as what they do to the books.             *)

\* ensureEntitlement inserts, and on a conflict leaves the row as it is.
EnsureEntitlement(o) ==
    entitlement' = [entitlement EXCEPT ![o] = IF @ = "none" THEN "active" ELSE @]

\* Faulty: the row is not touched.
RevokeForgotten(o) == UNCHANGED entitlement

\* revokeEntitlementForOrder touches an active row only.
RevokeEntitlement(o) ==
    entitlement' = [entitlement EXCEPT ![o] = IF @ = "active" THEN "revoked" ELSE @]

AtLeastZero(n) == IF n > 0 THEN n ELSE 0

\* What is still to be taken back so that cum of the price counts as refunded.
TargetFee(o, cum) == (Fee[o] * cum) \div Gross[o]
\* Faulty: the difference is taken the wrong way round.
FeeReversalSwapped(o, cum) == ledger[o].fee - TargetFee(o, cum)

FeeReversal(o, cum) == AtLeastZero(TargetFee(o, cum) - ledger[o].fee)
CreatorReversal(o, cum) ==
    AtLeastZero((cum - TargetFee(o, cum)) - ledger[o].creator)

Reverse(o, fee, creator) ==
    ledger' = [ledger EXCEPT ![o] =
        [sold |-> @.sold, fee |-> @.fee + fee, creator |-> @.creator + creator]]

\* wcb_license_entitlements is UNIQUE in user, release and provider: a second
\* order for the same purchase cannot get a row, even after a revocation, and
\* the transaction that tries is rolled back.
TitleTaken(o) ==
    /\ order[o].status # "completed"
    /\ o \notin identities
    /\ \E p \in Orders \ {o} : Title[p] = Title[o] /\ entitlement[p] # "none"

CompleteFreeOrder(o) ==
    IF order[o].status = "completed"
    THEN UNCHANGED books
    ELSE /\ order' = [order EXCEPT ![o].status = "completed"]
         /\ EnsureEntitlement(o)
         /\ UNCHANGED <<identities, refundRow, refunded, ledger>>

\* Faulty: the capture's identity is not looked up, only the order's status.
FinalizeNoIdentity(o) ==
    IF order[o].status = "completed"
    THEN UNCHANGED books
    ELSE /\ identities' = identities \cup {o}
         /\ order' = [order EXCEPT ![o] =
                         [@ EXCEPT !.status = "completed", !.captureId = TRUE]]
         /\ EnsureEntitlement(o)
         /\ ledger' = [ledger EXCEPT ![o].sold = TRUE]
         /\ UNCHANGED <<refundRow, refunded>>

\* finalizeCapture on a capture that matches the order.
FinalizeCapture(o) ==
    IF order[o].status = "completed" \/ o \in identities
    THEN UNCHANGED books
    ELSE /\ identities' = identities \cup {o}
         /\ order' = [order EXCEPT ![o] =
                         [@ EXCEPT !.status = "completed", !.captureId = TRUE]]
         /\ EnsureEntitlement(o)
         /\ ledger' = [ledger EXCEPT ![o].sold = TRUE]
         /\ UNCHANGED <<refundRow, refunded>>

\* Faulty: the refund total is not checked under the lock.
RefundUnchecked(r) == FALSE

\* applyRefund throws, and so rolls back, when the total passes the price.
RefundTooLarge(r) ==
    /\ refundRow[r] = "absent"
    /\ refunded[OrderOf[r]] + Amount[r] > Gross[OrderOf[r]]

ApplyRefund(r, key) ==
    LET o == OrderOf[r]
        cum == refunded[o] + Amount[r]
    IN  IF refundRow[r] # "absent"
        THEN UNCHANGED books
        ELSE /\ refundRow' = [refundRow EXCEPT ![r] = key]
             /\ refunded' = [refunded EXCEPT ![o] = cum]
             /\ Reverse(o, FeeReversal(o, cum), CreatorReversal(o, cum))
             /\ \/ /\ order[o].status = "disputed"
                   /\ UNCHANGED <<order, entitlement>>
                \/ /\ order[o].status # "disputed"
                   /\ cum = Gross[o]
                   /\ order' = [order EXCEPT ![o].status = "refunded"]
                   /\ RevokeEntitlement(o)
                \/ /\ order[o].status # "disputed"
                   /\ cum # Gross[o]
                   /\ order' = [order EXCEPT ![o].status = "partially_refunded"]
                   /\ UNCHANGED entitlement
             /\ UNCHANGED identities

\* Faulty: what refunds took back already is taken back once more.
DisputeInFull(d) ==
    LET o == OrderOf[d]
    IN  IF d \in identities
        THEN UNCHANGED books
        ELSE /\ identities' = identities \cup {d}
             /\ Reverse(o, Fee[o], Gross[o] - Fee[o])
             /\ order' = [order EXCEPT ![o].status = "disputed"]
             /\ RevokeEntitlement(o)
             /\ UNCHANGED <<refundRow, refunded>>

ApplyDispute(d) ==
    LET o == OrderOf[d]
    IN  IF d \in identities
        THEN UNCHANGED books
        ELSE /\ identities' = identities \cup {d}
             /\ Reverse(o, AtLeastZero(Fee[o] - ledger[o].fee),
                           AtLeastZero((Gross[o] - Fee[o]) - ledger[o].creator))
             /\ order' = [order EXCEPT ![o].status = "disputed"]
             /\ RevokeEntitlement(o)
             /\ UNCHANGED <<refundRow, refunded>>
-----------------------------------------------------------------------------
(* Requests.  Goto names the await a worker's request is suspended at.      *)

Goto(w, s, x) == request' = [request EXCEPT ![w] = [step |-> s, subject |-> x]]
Return(w) == request' = [request EXCEPT ![w] = Idle]
At(w, s, x) == request[w] = [step |-> s, subject |-> x]

\* createMarketplaceOrder reads the order by buyer and key and branches on
\* what it finds; an order in any other state is just returned to the buyer.
StartCheckout(w, o) ==
    /\ request[w] = Idle
    /\ \/ order[o].status = "absent" /\ Goto(w, "insert", o)
       \/ order[o].status = "processing" /\ Goto(w, "free", o)
       \/ order[o].status = "creating" /\ Goto(w, "create", o)
    /\ UNCHANGED <<books, mail, paypal, sent>>

\* The insert, after the listing was read and priced; a second one for the
\* same buyer and key is refused by the UNIQUE constraint and the request ends.
InsertOrder(w, o) ==
    /\ At(w, "insert", o)
    /\ \/ /\ order[o].status = "absent"
          /\ Gross[o] = 0
          /\ order' = [order EXCEPT ![o].status = "processing"]
          /\ Goto(w, "free", o)
       \/ /\ order[o].status = "absent"
          /\ Gross[o] > 0
          /\ order' = [order EXCEPT ![o].status = "creating"]
          /\ Goto(w, "create", o)
       \/ /\ order[o].status # "absent"
          /\ Return(w)
          /\ UNCHANGED order
    /\ UNCHANGED <<entitlement, identities, refundRow, refunded, ledger>>
    /\ UNCHANGED <<mail, paypal, sent>>

CompleteFree(w, o) ==
    /\ At(w, "free", o)
    /\ ~TitleTaken(o)
    /\ CompleteFreeOrder(o)
    /\ Return(w)
    /\ UNCHANGED <<mail, paypal, sent>>

\* provider.createOrder; its request id names the order, so PayPal answers a
\* repeated call with the order it has already made.
CreateAtProvider(w, o) ==
    /\ At(w, "create", o)
    /\ paypal' = [paypal EXCEPT ![o] = IF @ = "none" THEN "created" ELSE @]
    /\ Goto(w, "link", o)
    /\ UNCHANGED <<books, mail, sent>>

\* The provider's order id is stored, and the status set whatever it is now.
LinkOrder(w, o) ==
    /\ At(w, "link", o)
    /\ order' = [order EXCEPT ![o] =
                    [@ EXCEPT !.linked = TRUE, !.status = "approval_pending"]]
    /\ Return(w)
    /\ UNCHANGED <<entitlement, identities, refundRow, refunded, ledger>>
    /\ UNCHANGED <<mail, paypal, sent>>

\* captureMarketplaceOrder reads the order without a lock.
StartCapture(w, o) ==
    /\ request[w] = Idle
    /\ order[o].status = "approval_pending"
    /\ order[o].linked
    /\ Goto(w, "capture", o)
    /\ UNCHANGED <<books, mail, paypal, sent>>

\* Faulty: a pending capture is taken for money.
CapturePendingAccepted(w, o) ==
    /\ At(w, "capture", o)
    /\ paypal[o] \in {"approved", "pending", "captured"}
    /\ Goto(w, "finalize", o)
    /\ UNCHANGED <<books, mail, paypal, sent>>

\* provider.captureOrder: the money is taken now, was taken before, or PayPal
\* holds the capture as PENDING, which assertCapture does not accept.
CaptureAtProvider(w, o) ==
    /\ At(w, "capture", o)
    /\ \/ /\ paypal[o] \in {"approved", "captured"}
          /\ paypal' = [paypal EXCEPT ![o] = "captured"]
          /\ sent' = sent \cup {o}
          /\ Goto(w, "finalize", o)
       \/ /\ paypal[o] \in {"approved", "pending"}
          /\ paypal' = [paypal EXCEPT ![o] = "pending"]
          /\ Goto(w, "mismatch", o)
          /\ UNCHANGED sent
    /\ UNCHANGED <<books, mail>>

Finalize(w, o) ==
    /\ At(w, "finalize", o)
    /\ ~TitleTaken(o)
    /\ FinalizeCapture(o)
    /\ Return(w)
    /\ UNCHANGED <<mail, paypal, sent>>

\* finalizeCapture on a capture that does not match: it writes
\* reconciliation_required and throws in the same transaction, so the write
\* is rolled back; an order completed meanwhile is returned as it is.
FinalizeMismatch(w, o) ==
    /\ At(w, "mismatch", o)
    /\ Return(w)
    /\ UNCHANGED <<books, mail, paypal, sent>>

\* refundMarketplaceOrder checks status and total without a lock.  The two
\* reads are one step: the total only grows, so a total read later than the
\* status refuses no less.  A refund stored under the operator's own key is
\* returned at once.
StartRefund(w, r) ==
    /\ request[w] = Idle
    /\ refundRow[r] # "operator"
    /\ order[OrderOf[r]].status \in {"completed", "partially_refunded"}
    /\ order[OrderOf[r]].captureId
    /\ refunded[OrderOf[r]] + Amount[r] <= Gross[OrderOf[r]]
    /\ Goto(w, "refund", r)
    /\ UNCHANGED <<books, mail, paypal, sent>>

\* provider.refundCapture; PayPal is not assumed to check the total.
RefundAtProvider(w, r) ==
    /\ At(w, "refund", r)
    /\ sent' = sent \cup {r}
    /\ Goto(w, "applyRefund", r)
    /\ UNCHANGED <<books, mail, paypal>>

ApplyOperatorRefund(w, r) ==
    /\ At(w, "applyRefund", r)
    /\ ~RefundTooLarge(r)
    /\ ApplyRefund(r, "operator")
    /\ Return(w)
    /\ UNCHANGED <<mail, paypal, sent>>

\* A request ends early: PayPal or the database fails, a transaction is rolled
\* back (TitleTaken, RefundTooLarge), or the Worker dies.  Nothing is stored.
Abandon(w) ==
    /\ request[w] # Idle
    /\ Return(w)
    /\ UNCHANGED <<books, mail, paypal, sent>>
-----------------------------------------------------------------------------
(* PayPal: the buyer approves the order he has got the link of, a pending   *)
(* capture settles, the merchant refunds in PayPal's own console, the buyer *)
(* opens a dispute.  Each puts out an event.                                *)

BuyerApproves(o) ==
    /\ order[o].linked
    /\ paypal[o] = "created"
    /\ paypal' = [paypal EXCEPT ![o] = "approved"]
    /\ UNCHANGED <<books, mail, sent, request>>

CaptureSettles(o) ==
    /\ paypal[o] = "pending"
    /\ paypal' = [paypal EXCEPT ![o] = "captured"]
    /\ sent' = sent \cup {o}
    /\ UNCHANGED <<books, mail, request>>

ConsoleRefundOrDispute(e) ==
    /\ e \notin sent
    /\ paypal[OrderOf[e]] = "captured"
    /\ sent' = sent \cup {e}
    /\ UNCHANGED <<books, mail, paypal, request>>
-----------------------------------------------------------------------------
(* Webhooks: recordVerifiedWebhook around processPayPalEvent.               *)

\* Faulty: a failed event counts as a duplicate.
DeliverOnce(e) ==
    /\ e \in sent \ acked
    /\ handler[e] = "idle" \/ Overlap
    /\ \/ /\ inbox[e] = "absent"
          /\ inbox' = [inbox EXCEPT ![e] = "received"]
          /\ handler' = [handler EXCEPT ![e] = "apply"]
          /\ UNCHANGED acked
       \/ /\ inbox[e] # "absent"
          /\ acked' = acked \cup {e}
          /\ UNCHANGED <<inbox, handler>>
    /\ UNCHANGED <<books, flagged, throws, crashes, paypal, sent, request>>

\* insertProviderEvent takes a new or a failed event; for any other row the
\* delivery is answered at once as a duplicate, with 200.
Deliver(e) ==
    /\ e \in sent \ acked
    /\ handler[e] = "idle" \/ Overlap
    /\ \/ /\ inbox[e] \in {"absent", "failed"}
          /\ inbox' = [inbox EXCEPT ![e] = "received"]
          /\ handler' = [handler EXCEPT ![e] = "apply"]
          /\ UNCHANGED acked
       \/ /\ inbox[e] \in {"received", "processed"}
          /\ acked' = acked \cup {e}
          /\ UNCHANGED <<inbox, handler>>
    /\ UNCHANGED <<books, flagged, throws, crashes, paypal, sent, request>>

Applied(e) ==
    /\ handler[e] = "apply"
    /\ handler' = [handler EXCEPT ![e] = "mark"]
    /\ UNCHANGED <<inbox, acked, throws, crashes, paypal, sent, request>>

\* Faulty: an unknown order is skipped silently.
FlagForgotten(e) == UNCHANGED <<flagged, books>>

\* An event whose order Webcanbe does not know is flagged for a person.  A
\* capture always finds its order: the buyer approves no PayPal order that is
\* not linked.
Flag(e) == flagged' = flagged \cup {e} /\ UNCHANGED books

HandleCapture(o) ==
    /\ Applied(o)
    /\ ~TitleTaken(o)
    /\ FinalizeCapture(o)
    /\ UNCHANGED flagged

HandleRefund(r) ==
    /\ Applied(r)
    /\ \/ ~order[OrderOf[r]].captureId /\ Flag(r)
       \/ /\ order[OrderOf[r]].captureId
          /\ ~RefundTooLarge(r)
          /\ ApplyRefund(r, "webhook")
          /\ UNCHANGED flagged

HandleDispute(d) ==
    /\ Applied(d)
    /\ \/ ~order[OrderOf[d]].captureId /\ Flag(d)
       \/ order[OrderOf[d]].captureId /\ ApplyDispute(d) /\ UNCHANGED flagged

\* The handler throws: a refund past the price and a second order for one
\* purchase always, anything else by a transient failure of the database,
\* before or after the event was applied.
HandlerThrows(e) ==
    /\ \/ /\ handler[e] = "apply"
          /\ e \in Refunds
          /\ order[OrderOf[e]].captureId
          /\ RefundTooLarge(e)
          /\ UNCHANGED throws
       \/ /\ handler[e] = "apply"
          /\ e \in Orders
          /\ TitleTaken(e)
          /\ UNCHANGED throws
       \/ /\ handler[e] \in {"apply", "mark"}
          /\ throws < MaxThrows
          /\ throws' = throws + 1
    /\ handler' = [handler EXCEPT ![e] = "fail"]
    /\ UNCHANGED <<books, flagged, inbox, acked, crashes, paypal, sent, request>>

\* Faulty: the event is marked before it is applied.
MarkProcessedEarly(e) ==
    /\ handler[e] \in {"apply", "mark"}
    /\ inbox' = [inbox EXCEPT ![e] = "processed"]
    /\ handler' = [handler EXCEPT ![e] = "answer"]
    /\ UNCHANGED <<books, flagged, acked, throws, crashes, paypal, sent, request>>

MarkProcessed(e) ==
    /\ handler[e] = "mark"
    /\ inbox' = [inbox EXCEPT ![e] = "processed"]
    /\ handler' = [handler EXCEPT ![e] = "answer"]
    /\ UNCHANGED <<books, flagged, acked, throws, crashes, paypal, sent, request>>

\* The 200 reaches PayPal.
Answer(e) ==
    /\ handler[e] = "answer"
    /\ acked' = acked \cup {e}
    /\ handler' = [handler EXCEPT ![e] = "idle"]
    /\ UNCHANGED <<books, flagged, inbox, throws, crashes, paypal, sent, request>>

\* Faulty: an event whose handler threw is marked processed.
MarkFailedAsProcessed(e) ==
    /\ handler[e] = "fail"
    /\ inbox' = [inbox EXCEPT ![e] = "processed"]
    /\ handler' = [handler EXCEPT ![e] = "idle"]
    /\ UNCHANGED <<books, flagged, acked, throws, crashes, paypal, sent, request>>

\* markProviderEventFailed, then a 503 that makes PayPal deliver again.
MarkFailed(e) ==
    /\ handler[e] = "fail"
    /\ inbox' = [inbox EXCEPT ![e] = "failed"]
    /\ handler' = [handler EXCEPT ![e] = "idle"]
    /\ UNCHANGED <<books, flagged, acked, throws, crashes, paypal, sent, request>>

\* The Worker dies, or markProviderEventFailed itself fails, or the answer is
\* lost: the row stays as it is and PayPal has no 200.
HandlerDies(e) ==
    /\ handler[e] # "idle"
    /\ crashes < MaxCrashes
    /\ crashes' = crashes + 1
    /\ handler' = [handler EXCEPT ![e] = "idle"]
    /\ UNCHANGED <<books, flagged, inbox, acked, throws, paypal, sent, request>>
-----------------------------------------------------------------------------
Checkout(w, o) ==
    \/ StartCheckout(w, o) \/ InsertOrder(w, o) \/ CompleteFree(w, o)
    \/ CreateAtProvider(w, o) \/ LinkOrder(w, o)

Capture(w, o) ==
    \/ StartCapture(w, o) \/ CaptureAtProvider(w, o)
    \/ Finalize(w, o) \/ FinalizeMismatch(w, o)

Refund(w, r) ==
    \/ StartRefund(w, r) \/ RefundAtProvider(w, r) \/ ApplyOperatorRefund(w, r)

Webhook(e) ==
    \/ Deliver(e)
    \/ e \in Orders /\ HandleCapture(e)
    \/ e \in Refunds /\ HandleRefund(e)
    \/ e \in Disputes /\ HandleDispute(e)
    \/ HandlerThrows(e) \/ MarkProcessed(e) \/ Answer(e)
    \/ MarkFailed(e) \/ HandlerDies(e)

Next ==
    \/ \E w \in Workers :
         \/ \E o \in Orders : Checkout(w, o) \/ Capture(w, o)
         \/ \E r \in Refunds : Refund(w, r)
         \/ Abandon(w)
    \/ \E o \in Orders : BuyerApproves(o) \/ CaptureSettles(o)
    \/ \E e \in Refunds \cup Disputes : ConsoleRefundOrDispute(e)
    \/ \E e \in Events : Webhook(e)

Spec == Init /\ [][Next]_vars

\* PayPal delivers until it is answered with 200, and a webhook request that
\* runs ends; nothing obliges a buyer or an operator to send requests.  That a
\* delivery leads to its record also takes ~Overlap and MaxCrashes = 0.
WebhookProgress(e) ==
    \/ Deliver(e)
    \/ e \in Orders /\ HandleCapture(e)
    \/ e \in Refunds /\ HandleRefund(e)
    \/ e \in Disputes /\ HandleDispute(e)
    \/ MarkProcessed(e) \/ Answer(e) \/ MarkFailed(e)
    \/ HandlerThrows(e) /\ UNCHANGED throws

FairSpec == Spec /\ \A e \in Events : WF_vars(WebhookProgress(e))
-----------------------------------------------------------------------------
(* Properties.                                                              *)

FreeOrders == {o \in Orders : Gross[o] = 0}
FullyRefunded(o) == Gross[o] > 0 /\ refunded[o] = Gross[o]
Disputed(o) == \E d \in Disputes : OrderOf[d] = o /\ d \in identities
Grounds == {o \in Orders : FullyRefunded(o) \/ Disputed(o)}

\* What the marketplace promises about access (PurchaseAccess): at most one
\* grant, never before the money, never again after a full refund or dispute.
Purchase == INSTANCE PurchaseAccess WITH
    paid <- {o \in Orders : paypal[o] = "captured"},
    grounds <- Grounds,
    access <- entitlement

ImplementsPurchaseAccess == Purchase!Spec

\* An order the buyer sees as completed, or partly refunded before any dispute,
\* is one whose buyer has access and, if it was paid, whose creator has a sale
\* in the ledger: the transactions of finalizeCapture, completeFreeOrder,
\* applyRefund and applyDispute keep the tables together.
CompletedMeansDelivered ==
    \A o \in Orders :
        \/ order[o].status = "completed"
        \/ order[o].status = "partially_refunded" /\ ~Disputed(o)
        => /\ entitlement[o] = "active"
           /\ Gross[o] > 0 => ledger[o].sold /\ o \in identities

\* The books balance: before a dispute exactly the refunded money has been
\* taken back from the platform and the creator, after one all of it and no
\* more, in whatever order and however often refunds and disputes are applied.
ReversalsBalance ==
    \A o \in Orders :
        /\ refunded[o] <= Gross[o]
        /\ ledger[o].fee <= Fee[o]
        /\ ledger[o].creator <= Gross[o] - Fee[o]
        /\ ledger[o].fee + ledger[o].creator =
             IF Disputed(o) THEN Gross[o] ELSE refunded[o]

\* Nobody keeps access to a release whose price was given back or is disputed,
\* once Webcanbe has recorded it.
RecordedReversalEndsAccess ==
    \A o \in Grounds : entitlement[o] = "revoked"

\* The mark an event leaves: a capture, refund or dispute that is in the books,
\* or an item a person has to look at.
Recorded(e) ==
    \/ e \in flagged
    \/ e \in identities
    \/ e \in Refunds /\ refundRow[e] # "absent"

\* An event Webcanbe has marked processed has left its mark, whatever throws or
\* dies between applying and marking it, and however often it is delivered.
ProcessedMeansRecorded ==
    \A e \in Events : inbox[e] = "processed" => Recorded(e)

\* While no handler has died and PayPal delivers an event again only after the
\* first delivery was answered, what PayPal has got a 200 for and never sends
\* again has left its mark: the answer "duplicate" of recordVerifiedWebhook,
\* which looks at nothing but the inbox row, loses no event whose handler threw.
AnsweredIsRecorded ==
    ~Overlap /\ crashes = 0 => \A e \in acked : Recorded(e)

\* The status of a settled order only moves forward: no capture, refund or
\* dispute, by a request or by a webhook, takes an order back to waiting for
\* approval or out of a dispute.  One step does: a checkout that was resumed
\* while the order was still being created and stores its link only now.
SettlementForward(before, after) ==
    /\ before = "completed" => after \notin {"creating", "approval_pending"}
    /\ before = "partially_refunded" =>
         after \in {"partially_refunded", "refunded", "disputed"}
    /\ before = "refunded" => after \in {"refunded", "disputed"}
    /\ before = "disputed" => after = "disputed"

ResumedLate(o) ==
    /\ \E w \in Workers : At(w, "link", o) /\ Return(w)
    /\ order'[o].status = "approval_pending"

SettlementMovesForward ==
    [][\A o \in Orders :
         SettlementForward(order[o].status, order'[o].status) \/ ResumedLate(o)]_vars

\* Money PayPal has taken for an order ends in access for the buyer, even when
\* the buyer's own capture request died: the webhook completes the order.  Like
\* the next one it assumes that no handler dies (MaxCrashes = 0) and that
\* deliveries of one event do not overlap (~Overlap): both end in a row that
\* stays received or failed while PayPal has its 200.
CaptureLeadsToAccess ==
    \A o \in Orders : paypal[o] = "captured" ~> entitlement[o] # "none"

\* A dispute PayPal tells of ends in the books or on a person's desk.
DisputeLeadsToRecord ==
    \A d \in Disputes : d \in sent ~> d \in identities \cup flagged
=============================================================================
