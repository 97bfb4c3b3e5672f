-------------------------- MODULE SubscriptionsProofs --------------------------
(* Proofs about Subscriptions, for any keys, requests and number of events.   *)
EXTENDS Subscriptions, FiniteSetTheorems, SequenceTheorems, TLAPS

Billed(k) == agreement[k] \in {"active", "suspended"}
IsCurrent(k) == row[k].status \in Current
-----------------------------------------------------------------------------
(* What keeps plans apart: the table has one current row, and a subscription  *)
(* that PayPal may still bill has a row that is current.                      *)

Statuses == Current \cup {"none", "expired", "reconciliation_required"}
Row == [status : Statuses, linked : BOOLEAN, url : BOOLEAN, paid : BOOLEAN, last : Nat]
Steps == {"idle", "insert", "create", "link", "verify", "mark", "doubt", "cancel", "cancelled"}
Ending == {"cancelled", "expired", "gone"}
Living == {"approval_pending", "active", "suspended"}
Kinds == {"activated", "renewed", "failed", "suspended", "cancelled", "expired"}

Typed ==
    /\ row \in [Keys -> Row]
    /\ agreement \in [Keys -> {"none"} \cup Living \cup Ending]
    /\ request \in [Requests -> [step : Steps, key : Keys \cup {NoKey}]]
    /\ events \in Seq([key : Keys, kind : Kinds])

OneCurrent == \A k, l \in Keys : IsCurrent(k) /\ IsCurrent(l) => k = l

\* A row that is current no more is that of a subscription that is over.
EndedStaysEnded ==
    \A k \in Keys : ~IsCurrent(k) =>
        IF Exists(k) THEN agreement[k] \in Ending ELSE agreement[k] = "none"

\* A request asks PayPal for the subscription of a row, and doubts one that is gone.
RequestsKnow ==
    \A r \in Requests, k \in Keys :
        /\ At(r, "create", k) => Exists(k)
        /\ At(r, "doubt", k) => agreement[k] = "gone"

\* PayPal tells of an end only when it has come.
EventsKnow ==
    \A i \in DOMAIN events : events[i].kind = "expired" => agreement[events[i].key] = "expired"

Inv == Typed /\ OneCurrent /\ EndedStaysEnded /\ RequestsKnow /\ EventsKnow

USE DEF Statuses, Current
-----------------------------------------------------------------------------
(* The ways in which a step changes a row, an agreement, a request and what   *)
(* PayPal has told.                                                           *)

\* Becoming current is what the table's index guards.
RowChanges(k) ==
    /\ \A l \in Keys \ {k} : row'[l] = row[l]
    /\ row'[k].status # "none" \/ row'[k].status = row[k].status
    /\ \/ row'[k].status = row[k].status
       \/ row'[k].status \in Current /\ (IsCurrent(k) \/ NoOtherCurrent(k))
       \/ row'[k].status \notin Current /\ agreement[k] \in {"expired", "gone"}

AgreementChanges(k) ==
    /\ \A l \in Keys \ {k} : agreement'[l] = agreement[l]
    /\ \/ agreement[k] = "none" /\ IsCurrent(k) /\ agreement'[k] = "approval_pending"
       \/ agreement[k] \in Living /\ agreement'[k] # "none"

RowStep == UNCHANGED row \/ \E k \in Keys : RowChanges(k)
AgreementStep == UNCHANGED agreement \/ \E k \in Keys : AgreementChanges(k)

RequestStep ==
    \A r \in Requests, k \in Keys :
        /\ At(r, "create", k)' => At(r, "create", k) \/ row'[k].status # "none"
        /\ At(r, "doubt", k)' => At(r, "doubt", k) \/ agreement[k] = "gone"

EventStep ==
    \/ UNCHANGED events
    \/ \E k \in Keys, kind \in Kinds :
          events' = Append(events, [key |-> k, kind |-> kind]) /\ (kind = "expired" => agreement'[k] = "expired")

\* A row that a request or an event writes to keeps its shape.
LEMMA RowUpdate ==
    ASSUME row \in [Keys -> Row], NEW k \in Keys, NEW q \in Row, row' = [row EXCEPT ![k] = q]
    PROVE  /\ row' \in [Keys -> Row] /\ row'[k] = q
           /\ \A l \in Keys \ {k} : row'[l] = row[l]
  OBVIOUS

\* An event names a row and what happened.
LEMMA EventTyped ==
    ASSUME Typed, NEW i \in DOMAIN events
    PROVE  events[i].key \in Keys /\ events[i].kind \in Kinds /\ i \in Nat
  <1>1. i \in 1..Len(events) /\ Len(events) \in Nat  BY LenProperties DEF Typed
  <1>2. events[i] \in [key : Keys, kind : Kinds]  BY <1>1, ElementOfSeq DEF Typed
  <1> QED  BY <1>1, <1>2

\* The statuses that events give a row.
LEMMA EventStatuses ==
    ASSUME NEW kind \in Kinds
    PROVE  /\ StatusAfter(kind) \in Statuses \ {"none"}
           /\ StatusAfter(kind) \notin Current => kind = "expired"
  BY DEF Kinds, StatusAfter, Reviving

\* An event is applied when it may make its row current.
LEMMA ApplyStep ==
    ASSUME Inv, NEW i \in DOMAIN events, NEW paid \in BOOLEAN, Apply(i, paid)
    PROVE  row' \in [Keys -> Row] /\ RowStep
  <1> DEFINE k == events[i].key
             st == StatusAfter(events[i].kind)
             q == [row[k] EXCEPT !.status = st, !.paid = paid, !.last = i]
  <1>1. /\ k \in Keys /\ events[i].kind \in Kinds /\ i \in Nat
        /\ row \in [Keys -> Row] /\ row[k] \in Row
    BY EventTyped DEF Inv, Typed
  <1>2. st \in Statuses \ {"none"} /\ (st \notin Current => events[i].kind = "expired")
    BY <1>1, EventStatuses
  <1>3. st \in Current => NoOtherCurrent(k)  BY DEF Apply
  <1>4. row' = [row EXCEPT ![k] = q]  BY <1>1 DEF Apply
  <1> HIDE DEF st
  <1>5. q \in Row /\ q.status = st  BY <1>1, <1>2 DEF Row
  <1> HIDE DEF q
  <1>6. row' \in [Keys -> Row] /\ row'[k] = q /\ \A l \in Keys \ {k} : row'[l] = row[l]
    BY <1>1, <1>4, <1>5, RowUpdate
  <1>7. st \notin Current => agreement[k] = "expired"  BY <1>2 DEF Inv, EventsKnow
  <1>8. RowChanges(k)  BY <1>2, <1>3, <1>5, <1>6, <1>7 DEF RowChanges
  <1> QED  BY <1>1, <1>6, <1>8 DEF RowStep

\* Every step of a checkout.
LEMMA CheckoutSteps ==
    ASSUME Inv, NEW r \in Requests, NEW k \in Keys, Checkout(r, k)
    PROVE  Typed' /\ RowStep /\ AgreementStep /\ RequestStep /\ EventStep
  <1>0. Typed /\ row[k] \in Row /\ row \in [Keys -> Row]  BY DEF Inv, Typed
  <1>1. ASSUME NEW found \in Keys, ResumeCheckout(r, k, found)
        PROVE  Typed' /\ RowStep /\ AgreementStep /\ RequestStep /\ EventStep
    BY <1>0, <1>1 DEF ResumeCheckout, books, paypal, Typed, Steps, RowStep, AgreementStep, RequestStep, EventStep, At
  <1>2. CASE StartCheckout(r, k)
    BY <1>0, <1>2 DEF StartCheckout, books, paypal, Typed, Steps, RowStep, AgreementStep, RequestStep, EventStep, At
  <1>3. CASE InsertRow(r, k)
    <2> DEFINE q == [NoRow EXCEPT !.status = "creating"]
    <2>1. NoRow \in Row  BY DEF NoRow, Row
    <2>2. q \in Row /\ q.status = "creating"  BY <2>1 DEF Row
    <2>3. row' = [row EXCEPT ![k] = q]  BY <1>3 DEF InsertRow
    <2> HIDE DEF q
    <2>4. row' \in [Keys -> Row] /\ row'[k] = q /\ \A l \in Keys \ {k} : row'[l] = row[l]
      BY <1>0, <2>2, <2>3, RowUpdate
    <2>5. RowStep  BY <1>3, <2>2, <2>4 DEF InsertRow, RowStep, RowChanges
    <2>6. Typed'
      BY <1>0, <1>3, <2>4 DEF InsertRow, Goes, paypal, Typed, Steps
    <2>7. AgreementStep /\ EventStep  BY <1>3 DEF InsertRow, paypal, AgreementStep, EventStep
    <2>8. RequestStep
      BY <1>0, <1>3, <2>2, <2>4 DEF InsertRow, Goes, At, RequestStep, Typed
    <2> QED  BY <2>5, <2>6, <2>7, <2>8
  <1>4. CASE CreateAtProvider(r, k)
    <2>1. agreement[k] = "none" => IsCurrent(k)
      BY <1>0, <1>4 DEF CreateAtProvider, Inv, RequestsKnow, EndedStaysEnded, Ending
    <2>2. AgreementStep
      BY <1>0, <1>4, <2>1 DEF CreateAtProvider, AgreementStep, AgreementChanges, Typed
    <2>3. Typed'
      BY <1>0, <1>4 DEF CreateAtProvider, Goes, books, Typed, Steps, Living
    <2>4. RowStep /\ EventStep  BY <1>4 DEF CreateAtProvider, books, RowStep, EventStep
    <2>5. RequestStep  BY <1>0, <1>4 DEF CreateAtProvider, Goes, At, RequestStep, Typed
    <2> QED  BY <2>2, <2>3, <2>4, <2>5
  <1>5. CASE LinkRow(r, k)
    <2> DEFINE q == [row[k] EXCEPT !.linked = TRUE, !.url = TRUE]
    <2>1. row' = [row EXCEPT ![k] = q]  BY <1>0, <1>5 DEF LinkRow, Typed
    <2>2. q \in Row /\ q.status = row[k].status  BY <1>0 DEF Row
    <2> HIDE DEF q
    <2>3. row' \in [Keys -> Row] /\ row'[k] = q /\ \A l \in Keys \ {k} : row'[l] = row[l]
      BY <1>0, <2>1, <2>2, RowUpdate
    <2>4. RowStep  BY <2>2, <2>3 DEF RowStep, RowChanges
    <2>5. Typed'  BY <1>0, <1>5, <2>3 DEF LinkRow, Goes, paypal, Typed, Steps
    <2>6. AgreementStep /\ EventStep  BY <1>5 DEF LinkRow, paypal, AgreementStep, EventStep
    <2>7. RequestStep  BY <1>0, <1>5 DEF LinkRow, Goes, At, RequestStep, Typed
    <2> QED  BY <2>4, <2>5, <2>6, <2>7
  <1>6. CASE VerifyPending(r, k)
    BY <1>0, <1>6 DEF VerifyPending, Goes, books, paypal, Typed, Steps, RowStep, AgreementStep, RequestStep, EventStep, At
  <1>7. CASE VerifyFails(r, k)
    BY <1>0, <1>7 DEF VerifyFails, Goes, books, paypal, Typed, Steps, RowStep, AgreementStep, RequestStep, EventStep, At
  <1>8. CASE MarkForReconciliation(r, k)
    <2> DEFINE q == row'[k]
    <2>1. agreement[k] = "gone"  BY <1>8 DEF MarkForReconciliation, Inv, RequestsKnow
    <2>2. /\ row' \in [Keys -> Row]
          /\ \A l \in Keys \ {k} : row'[l] = row[l]
          /\ row'[k].status = row[k].status \/ row'[k].status = "reconciliation_required"
      BY <1>0, <1>8 DEF MarkForReconciliation, Row
    <2>3. RowStep  BY <2>1, <2>2 DEF RowStep, RowChanges
    <2>4. Typed'  BY <1>0, <1>8, <2>2 DEF MarkForReconciliation, Ends, Idle, paypal, Typed, Steps
    <2>5. AgreementStep /\ EventStep
      BY <1>8 DEF MarkForReconciliation, paypal, AgreementStep, EventStep
    <2>6. RequestStep  BY <1>0, <1>8 DEF MarkForReconciliation, Ends, Idle, At, RequestStep, Typed
    <2> QED  BY <2>3, <2>4, <2>5, <2>6
  <1>9. CASE MarkApprovalPending(r, k)
    <2>1. /\ row' \in [Keys -> Row]
          /\ \A l \in Keys \ {k} : row'[l] = row[l]
          /\ \/ row'[k].status = row[k].status
             \/ row[k].status = "creating" /\ row'[k].status = "approval_pending"
      BY <1>0, <1>9 DEF MarkApprovalPending, MarkPending, Row
    <2>2. RowStep  BY <2>1 DEF RowStep, RowChanges, IsCurrent
    <2>3. Typed'  BY <1>0, <1>9, <2>1 DEF MarkApprovalPending, Ends, Idle, paypal, Typed, Steps
    <2>4. AgreementStep /\ EventStep
      BY <1>9 DEF MarkApprovalPending, paypal, AgreementStep, EventStep
    <2>5. RequestStep  BY <1>0, <1>9 DEF MarkApprovalPending, Ends, Idle, At, RequestStep, Typed
    <2> QED  BY <2>2, <2>3, <2>4, <2>5
  <1> QED  BY <1>1, <1>2, <1>3, <1>4, <1>5, <1>6, <1>7, <1>8, <1>9 DEF Checkout

\* What PayPal tells is one event more.
LEMMA TellsStep ==
    ASSUME Typed, NEW k \in Keys, NEW kind \in Kinds, Tells(k, kind)
    PROVE  events' \in Seq([key : Keys, kind : Kinds])
  BY DEF Typed, Tells

\* Every step of a cancellation.
LEMMA CancelSteps ==
    ASSUME Inv, NEW r \in Requests, NEW k \in Keys, Cancel(r, k)
    PROVE  Typed' /\ RowStep /\ AgreementStep /\ RequestStep /\ EventStep
  <1>0. Typed /\ row[k] \in Row /\ row \in [Keys -> Row]  BY DEF Inv, Typed
  <1>1. CASE StartCancel(r, k)
    BY <1>0, <1>1 DEF StartCancel, books, paypal, Typed, Steps, RowStep, AgreementStep, RequestStep, EventStep, At
  <1>2. CASE CancelAtProvider(r, k)
    <2>1. events' \in Seq([key : Keys, kind : Kinds])
      BY <1>0, <1>2, TellsStep DEF CancelAtProvider, Kinds
    <2>2. Typed'
      BY <1>0, <1>2, <2>1 DEF CancelAtProvider, Goes, books, Typed, Steps, Ending
    <2>3. AgreementStep
      BY <1>0, <1>2 DEF CancelAtProvider, AgreementStep, AgreementChanges, Typed, Living
    <2>4. EventStep  BY <1>2 DEF CancelAtProvider, Tells, EventStep, Kinds
    <2>5. RowStep  BY <1>2 DEF CancelAtProvider, books, RowStep
    <2>6. RequestStep  BY <1>0, <1>2 DEF CancelAtProvider, Goes, At, RequestStep, Typed
    <2> QED  BY <2>2, <2>3, <2>4, <2>5, <2>6
  <1>3. CASE StoreCancelled(r, k)
    <2>1. /\ row' \in [Keys -> Row] /\ row'[k].status = "cancelled"
          /\ \A l \in Keys \ {k} : row'[l] = row[l]
      BY <1>0, <1>3 DEF StoreCancelled, Row
    <2>2. RowStep  BY <1>3, <2>1 DEF StoreCancelled, RowStep, RowChanges
    <2>3. Typed'  BY <1>0, <1>3, <2>1 DEF StoreCancelled, Ends, Idle, paypal, Typed, Steps
    <2>4. AgreementStep /\ EventStep
      BY <1>3 DEF StoreCancelled, paypal, AgreementStep, EventStep
    <2>5. RequestStep  BY <1>0, <1>3 DEF StoreCancelled, Ends, Idle, At, RequestStep, Typed
    <2> QED  BY <2>2, <2>3, <2>4, <2>5
  <1> QED  BY <1>1, <1>2, <1>3 DEF Cancel

\* What PayPal, the clock and the webhooks do.
LEMMA OtherSteps ==
    ASSUME Inv,
           \/ \E r \in Requests : Abandon(r)
           \/ \E k \in Keys : Happens(k) \/ Vanish(k) \/ PaidTimeEnds(k)
           \/ \E i \in 1..MaxEvents : Deliver(i)
           \/ UNCHANGED vars
    PROVE  Typed' /\ RowStep /\ AgreementStep /\ RequestStep /\ EventStep
  <1>0. Typed /\ row \in [Keys -> Row]  BY DEF Inv, Typed
  <1>1. ASSUME NEW r \in Requests, Abandon(r)
        PROVE  Typed' /\ RowStep /\ AgreementStep /\ RequestStep /\ EventStep
    BY <1>0, <1>1 DEF Abandon, Ends, Idle, books, paypal, Typed, Steps, RowStep, AgreementStep, RequestStep, EventStep, At
  <1>2. ASSUME NEW k \in Keys, Happens(k)
        PROVE  Typed' /\ RowStep /\ AgreementStep /\ RequestStep /\ EventStep
    <2>1. PICK h \in Happenings : /\ agreement[k] = h[1]
                                  /\ agreement' = [agreement EXCEPT ![k] = h[3]]
                                  /\ Tells(k, h[2])
      BY <1>2 DEF Happens
    <2>2. /\ h[1] \in Living /\ h[3] \in Living \cup Ending /\ h[2] \in Kinds
          /\ h[2] = "expired" => h[3] = "expired"
      BY <2>1 DEF Happenings, Living, Ending, Kinds
    <2>3. events' \in Seq([key : Keys, kind : Kinds])  BY <1>0, <2>1, <2>2, TellsStep
    <2>4. /\ agreement' \in [Keys -> {"none"} \cup Living \cup Ending] /\ agreement'[k] = h[3]
          /\ \A l \in Keys \ {k} : agreement'[l] = agreement[l]
      BY <1>0, <2>1, <2>2 DEF Typed
    <2>5. AgreementStep
      BY <2>1, <2>2, <2>4 DEF AgreementStep, AgreementChanges, Living, Ending
    <2>6. EventStep  BY <2>1, <2>2, <2>4 DEF EventStep, Tells
    <2>7. Typed'  BY <1>0, <1>2, <2>3, <2>4 DEF Happens, books, Typed
    <2>8. RowStep /\ RequestStep  BY <1>2 DEF Happens, books, RowStep, RequestStep, At
    <2> QED  BY <2>5, <2>6, <2>7, <2>8
  <1>3. ASSUME NEW k \in Keys, Vanish(k)
        PROVE  Typed' /\ RowStep /\ AgreementStep /\ RequestStep /\ EventStep
    <2>1. Typed'  BY <1>0, <1>3 DEF Vanish, books, Typed, Ending
    <2>2. AgreementStep
      BY <1>0, <1>3 DEF Vanish, AgreementStep, AgreementChanges, Typed, Living
    <2>3. RowStep /\ RequestStep /\ EventStep
      BY <1>3 DEF Vanish, books, RowStep, RequestStep, EventStep, At
    <2> QED  BY <2>1, <2>2, <2>3
  <1>4. ASSUME NEW k \in Keys, PaidTimeEnds(k)
        PROVE  Typed' /\ RowStep /\ AgreementStep /\ RequestStep /\ EventStep
    <2>1. /\ row' \in [Keys -> Row] /\ row'[k].status = row[k].status
          /\ \A l \in Keys \ {k} : row'[l] = row[l]
      BY <1>0, <1>4 DEF PaidTimeEnds, Row
    <2>2. RowStep  BY <2>1 DEF RowStep, RowChanges
    <2>3. Typed'  BY <1>0, <1>4, <2>1 DEF PaidTimeEnds, paypal, Typed
    <2>4. AgreementStep /\ EventStep /\ RequestStep
      BY <1>4 DEF PaidTimeEnds, paypal, AgreementStep, EventStep, RequestStep, At
    <2> QED  BY <2>2, <2>3, <2>4
  <1>5. ASSUME NEW i \in 1..MaxEvents, Deliver(i)
        PROVE  Typed' /\ RowStep /\ AgreementStep /\ RequestStep /\ EventStep
    <2>1. row' \in [Keys -> Row] /\ RowStep
      <3>1. CASE Ignore(i) \/ FlagAfterEnd(i)
        BY <1>0, <3>1 DEF Ignore, FlagAfterEnd, books, RowStep
      <3>2. ASSUME NEW paid \in BOOLEAN, Apply(i, paid)  PROVE row' \in [Keys -> Row] /\ RowStep
        BY <1>5, <3>2, ApplyStep DEF Deliver
      <3> QED  BY <1>5, <3>1, <3>2 DEF Deliver
    <2>2. Typed'  BY <1>0, <1>5, <2>1 DEF Deliver, paypal, Typed
    <2>3. AgreementStep /\ EventStep /\ RequestStep
      BY <1>5 DEF Deliver, paypal, AgreementStep, EventStep, RequestStep, At
    <2> QED  BY <2>1, <2>2, <2>3
  <1>6. CASE UNCHANGED vars
    BY <1>0, <1>6 DEF vars, books, paypal, Typed, RowStep, AgreementStep, RequestStep, EventStep, At
  <1> QED  BY <1>1, <1>2, <1>3, <1>4, <1>5, <1>6

LEMMA Step ==
    ASSUME Inv, [Next]_vars
    PROVE  Typed' /\ RowStep /\ AgreementStep /\ RequestStep /\ EventStep
  <1>1. CASE \E r \in Requests, k \in Keys : Checkout(r, k)  BY <1>1, CheckoutSteps
  <1>2. CASE \E r \in Requests, k \in Keys : Cancel(r, k)  BY <1>2, CancelSteps
  <1> QED  BY <1>1, <1>2, OtherSteps DEF Next
-----------------------------------------------------------------------------
(* The invariant.                                                            *)

LEMMA InitInv == Init => Inv
  BY DEF Init, Inv, Typed, Row, NoRow, Idle, Steps, OneCurrent, IsCurrent, EndedStaysEnded, Exists,
         RequestsKnow, At, EventsKnow

LEMMA InvStep == Inv /\ [Next]_vars => Inv'
  <1> SUFFICES ASSUME Inv, [Next]_vars PROVE Inv'  OBVIOUS
  <1>1. Typed' /\ RowStep /\ AgreementStep /\ RequestStep /\ EventStep  BY Step
  <1>2. Typed  BY DEF Inv
  <1>3. OneCurrent'
    <2>1. CASE UNCHANGED row  BY <2>1 DEF Inv, OneCurrent, IsCurrent
    <2>2. ASSUME NEW k \in Keys, RowChanges(k)  PROVE OneCurrent'
      BY <2>2 DEF RowChanges, Inv, OneCurrent, IsCurrent, NoOtherCurrent
    <2> QED  BY <1>1, <2>1, <2>2 DEF RowStep
  <1>4. ASSUME NEW k \in Keys
        PROVE  /\ agreement[k] \in {"expired", "gone"} => agreement'[k] = agreement[k]
               /\ Exists(k) => Exists(k)'
    BY <1>1 DEF AgreementStep, AgreementChanges, Living, RowStep, RowChanges, Exists
  <1>5. EndedStaysEnded'
    <2> SUFFICES ASSUME NEW k \in Keys, ~IsCurrent(k)'
                 PROVE  IF Exists(k)' THEN agreement'[k] \in Ending ELSE agreement'[k] = "none"
      BY DEF EndedStaysEnded
    <2>1. CASE row'[k].status = row[k].status
      <3>1. ~IsCurrent(k) /\ Exists(k)' = Exists(k)  BY <2>1 DEF IsCurrent, Exists
      <3>2. agreement'[k] = agreement[k]
        BY <1>1, <3>1 DEF AgreementStep, AgreementChanges, Living, Ending, Inv, EndedStaysEnded
      <3> QED  BY <3>1, <3>2 DEF Inv, EndedStaysEnded
    <2>2. CASE agreement[k] \in {"expired", "gone"}
      <3>1. Exists(k)  BY <2>2 DEF Inv, EndedStaysEnded, Exists, IsCurrent
      <3> QED  BY <1>4, <2>2, <3>1 DEF Ending
    <2> QED  BY <1>1, <2>1, <2>2 DEF RowStep, RowChanges, IsCurrent
  <1>6. RequestsKnow'
    BY <1>1, <1>4 DEF RequestStep, Inv, RequestsKnow, Exists
  <1>7. EventsKnow'
    <2>1. ASSUME NEW k \in Keys, agreement[k] = "expired"  PROVE agreement'[k] = "expired"
      BY <1>4, <2>1
    <2>2. CASE UNCHANGED events  BY <1>2, <2>1, <2>2, EventTyped DEF Inv, EventsKnow
    <2>3. ASSUME NEW k \in Keys, NEW kind \in Kinds,
                 events' = Append(events, [key |-> k, kind |-> kind]),
                 kind = "expired" => agreement'[k] = "expired"
          PROVE  EventsKnow'
      <3> SUFFICES ASSUME NEW i \in DOMAIN events', events'[i].kind = "expired"
                   PROVE  agreement'[events'[i].key] = "expired"
        BY DEF EventsKnow
      <3>1. CASE i \in DOMAIN events
        BY <1>2, <2>1, <2>3, <3>1, EventTyped DEF Inv, EventsKnow, Typed
      <3>2. CASE i = Len(events) + 1  BY <1>2, <2>3, <3>2 DEF Typed
      <3> QED  BY <1>2, <2>3, <3>1, <3>2 DEF Typed
    <2> QED  BY <1>1, <2>2, <2>3 DEF EventStep
  <1> QED  BY <1>1, <1>3, <1>5, <1>6, <1>7 DEF Inv

LEMMA InvHolds == Spec => []Inv
  BY InitInv, InvStep, PTL DEF Spec

\* A set whose elements are all the same has at most one.
LEMMA AtMostOne ==
    ASSUME NEW S, \A x, y \in S : x = y
    PROVE  Cardinality(S) <= 1
  <1>1. CASE S = {}  BY <1>1, FS_EmptySet
  <1>2. CASE S # {}
    <2>1. PICK x \in S : TRUE  BY <1>2
    <2>2. S = {x}  BY <2>1
    <2> QED  BY <2>2, FS_Singleton
  <1> QED  BY <1>1, <1>2

\* However checkouts, cancellations and events of a user overlap, PayPal bills
\* the user for one plan at a time, for any number of requests and keys.
THEOREM OnePlanIsBilled == Spec => []BilledOnce
  <1>1. Inv => BilledOnce
    <2> SUFFICES ASSUME Inv PROVE BilledOnce  OBVIOUS
    <2> DEFINE S == {k \in Keys : agreement[k] \in {"active", "suspended"}}
    <2>1. \A k \in S : IsCurrent(k)  BY DEF Inv, EndedStaysEnded, Ending
    <2>2. \A k, l \in S : k = l  BY <2>1 DEF Inv, OneCurrent
    <2> HIDE DEF S
    <2>3. Cardinality(S) <= 1  BY <2>2, AtMostOne
    <2> QED  BY <2>3 DEF S, BilledOnce
  <1> QED  BY InvHolds, <1>1, PTL
-----------------------------------------------------------------------------
(* What was told of a plan and what its row makes of it.                      *)

IsLast(i, k) == i \in Told(k) /\ \A j \in Told(k) : j <= i

\* The last thing that PayPal told of a subscription that is over is its end,
\* and nothing else tells of an end.
EndsAreTold ==
    /\ \A k \in Keys : agreement[k] \in Over =>
          /\ Told(k) # {}
          /\ \A i \in Told(k) : IsLast(i, k) => events[i].kind = agreement[k]
    /\ \A i \in DOMAIN events : events[i].kind \in Over => agreement[events[i].key] = events[i].kind

\* A row and a request say that a plan is over only when PayPal does.
EndsAreTrue ==
    /\ \A k \in Keys : row[k].status \in Over => agreement[k] \in Over
    /\ \A r \in Requests, k \in Keys : At(r, "cancelled", k) => agreement[k] = "cancelled"

\* A row remembers an event of its own, and follows the last once it came.
RowFollows(k) ==
    /\ row[k].last # 0 => row[k].last \in Told(k)
    /\ Told(k) # {} => \E i \in Told(k) : IsLast(i, k)
    /\ \A i \in Told(k) : IsLast(i, k) /\ i \in handled =>
          row[k].last = i /\ row[k].status = StatusAfter(events[i].kind)

Settling ==
    /\ handled \subseteq DOMAIN events
    /\ EndsAreTold /\ EndsAreTrue
    /\ \A k \in Keys : RowFollows(k)

\* A step without news and answers: rows are made, go on before their plan does,
\* or say that it is cancelled when PayPal does.
RowKept(k) ==
    /\ row'[k].last = row[k].last \/ (row[k].status = "none" /\ row'[k].last = 0)
    /\ \/ row'[k].status = row[k].status
       \/ row[k].status \in {"none", "creating", "approval_pending"} /\ row'[k].status \notin Over
       \/ row'[k].status = "cancelled" /\ agreement[k] = "cancelled"

QuietStep ==
    /\ UNCHANGED <<events, handled>>
    /\ \A k \in Keys : agreement'[k] = agreement[k] \/ (agreement[k] \notin Over /\ agreement'[k] \notin Over)
    /\ \A k \in Keys : RowKept(k)
    /\ \A r \in Requests, k \in Keys : At(r, "cancelled", k)' => At(r, "cancelled", k)

LEMMA LastStatus ==
    ASSUME NEW kind \in Kinds
    PROVE  StatusAfter(kind) \in {"active", "past_due", "cancelled", "expired"}
  BY DEF StatusAfter, Reviving, Kinds

LEMMA QuietKeeps ==
    ASSUME Inv, Settling, QuietStep
    PROVE  Settling'
  <1>1. \A k \in Keys : Told(k)' = Told(k)  BY DEF QuietStep, Told
  <1>2. \A k \in Keys : agreement[k] \in Over => agreement'[k] = agreement[k]  BY DEF QuietStep
  <1>3. EndsAreTold'
    <2>1. \A k \in Keys : agreement'[k] \in Over => agreement[k] = agreement'[k]  BY DEF QuietStep
    <2>2. \A i \in DOMAIN events : events[i].key \in Keys  BY EventTyped DEF Inv
    <2>3. \A k \in Keys : \A i \in Told(k) : IsLast(i, k)' => IsLast(i, k)  BY <1>1 DEF IsLast
    <2> QED  BY <1>1, <1>2, <2>1, <2>2, <2>3 DEF Settling, EndsAreTold, QuietStep
  <1>4. EndsAreTrue'
    BY <1>2 DEF Settling, EndsAreTrue, QuietStep, RowKept, Over
  <1>5. ASSUME NEW k \in Keys  PROVE RowFollows(k)'
    <2>1. RowFollows(k) /\ RowKept(k) /\ Told(k)' = Told(k)  BY <1>1 DEF Settling, QuietStep
    <2>2. \A i \in Told(k) : IsLast(i, k)' <=> IsLast(i, k)  BY <2>1 DEF IsLast
    <2>3. row'[k].last # 0 => row'[k].last \in Told(k)  BY <2>1 DEF RowFollows, RowKept
    <2>4. ASSUME NEW i \in Told(k), IsLast(i, k), i \in handled
          PROVE  row'[k].last = i /\ row'[k].status = StatusAfter(events[i].kind)
      <3>1. row[k].last = i /\ row[k].status = StatusAfter(events[i].kind)  BY <2>1, <2>4 DEF RowFollows
      <3>2. i \in DOMAIN events /\ events[i].kind \in Kinds  BY <2>4, EventTyped DEF Told, Inv
      <3>3. row[k].status \in {"active", "past_due", "cancelled", "expired"}  BY <3>1, <3>2, LastStatus
      <3>4. row'[k].last = i  BY <2>1, <3>1, <3>3 DEF RowKept
      <3>5. agreement[k] = "cancelled" => events[i].kind = "cancelled"
        BY <2>4 DEF Settling, EndsAreTold, Over
      <3>6. row'[k].status = row[k].status \/ (row'[k].status = "cancelled" /\ agreement[k] = "cancelled")
        BY <2>1, <3>3 DEF RowKept
      <3>7. StatusAfter("cancelled") = "cancelled"  BY DEF StatusAfter, Reviving
      <3> QED  BY <3>1, <3>4, <3>5, <3>6, <3>7
    <2> QED  BY <2>1, <2>2, <2>3, <2>4 DEF RowFollows, QuietStep
  <1>6. (handled \subseteq DOMAIN events)'  BY DEF Settling, QuietStep
  <1> QED  BY <1>3, <1>4, <1>5, <1>6 DEF Settling

\* PayPal tells one thing more, of a subscription that was not over.
NewsStep(k, kind) ==
    /\ events' = Append(events, [key |-> k, kind |-> kind])
    /\ \A l \in Keys \ {k} : agreement'[l] = agreement[l]
    /\ agreement[k] \notin Over
    /\ kind \in Over \/ agreement'[k] \in Over => agreement'[k] = kind
    /\ UNCHANGED <<row, handled>>
    /\ \A r \in Requests, l \in Keys :
         At(r, "cancelled", l)' => At(r, "cancelled", l) \/ agreement'[l] = "cancelled"

LEMMA NewsKeeps ==
    ASSUME Inv, Settling, NEW k \in Keys, NEW kind \in Kinds, NewsStep(k, kind)
    PROVE  Settling'
  <1> DEFINE e == [key |-> k, kind |-> kind]
  <1>1. e.key = k /\ e.kind = kind /\ e \in [key : Keys, kind : Kinds]  OBVIOUS
  <1>2. events \in Seq([key : Keys, kind : Kinds]) /\ events' = Append(events, e)
    BY DEF Inv, Typed, NewsStep
  <1> HIDE DEF e
  <1>3. PICK n \in Nat :
          /\ DOMAIN events = 1..n /\ DOMAIN events' = 1..(n + 1) /\ events'[n + 1] = e
          /\ \A i \in 1..n : events'[i] = events[i]
    <2>1. Len(events) \in Nat  BY <1>2
    <2> QED  BY <1>1, <1>2, <2>1
  <1>4. \A i \in 1..n : events[i].key \in Keys /\ events[i].kind \in Kinds  BY <1>3, EventTyped DEF Inv
  <1>5. \A l \in Keys \ {k} : Told(l)' = Told(l)
    <2> SUFFICES ASSUME NEW l \in Keys \ {k}, NEW i \in 1..(n + 1)
                 PROVE  events'[i].key = l <=> i \in 1..n /\ events[i].key = l
      BY <1>3 DEF Told
    <2>1. CASE i = n + 1  BY <1>1, <1>3, <2>1
    <2>2. CASE i \in 1..n  BY <1>3, <2>2
    <2> QED  BY <1>3, <2>1, <2>2
  <1>6. n + 1 \in Told(k)' /\ \A i \in Told(k)' : i \in 1..(n + 1)
    BY <1>1, <1>3 DEF Told
  <1>7. IsLast(n + 1, k)' /\ \A i \in Told(k)' : IsLast(i, k)' => i = n + 1
    BY <1>3, <1>6 DEF IsLast
  <1>8. \A i \in Told(k) : i \in Told(k)'  BY <1>3 DEF Told
  <1>9. \A l \in Keys : agreement[l] \in Over => l # k /\ agreement'[l] = agreement[l]  BY DEF NewsStep
  <1>10. EndsAreTold'
    <2>1. ASSUME NEW l \in Keys, agreement'[l] \in Over
          PROVE  Told(l)' # {} /\ \A i \in Told(l)' : IsLast(i, l)' => events'[i].kind = agreement'[l]
      <3>1. CASE l = k  BY <1>1, <1>3, <1>6, <1>7, <2>1, <3>1 DEF NewsStep
      <3>2. CASE l # k
        <4>1. agreement[l] = agreement'[l] /\ Told(l)' = Told(l)  BY <1>5, <3>2 DEF NewsStep
        <4>2. \A i \in Told(l) : (IsLast(i, l)' => IsLast(i, l)) /\ events'[i] = events[i]
          BY <1>3, <4>1 DEF IsLast, Told
        <4> QED  BY <2>1, <4>1, <4>2 DEF Settling, EndsAreTold
      <3> QED  BY <3>1, <3>2
    <2>2. ASSUME NEW i \in 1..(n + 1), events'[i].kind \in Over  PROVE agreement'[events'[i].key] = events'[i].kind
      <3>1. CASE i = n + 1  BY <1>1, <1>3, <2>2, <3>1 DEF NewsStep
      <3>2. CASE i \in 1..n
        <4>1. events'[i] = events[i] /\ agreement[events[i].key] = events[i].kind
          BY <1>3, <2>2, <3>2 DEF Settling, EndsAreTold
        <4> QED  BY <1>4, <1>9, <2>2, <3>2, <4>1
      <3> QED  BY <1>3, <3>1, <3>2
    <2> QED  BY <1>3, <2>1, <2>2 DEF EndsAreTold
  <1>11. EndsAreTrue'
    BY <1>9 DEF Settling, EndsAreTrue, NewsStep, Over
  <1>12. handled' = handled /\ row' = row /\ \A i \in handled : i \in 1..n
    BY <1>3 DEF Settling, NewsStep
  <1>13. ASSUME NEW l \in Keys  PROVE RowFollows(l)'
    <2>1. RowFollows(l)  BY DEF Settling
    <2>2. CASE l = k
      <3>1. row'[l].last # 0 => row'[l].last \in Told(l)'  BY <1>8, <1>12, <2>1, <2>2 DEF RowFollows
      <3>2. n + 1 \notin handled'  BY <1>3, <1>12
      <3> QED  BY <1>6, <1>7, <2>2, <3>1, <3>2 DEF RowFollows
    <2>3. CASE l # k
      <3>1. Told(l)' = Told(l)  BY <1>5, <2>3
      <3>2. \A i \in Told(l) : (IsLast(i, l)' <=> IsLast(i, l)) /\ events'[i] = events[i]
        BY <1>3, <3>1 DEF IsLast, Told
      <3> QED  BY <1>12, <2>1, <3>1, <3>2 DEF RowFollows
    <2> QED  BY <2>2, <2>3
  <1>14. (handled \subseteq DOMAIN events)'  BY <1>3, <1>12
  <1> QED  BY <1>10, <1>11, <1>13, <1>14 DEF Settling

\* A webhook is answered.
LEMMA DeliverKeeps ==
    ASSUME Inv, Settling, NEW i, Deliver(i)
    PROVE  Settling'
  <1> DEFINE k == events[i].key
             kind == events[i].kind
  <1>1. /\ i \in DOMAIN events /\ handled' = handled \cup {i}
        /\ UNCHANGED <<events, agreement, request>>
    BY DEF Deliver, paypal
  <1>2. k \in Keys /\ kind \in Kinds /\ i \in Nat /\ i # 0 /\ row \in [Keys -> Row]
    <2>1. DOMAIN events = 1..Len(events)  BY DEF Inv, Typed
    <2> QED  BY <1>1, <2>1, EventTyped DEF Inv, Typed
  <1>3. PICK q \in Keys : q = k  BY <1>2
  <1>4. i \in Told(q) /\ \A l \in Keys : Told(l)' = Told(l)  BY <1>1, <1>3 DEF Told
  <1>5. \A l \in Keys : \A j \in Told(l) : IsLast(j, l)' <=> IsLast(j, l)  BY <1>4 DEF IsLast
  <1>6. \A j \in Told(q) : j \in Nat  BY EventTyped DEF Told, Inv
  \* Nothing of the last is ignored.
  <1>7. ASSUME IsLast(i, q)  PROVE ~Ignore(i) /\ ~FlagAfterEnd(i)
    <2>1. ~Stale(i)
      <3>1. row[q].last = 0 \/ row[q].last <= i  BY <1>7 DEF Settling, RowFollows, IsLast
      <3>2. row[q].last \in Nat  BY <1>2 DEF Row
      <3> QED  BY <1>2, <1>3, <3>1, <3>2 DEF Stale
    <2>2. row[q].status \in Over => kind \in Over
      <3>1. row[q].status \in Over => agreement[q] \in Over  BY DEF Settling, EndsAreTrue
      <3> QED  BY <1>3, <1>4, <1>7, <3>1 DEF Settling, EndsAreTold
    <2> QED  BY <1>3, <2>1, <2>2 DEF Ignore, FlagAfterEnd, Over, Reviving
  <1>8. EndsAreTold'
    BY <1>1, <1>4, <1>5 DEF Settling, EndsAreTold
  <1>9. CASE UNCHANGED row
    <2>1. ~IsLast(i, q) \/ \E paid \in BOOLEAN : Apply(i, paid)  BY <1>7 DEF Deliver
    <2>2. IsLast(i, q) => row[q].last = i /\ row[q].status = StatusAfter(kind)
      <3>1. ASSUME NEW paid \in BOOLEAN, Apply(i, paid)
            PROVE  row'[q].last = i /\ row'[q].status = StatusAfter(kind)
        BY <1>2, <1>3, <3>1 DEF Apply, Row
      <3> QED  BY <1>9, <2>1, <3>1
    <2>3. ASSUME NEW l \in Keys  PROVE RowFollows(l)'
      <3>1. RowFollows(l)  BY DEF Settling
      <3>2. ASSUME NEW j \in Told(l), IsLast(j, l), j \in handled'
            PROVE  row[l].last = j /\ row[l].status = StatusAfter(events[j].kind)
        <4>1. CASE j \in handled  BY <3>1, <3>2, <4>1 DEF RowFollows
        <4>2. CASE j = i
          <5>1. l = q  BY <1>3, <3>2, <4>2 DEF Told
          <5> QED  BY <2>2, <3>2, <4>2, <5>1
        <4> QED  BY <1>1, <3>2, <4>1, <4>2
      <3> QED  BY <1>1, <1>4, <1>5, <1>9, <3>1, <3>2 DEF RowFollows
    <2>4. EndsAreTrue'  BY <1>1, <1>9 DEF Settling, EndsAreTrue, At
    <2>5. (handled \subseteq DOMAIN events)'  BY <1>1 DEF Settling
    <2> QED  BY <1>8, <2>3, <2>4, <2>5 DEF Settling
  <1>10. ASSUME NEW paid \in BOOLEAN, Apply(i, paid)  PROVE Settling'
    <2> DEFINE st == StatusAfter(kind)
               new == [row[q] EXCEPT !.status = st, !.paid = paid, !.last = i]
    <2>1. row' = [row EXCEPT ![q] = new] /\ ~Stale(i)  BY <1>2, <1>3, <1>10 DEF Apply
    <2>2. new.status = st /\ new.last = i  BY <1>2 DEF Row
    <2> HIDE DEF new, st
    <2>3. row'[q].status = st /\ row'[q].last = i /\ \A l \in Keys \ {q} : row'[l] = row[l]
      BY <1>2, <2>1, <2>2
    <2>4. EndsAreTrue'
      <3>1. st \in Over => kind \in Over  BY <1>2 DEF st, StatusAfter, Over, Reviving, Kinds
      <3>2. kind \in Over => agreement[q] \in Over  BY <1>1, <1>3 DEF Settling, EndsAreTold
      <3> QED  BY <1>1, <2>3, <3>1, <3>2 DEF Settling, EndsAreTrue, At
    <2>5. ASSUME NEW l \in Keys  PROVE RowFollows(l)'
      <3>1. RowFollows(l)  BY DEF Settling
      <3>2. CASE l # q
        <4>1. i \notin Told(l)  BY <1>3, <3>2 DEF Told
        <4> QED  BY <1>1, <1>4, <1>5, <2>3, <3>1, <3>2, <4>1 DEF RowFollows
      <3>3. CASE l = q
        <4>1. ASSUME NEW j \in Told(q), IsLast(j, q), j \in handled'
              PROVE  j = i
          <5>1. CASE j \in handled /\ j # i
            <6>1. row[q].last = j  BY <3>1, <3>3, <4>1, <5>1 DEF RowFollows
            <6>2. i <= j  BY <1>4, <4>1 DEF IsLast
            <6>3. ~(i < row[q].last)  BY <1>3, <2>1 DEF Stale
            <6> QED  BY <1>2, <1>6, <4>1, <5>1, <6>1, <6>2, <6>3
          <5> QED  BY <1>1, <4>1, <5>1
        <4>2. Told(q)' # {} => \E j \in Told(q)' : IsLast(j, q)'
          BY <1>4, <1>5, <3>1, <3>3 DEF RowFollows
        <4>3. row'[q].last \in Told(q)'  BY <1>4, <2>3
        <4>4. \A j \in Told(q)' : IsLast(j, q)' /\ j \in handled' =>
                row'[q].last = j /\ row'[q].status = StatusAfter(events'[j].kind)
          BY <1>1, <1>4, <1>5, <2>3, <4>1 DEF st
        <4> QED  BY <3>3, <4>2, <4>3, <4>4 DEF RowFollows
      <3> QED  BY <3>2, <3>3
    <2>6. (handled \subseteq DOMAIN events)'  BY <1>1 DEF Settling
    <2> QED  BY <1>8, <2>4, <2>5, <2>6 DEF Settling
  <1>11. Ignore(i) \/ FlagAfterEnd(i) => UNCHANGED row  BY DEF Ignore, FlagAfterEnd, books
  <1> QED  BY <1>9, <1>10, <1>11 DEF Deliver

LEMMA CheckoutIsQuiet ==
    ASSUME Inv, NEW r \in Requests, NEW k \in Keys, Checkout(r, k)
    PROVE  QuietStep
  <1>1. /\ Typed /\ row \in [Keys -> Row] /\ row[k] \in Row
        /\ request \in [Requests -> [step : Steps, key : Keys \cup {NoKey}]]
    BY DEF Inv, Typed
  <1>2. UNCHANGED <<events, handled>>
    BY DEF Checkout, ResumeCheckout, StartCheckout, InsertRow, CreateAtProvider, LinkRow, VerifyPending,
           VerifyFails, MarkForReconciliation, MarkApprovalPending, books, told, paypal
  <1>3. \A l \in Keys : agreement'[l] = agreement[l] \/ (agreement[l] \notin Over /\ agreement'[l] \notin Over)
    BY <1>1 DEF Checkout, ResumeCheckout, StartCheckout, InsertRow, CreateAtProvider, LinkRow, VerifyPending,
           VerifyFails, MarkForReconciliation, MarkApprovalPending, paypal, Typed, Over
  <1>4. \A s \in Requests, l \in Keys : At(s, "cancelled", l)' => At(s, "cancelled", l)
    BY <1>1 DEF Checkout, ResumeCheckout, StartCheckout, InsertRow, CreateAtProvider, LinkRow, VerifyPending,
           VerifyFails, MarkForReconciliation, MarkApprovalPending, Goes, Ends, Idle, At
  <1>5. ASSUME NEW q \in Row, row' = [row EXCEPT ![k] = q],
               \/ q.status = row[k].status /\ q.last = row[k].last
               \/ /\ row[k].status \in {"none", "creating", "approval_pending"} /\ q.status \notin Over
                  /\ q.last = row[k].last \/ (row[k].status = "none" /\ q.last = 0)
        PROVE  \A l \in Keys : RowKept(l)
    BY <1>1, <1>5, RowUpdate DEF RowKept
  <1>6. ASSUME UNCHANGED row PROVE \A l \in Keys : RowKept(l)  BY <1>6 DEF RowKept
  <1>7. ASSUME InsertRow(r, k) PROVE \A l \in Keys : RowKept(l)
    <2> DEFINE q == [NoRow EXCEPT !.status = "creating"]
    <2>1. q \in Row /\ q.status = "creating" /\ q.last = 0  BY DEF Row, NoRow
    <2>2. row' = [row EXCEPT ![k] = q] /\ row[k].status = "none"  BY <1>7 DEF InsertRow, Exists
    <2> HIDE DEF q
    <2> QED  BY <1>5, <2>1, <2>2 DEF Over
  <1>8. ASSUME LinkRow(r, k) PROVE \A l \in Keys : RowKept(l)
    <2> DEFINE q == [row[k] EXCEPT !.linked = TRUE, !.url = TRUE]
    <2>1. q \in Row /\ q.status = row[k].status /\ q.last = row[k].last  BY <1>1 DEF Row
    <2>2. row' = [row EXCEPT ![k] = q]  BY <1>1, <1>8 DEF LinkRow
    <2> HIDE DEF q
    <2> QED  BY <1>5, <2>1, <2>2
  <1>9. ASSUME MarkForReconciliation(r, k) PROVE \A l \in Keys : RowKept(l)
    <2> DEFINE doubted == row[k].linked /\ row[k].status \in {"creating", "approval_pending"}
               q == [row[k] EXCEPT !.status = "reconciliation_required", !.url = FALSE]
    <2>1. q \in Row /\ q.status = "reconciliation_required" /\ q.last = row[k].last  BY <1>1 DEF Row
    <2>2. row' = [row EXCEPT ![k] = IF doubted THEN q ELSE row[k]]  BY <1>9 DEF MarkForReconciliation
    <2> HIDE DEF q
    <2>3. CASE doubted
      <3>1. row' = [row EXCEPT ![k] = q]  BY <2>2, <2>3
      <3>2. row[k].status \in {"none", "creating", "approval_pending"} /\ q.status \notin Over
        BY <2>1, <2>3 DEF Over
      <3>3. row'[k] = q /\ \A l \in Keys \ {k} : row'[l] = row[l]  BY <1>1, <2>1, <3>1, RowUpdate
      <3> QED  BY <2>1, <3>2, <3>3 DEF RowKept
    <2>4. CASE ~doubted  BY <1>1, <1>5, <2>2, <2>4
    <2> QED  BY <2>3, <2>4
  <1>10. ASSUME MarkApprovalPending(r, k) PROVE \A l \in Keys : RowKept(l)
    <2> DEFINE st == IF row[k].status = "creating" THEN "approval_pending" ELSE row[k].status
               q == [row[k] EXCEPT !.status = st]
    <2>1. q \in Row /\ q.status = st /\ q.last = row[k].last  BY <1>1 DEF Row
    <2>2. row' = [row EXCEPT ![k] = q]  BY <1>1, <1>10 DEF MarkApprovalPending, MarkPending
    <2>3. \/ st = row[k].status
          \/ row[k].status = "creating" /\ st \notin Over
      BY DEF Over
    <2> HIDE DEF q, st
    <2>4. row'[k] = q /\ \A l \in Keys \ {k} : row'[l] = row[l]  BY <1>1, <2>1, <2>2, RowUpdate
    <2> QED  BY <2>1, <2>3, <2>4 DEF RowKept
  <1>11. \A l \in Keys : RowKept(l)
    BY <1>6, <1>7, <1>8, <1>9, <1>10 DEF Checkout, ResumeCheckout, StartCheckout, CreateAtProvider,
           VerifyPending, VerifyFails, books
  <1> QED  BY <1>2, <1>3, <1>4, <1>11 DEF QuietStep

LEMMA SettlingStep == Inv /\ Settling /\ [Next]_vars => Settling'
  <1> SUFFICES ASSUME Inv, Settling, [Next]_vars PROVE Settling'  OBVIOUS
  <1>1. /\ Typed /\ row \in [Keys -> Row]
        /\ request \in [Requests -> [step : Steps, key : Keys \cup {NoKey}]]
        /\ agreement \in [Keys -> {"none"} \cup Living \cup Ending]
    BY DEF Inv, Typed
  <1>2. ASSUME NEW r \in Requests, NEW k \in Keys, Checkout(r, k)  PROVE Settling'
    BY <1>2, CheckoutIsQuiet, QuietKeeps
  <1>3. ASSUME NEW r \in Requests, NEW k \in Keys, Cancel(r, k)  PROVE Settling'
    <2>1. CASE StartCancel(r, k)
      <3>1. QuietStep
        BY <1>1, <2>1 DEF StartCancel, QuietStep, RowKept, books, paypal, At
      <3> QED  BY <3>1, QuietKeeps
    <2>2. CASE CancelAtProvider(r, k)
      <3>1. NewsStep(k, "cancelled")
        BY <1>1, <2>2 DEF CancelAtProvider, NewsStep, Tells, Goes, At, books, Over
      <3> QED  BY <3>1, NewsKeeps DEF Kinds
    <2>3. CASE StoreCancelled(r, k)
      <3> DEFINE q == [row[k] EXCEPT !.status = "cancelled"]
      <3>1. q \in Row /\ q.status = "cancelled" /\ q.last = row[k].last  BY <1>1 DEF Row
      <3>2. row' = [row EXCEPT ![k] = q]  BY <1>1, <2>3 DEF StoreCancelled
      <3> HIDE DEF q
      <3>3. row'[k] = q /\ \A l \in Keys \ {k} : row'[l] = row[l]  BY <1>1, <3>1, <3>2, RowUpdate
      <3>4. agreement[k] = "cancelled"  BY <2>3 DEF StoreCancelled, Settling, EndsAreTrue
      <3>5. \A l \in Keys : RowKept(l)  BY <3>1, <3>3, <3>4 DEF RowKept
      <3>6. QuietStep
        BY <1>1, <2>3, <3>5 DEF StoreCancelled, QuietStep, Ends, Idle, At, told, paypal
      <3> QED  BY <3>6, QuietKeeps
    <2> QED  BY <1>3, <2>1, <2>2, <2>3 DEF Cancel
  <1>4. ASSUME NEW r \in Requests, Abandon(r)  PROVE Settling'
    <2>1. QuietStep
      BY <1>1, <1>4 DEF Abandon, QuietStep, RowKept, Ends, Idle, At, books, paypal
    <2> QED  BY <2>1, QuietKeeps
  <1>5. ASSUME NEW k \in Keys, Happens(k)  PROVE Settling'
    <2>1. PICK h \in Happenings : /\ agreement[k] = h[1]
                                  /\ agreement' = [agreement EXCEPT ![k] = h[3]]
                                  /\ Tells(k, h[2])
      BY <1>5 DEF Happens
    <2>2. /\ h[1] \notin Over /\ h[2] \in Kinds
          /\ h[2] \in Over \/ h[3] \in Over => h[3] = h[2]
      BY <2>1 DEF Happenings, Kinds, Over
    <2>3. agreement'[k] = h[3] /\ \A l \in Keys \ {k} : agreement'[l] = agreement[l]  BY <1>1, <2>1
    <2>4. NewsStep(k, h[2])
      BY <1>5, <2>1, <2>2, <2>3 DEF Happens, NewsStep, Tells, At, books
    <2> QED  BY <2>2, <2>4, NewsKeeps
  <1>6. ASSUME NEW k \in Keys, Vanish(k)  PROVE Settling'
    <2>1. QuietStep
      BY <1>1, <1>6 DEF Vanish, QuietStep, RowKept, At, books, Over
    <2> QED  BY <2>1, QuietKeeps
  <1>7. ASSUME NEW k \in Keys, PaidTimeEnds(k)  PROVE Settling'
    <2>1. \A l \in Keys : row'[l].status = row[l].status /\ row'[l].last = row[l].last
      BY <1>1, <1>7 DEF PaidTimeEnds, Row
    <2>2. QuietStep
      BY <1>7, <2>1 DEF PaidTimeEnds, QuietStep, RowKept, At, told, paypal
    <2> QED  BY <2>2, QuietKeeps
  <1>8. ASSUME NEW i \in 1..MaxEvents, Deliver(i)  PROVE Settling'
    BY <1>8, DeliverKeeps
  <1>9. CASE UNCHANGED vars
    <2>1. QuietStep
      BY <1>9 DEF vars, books, paypal, QuietStep, RowKept, At
    <2> QED  BY <2>1, QuietKeeps
  <1> QED  BY <1>2, <1>3, <1>4, <1>5, <1>6, <1>7, <1>8, <1>9 DEF Next

\* Once all that PayPal told of a plan was delivered, in whatever order, the row
\* says what PayPal says (applySubscriptionEvent, the cancel route and the
\* checkout of payments/domain.js), for any number of events, requests and keys.
THEOREM SettledPlansAgree == Spec => []SettledAgrees
  <1>1. Init => Settling
    BY DEF Init, Settling, EndsAreTold, EndsAreTrue, RowFollows, Told, NoRow, Idle, At, Over
  <1>2. Spec => []Settling  BY <1>1, InvHolds, SettlingStep, PTL DEF Spec
  <1>3. Settling => SettledAgrees
    <2> SUFFICES ASSUME Settling, NEW k \in Keys, Told(k) # {}, Told(k) \subseteq handled
                 PROVE  row[k].status
                          = StatusAfter(events[CHOOSE i \in Told(k) : \A j \in Told(k) : j <= i].kind)
      BY DEF SettledAgrees
    <2>1. PICK i \in Told(k) : \A j \in Told(k) : j <= i  BY DEF Settling, RowFollows, IsLast
    <2> DEFINE last == CHOOSE l \in Told(k) : \A j \in Told(k) : j <= l
    <2>2. last \in Told(k) /\ \A j \in Told(k) : j <= last  BY <2>1
    <2> HIDE DEF last
    <2>3. IsLast(last, k)  BY <2>2 DEF IsLast
    <2>4. row[k].status = StatusAfter(events[last].kind)  BY <2>2, <2>3 DEF Settling, RowFollows
    <2> QED  BY <2>4 DEF last
  <1> QED  BY <1>2, <1>3, PTL
=============================================================================
