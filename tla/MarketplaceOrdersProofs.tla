---------------------- MODULE MarketplaceOrdersProofs ----------------------
(***************************************************************************)
(* Proofs about MarketplaceOrders, for any number of orders, refunds,     *)
(* disputes and concurrent requests, any prices, and any number of         *)
(* failures.                                                               *)
(***************************************************************************)
EXTENDS MarketplaceOrders, TLAPS

(* The inductive invariant: what the orders' records, the provider and the  *)
(* running requests and handlers owe to each other.                         *)

\* A priced order is never free, a free order is never taken to the provider.
PriceInv ==
    \A o \in Orders :
        /\ order[o].status \in {"creating", "approval_pending"} \/ order[o].linked
             => Gross[o] > 0
        /\ order[o].status = "processing" => Gross[o] = 0

\* Webcanbe records a capture only when the provider has the money.
ProviderInv ==
    \A o \in Orders :
        /\ o \in identities => paypal[o] = "captured"
        /\ o \in sent => paypal[o] = "captured"
        /\ handler[o] # "idle" => o \in sent
        /\ paypal[o] # "none" => Gross[o] > 0

\* What a request has read stays true while it waits for the provider.
RequestInv ==
    \A w \in Workers :
        /\ \A o \in Orders :
             /\ \A s \in {"create", "link", "capture", "mismatch"} :
                  At(w, s, o) => Gross[o] > 0
             /\ At(w, "free", o) => Gross[o] = 0
             /\ At(w, "finalize", o) => paypal[o] = "captured"
        /\ \A r \in Refunds, s \in {"refund", "applyRefund"} :
             At(w, s, r) => OrderOf[r] \in identities

\* The capture's identity, the order's capture id and the sale go together,
\* refunds and disputes come after them, and access follows.
OrderBooks(o) ==
    /\ order[o].captureId <=> o \in identities
    /\ ledger[o].sold <=> o \in identities
    /\ Disputed(o) \/ refunded[o] > 0 => o \in identities
    /\ o \in identities => entitlement[o] # "none"
    /\ entitlement[o] = "revoked" <=> FullyRefunded(o) \/ Disputed(o)
    /\ entitlement[o] = "active" => o \in identities \/ Gross[o] = 0
    /\ order[o].status = "completed" =>
         entitlement[o] = "active" /\ (Gross[o] > 0 => o \in identities)
    /\ order[o].status = "partially_refunded" /\ ~Disputed(o) =>
         entitlement[o] = "active" /\ o \in identities
    /\ order[o].status = "disputed" => Disputed(o)

BooksInv == \A o \in Orders : OrderBooks(o)

IInv == TypeOK /\ PriceInv /\ ProviderInv /\ RequestInv /\ BooksInv
-----------------------------------------------------------------------------
(* Types.                                                                   *)

LEMMA StatusType ==
    ASSUME order \in [Orders -> OrderRow], NEW o \in Orders, NEW s \in Statuses
    PROVE  [order EXCEPT ![o].status = s] \in [Orders -> OrderRow]
BY DEF OrderRow

LEMMA RowType ==
    ASSUME order \in [Orders -> OrderRow], NEW o \in Orders, NEW s \in Statuses
    PROVE  /\ [order EXCEPT ![o] = [@ EXCEPT !.linked = TRUE, !.status = s]]
                \in [Orders -> OrderRow]
           /\ [order EXCEPT ![o] = [@ EXCEPT !.status = s, !.captureId = TRUE]]
                \in [Orders -> OrderRow]
BY DEF OrderRow

LEMMA RequestType ==
    ASSUME request \in [Workers -> Request], NEW w \in Workers
    PROVE  /\ \A s \in Steps, x \in Orders \cup Refunds :
                Goto(w, s, x) => request' \in [Workers -> Request]
           /\ Return(w) => request' \in [Workers -> Request]
BY DEF Goto, Return, Request

LEMMA EntitlementType ==
    ASSUME TypeOK, NEW o \in Orders
    PROVE  EnsureEntitlement(o) \/ RevokeEntitlement(o) =>
             entitlement' \in [Orders -> {"none", "active", "revoked"}]
BY DEF EnsureEntitlement, RevokeEntitlement, TypeOK

BooksType ==
    /\ order \in [Orders -> OrderRow]
    /\ entitlement \in [Orders -> {"none", "active", "revoked"}]
    /\ identities \subseteq Orders \cup Disputes
    /\ refundRow \in [Refunds -> {"absent", "operator", "webhook"}]
    /\ refunded \in [Orders -> Nat]
    /\ ledger \in [Orders -> LedgerRow]

LEMMA FinalizeType ==
    ASSUME BooksType, NEW o \in Orders, FinalizeCapture(o)
    PROVE  BooksType'
<1>1. CASE UNCHANGED books
  BY <1>1 DEF BooksType, books
<1>2. CASE ~UNCHANGED books
  <2> DEFINE row == [order EXCEPT ![o] = [@ EXCEPT !.status = "completed", !.captureId = TRUE]]
  <2>1. row \in [Orders -> OrderRow]
    BY RowType DEF BooksType, Statuses
  <2>2. order' = row
    BY <1>2 DEF FinalizeCapture
  <2>3. ledger' = [ledger EXCEPT ![o].sold = TRUE]
    BY <1>2 DEF FinalizeCapture
  <2>4. ledger' \in [Orders -> LedgerRow]
    BY <2>3 DEF BooksType, LedgerRow
  <2>5. entitlement' \in [Orders -> {"none", "active", "revoked"}]
    BY <1>2 DEF FinalizeCapture, EnsureEntitlement, BooksType
  <2> QED BY <1>2, <2>1, <2>2, <2>4, <2>5 DEF FinalizeCapture, BooksType
<1> QED BY <1>1, <1>2

LEMMA ReverseType ==
    ASSUME BooksType, NEW o \in Orders, NEW fee \in Nat, NEW creator \in Nat,
           Reverse(o, fee, creator)
    PROVE  ledger' \in [Orders -> LedgerRow]
BY DEF Reverse, BooksType, LedgerRow

LEMMA ReversalType ==
    ASSUME BooksType, NEW o \in Orders, NEW cum \in Nat, Gross[o] > 0
    PROVE  /\ TargetFee(o, cum) \in Int
           /\ FeeReversal(o, cum) \in Nat
           /\ CreatorReversal(o, cum) \in Nat
<1>1. Gross[o] \in Nat /\ Fee[o] \in Nat /\ ledger[o].fee \in Nat /\ ledger[o].creator \in Nat
  BY MoneyAssumption DEF BooksType, LedgerRow
<1>2. Fee[o] * cum \in Int
  BY <1>1
<1>3. TargetFee(o, cum) \in Int
  BY <1>1, <1>2 DEF TargetFee
<1> QED BY <1>1, <1>3 DEF FeeReversal, CreatorReversal, AtLeastZero

LEMMA ApplyRefundType ==
    ASSUME BooksType, NEW r \in Refunds, NEW key \in {"operator", "webhook"},
           ~RefundTooLarge(r), ApplyRefund(r, key)
    PROVE  BooksType'
<1>1. CASE refundRow[r] # "absent"
  BY <1>1 DEF ApplyRefund, BooksType, books
<1>2. CASE refundRow[r] = "absent"
  <2> DEFINE o == OrderOf[r]
             cum == refunded[o] + Amount[r]
  <2>1. o \in Orders /\ cum \in Nat /\ Gross[o] > 0
    BY <1>2, MoneyAssumption DEF RefundTooLarge, BooksType
  <2>2. ledger' \in [Orders -> LedgerRow]
    <3>1. Reverse(o, FeeReversal(o, cum), CreatorReversal(o, cum))
      BY <1>2 DEF ApplyRefund
    <3> HIDE DEF o, cum
    <3> QED BY <2>1, <3>1, ReversalType, ReverseType
  <2>3. order' \in [Orders -> OrderRow]
    <3>1. \/ order' = order
          \/ order' = [order EXCEPT ![o].status = "refunded"]
          \/ order' = [order EXCEPT ![o].status = "partially_refunded"]
      BY <1>2 DEF ApplyRefund
    <3> HIDE DEF o
    <3>2. CASE order' = [order EXCEPT ![o].status = "refunded"]
      BY <2>1, <3>2, StatusType DEF Statuses, BooksType
    <3>3. CASE order' = [order EXCEPT ![o].status = "partially_refunded"]
      BY <2>1, <3>3, StatusType DEF Statuses, BooksType
    <3> QED BY <3>1, <3>2, <3>3 DEF BooksType
  <2>4. entitlement' \in [Orders -> {"none", "active", "revoked"}]
    BY <1>2, <2>1 DEF ApplyRefund, RevokeEntitlement, BooksType
  <2>5. /\ refundRow' = [refundRow EXCEPT ![r] = key]
        /\ refunded' = [refunded EXCEPT ![o] = cum]
        /\ identities' = identities
    BY <1>2 DEF ApplyRefund
  <2> HIDE DEF o, cum
  <2> QED BY <2>1, <2>2, <2>3, <2>4, <2>5 DEF BooksType
<1> QED BY <1>1, <1>2

LEMMA ApplyDisputeType ==
    ASSUME BooksType, NEW d \in Disputes, ApplyDispute(d)
    PROVE  BooksType'
<1>1. CASE d \in identities
  BY <1>1 DEF ApplyDispute, BooksType, books
<1>2. CASE d \notin identities
  <2> DEFINE o == OrderOf[d]
             fee == AtLeastZero(Fee[o] - ledger[o].fee)
             creator == AtLeastZero((Gross[o] - Fee[o]) - ledger[o].creator)
  <2>1. o \in Orders
    BY MoneyAssumption
  <2>2. fee \in Nat /\ creator \in Nat
    BY <2>1, MoneyAssumption DEF AtLeastZero, BooksType, LedgerRow
  <2>3. /\ Reverse(o, fee, creator)
        /\ order' = [order EXCEPT ![o].status = "disputed"]
        /\ RevokeEntitlement(o)
        /\ identities' = identities \cup {d}
        /\ refundRow' = refundRow /\ refunded' = refunded
    BY <1>2 DEF ApplyDispute
  <2> HIDE DEF o, fee, creator
  <2>4. ledger' \in [Orders -> LedgerRow]
    BY <2>1, <2>2, <2>3, ReverseType
  <2>5. order' \in [Orders -> OrderRow]
    BY <2>1, <2>3, StatusType DEF Statuses, BooksType
  <2>6. entitlement' \in [Orders -> {"none", "active", "revoked"}]
    BY <2>1, <2>3 DEF RevokeEntitlement, BooksType
  <2> QED BY <2>3, <2>4, <2>5, <2>6 DEF BooksType
<1> QED BY <1>1, <1>2

LEMMA CheckoutType ==
    ASSUME TypeOK, NEW w \in Workers, NEW o \in Orders, Checkout(w, o)
    PROVE  TypeOK'
<1> USE DEF TypeOK
<1>1. CASE StartCheckout(w, o)
  <2>1. request' \in [Workers -> Request]
    BY <1>1, RequestType DEF StartCheckout, Steps
  <2> QED BY <1>1, <2>1 DEF StartCheckout, books, mail
<1>2. CASE InsertOrder(w, o)
  <2>1. order' \in [Orders -> OrderRow]
    <3>1. CASE order' = order
      BY <3>1
    <3>2. CASE order' = [order EXCEPT ![o].status = "processing"]
      BY <3>2, StatusType DEF Statuses
    <3>3. CASE order' = [order EXCEPT ![o].status = "creating"]
      BY <3>3, StatusType DEF Statuses
    <3> QED BY <1>2, <3>1, <3>2, <3>3 DEF InsertOrder
  <2>2. request' \in [Workers -> Request]
    BY <1>2, RequestType DEF InsertOrder, Steps
  <2> QED BY <1>2, <2>1, <2>2 DEF InsertOrder, mail
<1>3. CASE CompleteFree(w, o)
  <2>1. order' \in [Orders -> OrderRow]
    <3>1. order' = order \/ order' = [order EXCEPT ![o].status = "completed"]
      BY <1>3 DEF CompleteFree, CompleteFreeOrder, books
    <3>2. "completed" \in Statuses
      BY DEF Statuses
    <3> QED BY <3>1, <3>2, StatusType
  <2>2. entitlement' \in [Orders -> {"none", "active", "revoked"}]
    BY <1>3, EntitlementType DEF CompleteFree, CompleteFreeOrder, books
  <2> QED BY <1>3, <2>1, <2>2, RequestType DEF CompleteFree, CompleteFreeOrder, books, mail
<1>4. CASE CreateAtProvider(w, o)
  <2>1. request' \in [Workers -> Request]
    BY <1>4, RequestType DEF CreateAtProvider, Steps
  <2> QED BY <1>4, <2>1 DEF CreateAtProvider, books, mail
<1>5. CASE LinkOrder(w, o)
  <2>1. order' \in [Orders -> OrderRow]
    BY <1>5, RowType DEF LinkOrder, Statuses
  <2> QED BY <1>5, <2>1, RequestType DEF LinkOrder, mail
<1> QED BY <1>1, <1>2, <1>3, <1>4, <1>5 DEF Checkout

LEMMA CaptureType ==
    ASSUME TypeOK, NEW w \in Workers, NEW o \in Orders, Capture(w, o)
    PROVE  TypeOK'
<1> USE DEF TypeOK
<1>1. CASE StartCapture(w, o)
  <2>1. request' \in [Workers -> Request]
    BY <1>1, RequestType DEF StartCapture, Steps
  <2> QED BY <1>1, <2>1 DEF StartCapture, books, mail
<1>2. CASE CaptureAtProvider(w, o)
  <2>1. request' \in [Workers -> Request]
    BY <1>2, RequestType DEF CaptureAtProvider, Steps
  <2>2. sent' \subseteq Events
    BY <1>2 DEF CaptureAtProvider, Events
  <2> QED BY <1>2, <2>1, <2>2 DEF CaptureAtProvider, books, mail
<1>3. CASE Finalize(w, o)
  <2>1. BooksType'
    BY <1>3, FinalizeType DEF Finalize, BooksType
  <2>2. request' \in [Workers -> Request]
    BY <1>3, RequestType DEF Finalize
  <2> QED BY <1>3, <2>1, <2>2 DEF Finalize, BooksType, mail
<1>4. CASE FinalizeMismatch(w, o)
  BY <1>4, RequestType DEF FinalizeMismatch, books, mail
<1> QED BY <1>1, <1>2, <1>3, <1>4 DEF Capture

LEMMA RefundType ==
    ASSUME TypeOK, NEW w \in Workers, NEW r \in Refunds, Refund(w, r)
    PROVE  TypeOK'
<1> USE DEF TypeOK
<1>1. CASE StartRefund(w, r)
  <2>1. request' \in [Workers -> Request]
    BY <1>1, RequestType DEF StartRefund, Steps
  <2> QED BY <1>1, <2>1 DEF StartRefund, books, mail
<1>2. CASE RefundAtProvider(w, r)
  <2>1. request' \in [Workers -> Request]
    BY <1>2, RequestType DEF RefundAtProvider, Steps
  <2>2. sent' \subseteq Events
    BY <1>2 DEF RefundAtProvider, Events
  <2> QED BY <1>2, <2>1, <2>2 DEF RefundAtProvider, books, mail
<1>3. CASE ApplyOperatorRefund(w, r)
  <2>1. BooksType'
    BY <1>3, ApplyRefundType DEF ApplyOperatorRefund, BooksType
  <2>2. request' \in [Workers -> Request]
    BY <1>3, RequestType DEF ApplyOperatorRefund
  <2> QED BY <1>3, <2>1, <2>2 DEF ApplyOperatorRefund, BooksType, mail
<1> QED BY <1>1, <1>2, <1>3 DEF Refund

LEMMA ProviderType ==
    ASSUME TypeOK,
           \/ \E w \in Workers : Abandon(w)
           \/ \E o \in Orders : BuyerApproves(o) \/ CaptureSettles(o)
           \/ \E e \in Refunds \cup Disputes : ConsoleRefundOrDispute(e)
    PROVE  TypeOK'
<1> USE DEF TypeOK, Events
<1>1. ASSUME NEW w \in Workers, Abandon(w) PROVE TypeOK'
  BY <1>1, RequestType DEF Abandon, books, mail
<1>2. ASSUME NEW o \in Orders, BuyerApproves(o) PROVE TypeOK'
  BY <1>2 DEF BuyerApproves, books, mail
<1>3. ASSUME NEW o \in Orders, CaptureSettles(o) PROVE TypeOK'
  BY <1>3 DEF CaptureSettles, books, mail
<1>4. ASSUME NEW e \in Refunds \cup Disputes, ConsoleRefundOrDispute(e) PROVE TypeOK'
  BY <1>4 DEF ConsoleRefundOrDispute, books, mail
<1> QED BY <1>1, <1>2, <1>3, <1>4

LEMMA WebhookType ==
    ASSUME TypeOK, NEW e \in Events, Webhook(e)
    PROVE  TypeOK'
<1> USE DEF TypeOK
<1>1. CASE Deliver(e)
  BY <1>1 DEF Deliver, books
<1>2. CASE e \in Orders /\ HandleCapture(e)
  <2>1. BooksType'
    BY <1>2, FinalizeType DEF HandleCapture, BooksType
  <2> QED BY <1>2, <2>1 DEF HandleCapture, Applied, BooksType
<1>3. CASE e \in Refunds /\ HandleRefund(e)
  <2>1. BooksType' /\ flagged' \subseteq Events
    BY <1>3, ApplyRefundType DEF HandleRefund, Flag, BooksType, books
  <2> QED BY <1>3, <2>1 DEF HandleRefund, Applied, BooksType
<1>4. CASE e \in Disputes /\ HandleDispute(e)
  <2>1. BooksType' /\ flagged' \subseteq Events
    BY <1>4, ApplyDisputeType DEF HandleDispute, Flag, BooksType, books
  <2> QED BY <1>4, <2>1 DEF HandleDispute, Applied, BooksType
<1>5. CASE HandlerThrows(e)
  BY <1>5, BoundAssumption DEF HandlerThrows, books
<1>6. CASE MarkProcessed(e)
  BY <1>6 DEF MarkProcessed, books
<1>7. CASE Answer(e)
  BY <1>7 DEF Answer, books
<1>8. CASE MarkFailed(e)
  BY <1>8 DEF MarkFailed, books
<1>9. CASE HandlerDies(e)
  BY <1>9, BoundAssumption DEF HandlerDies, books
<1> QED BY <1>1, <1>2, <1>3, <1>4, <1>5, <1>6, <1>7, <1>8, <1>9 DEF Webhook

LEMMA TypeInit == Init => TypeOK
BY BoundAssumption DEF Init, TypeOK, OrderRow, Statuses, LedgerRow, Request

LEMMA TypeNext == TypeOK /\ [Next]_vars => TypeOK'
<1> SUFFICES ASSUME TypeOK, [Next]_vars PROVE TypeOK'
  OBVIOUS
<1>1. CASE UNCHANGED vars
  BY <1>1 DEF TypeOK, vars, books, mail
<1>2. CASE Next
  BY <1>2, CheckoutType, CaptureType, RefundType, ProviderType, WebhookType DEF Next
<1> QED BY <1>1, <1>2

\* Every variable keeps its type: the tables hold only the statuses the code
\* writes, and every request is at an await the code has.
THEOREM TypeCorrect == Spec => []TypeOK
BY TypeInit, TypeNext, PTL DEF Spec
-----------------------------------------------------------------------------
(* The books: one transaction at a time.                                    *)

LEMMA SameBooks ==
    ASSUME IInv, UNCHANGED books
    PROVE  BooksInv' /\ PriceInv'
<1>1. /\ order' = order /\ entitlement' = entitlement /\ identities' = identities
      /\ refunded' = refunded /\ ledger' = ledger
  BY DEF books
<1>2. ASSUME NEW o \in Orders PROVE OrderBooks(o)'
  <2>1. Disputed(o)' <=> Disputed(o)
    BY <1>1 DEF Disputed
  <2> QED BY <1>1, <2>1 DEF IInv, BooksInv, OrderBooks, FullyRefunded
<1>3. PriceInv'
  BY <1>1 DEF IInv, PriceInv
<1> QED BY <1>2, <1>3 DEF BooksInv

LEMMA FinalizeBooks ==
    ASSUME IInv, NEW o \in Orders, FinalizeCapture(o), paypal[o] = "captured"
    PROVE  BooksInv' /\ PriceInv'
<1>1. CASE UNCHANGED books
  BY <1>1, SameBooks
<1>2. CASE ~UNCHANGED books
  <2>1. /\ o \notin identities /\ order[o].status # "completed"
        /\ identities' = identities \cup {o}
        /\ order' = [order EXCEPT ![o] = [@ EXCEPT !.status = "completed", !.captureId = TRUE]]
        /\ EnsureEntitlement(o)
        /\ ledger' = [ledger EXCEPT ![o].sold = TRUE]
        /\ refunded' = refunded
    BY <1>2 DEF FinalizeCapture
  <2>2. /\ order[o] \in OrderRow /\ ledger[o] \in LedgerRow
        /\ Gross[o] \in Nat /\ refunded[o] \in Nat
    BY MoneyAssumption DEF IInv, TypeOK
  <2>3. \A x \in Orders : Disputed(x)' <=> Disputed(x)
    BY <2>1, DistinctIds DEF Disputed
  <2>4. Gross[o] > 0
    BY DEF IInv, ProviderInv
  <2>5. OrderBooks(o) /\ ~Disputed(o) /\ ~(refunded[o] > 0)
    BY <2>1 DEF IInv, BooksInv, OrderBooks
  <2>6. entitlement'[o] = "active"
    <3>1. entitlement[o] \in {"none", "active"}
      BY <2>2, <2>5 DEF IInv, TypeOK, OrderBooks, FullyRefunded
    <3> QED BY <2>1, <3>1 DEF EnsureEntitlement, IInv, TypeOK
  <2>7. /\ order'[o].status = "completed" /\ order'[o].captureId
        /\ order'[o].linked = order[o].linked /\ ledger'[o].sold
    BY <2>1, <2>2 DEF IInv, TypeOK, OrderRow, LedgerRow
  <2>8. OrderBooks(o)'
    BY <2>1, <2>2, <2>3, <2>4, <2>5, <2>6, <2>7 DEF OrderBooks, FullyRefunded
  <2>9. ASSUME NEW x \in Orders, x # o PROVE OrderBooks(x)'
    <3>1. /\ order'[x] = order[x] /\ entitlement'[x] = entitlement[x]
          /\ ledger'[x] = ledger[x] /\ refunded'[x] = refunded[x]
      BY <2>1, <2>9 DEF IInv, TypeOK, EnsureEntitlement
    <3> QED BY <2>1, <2>3, <2>9, <3>1 DEF IInv, BooksInv, OrderBooks, FullyRefunded
  <2>10. PriceInv'
    BY <2>1, <2>4, <2>7 DEF IInv, TypeOK, PriceInv
  <2> QED BY <2>8, <2>9, <2>10 DEF BooksInv
<1> QED BY <1>1, <1>2

LEMMA RefundBooks ==
    ASSUME IInv, NEW r \in Refunds, NEW key \in {"operator", "webhook"},
           OrderOf[r] \in identities, ~RefundTooLarge(r), ApplyRefund(r, key)
    PROVE  BooksInv' /\ PriceInv'
<1>1. CASE refundRow[r] # "absent"
  <2>1. UNCHANGED books
    BY <1>1 DEF ApplyRefund
  <2> QED BY <2>1, SameBooks
<1>2. CASE refundRow[r] = "absent"
  <2> DEFINE o == OrderOf[r]
             cum == refunded[o] + Amount[r]
             fee == FeeReversal(o, cum)
             creator == CreatorReversal(o, cum)
  <2>1. /\ o \in Orders /\ o \in identities
        /\ cum \in Nat /\ 0 < cum /\ cum <= Gross[o] /\ Gross[o] \in Nat
        /\ refunded[o] < Gross[o]
    BY <1>2, MoneyAssumption DEF RefundTooLarge, IInv, TypeOK
  <2>2. /\ refunded' = [refunded EXCEPT ![o] = cum]
        /\ identities' = identities
        /\ Reverse(o, fee, creator)
        /\ \/ order[o].status = "disputed" /\ order' = order /\ entitlement' = entitlement
           \/ /\ order[o].status # "disputed" /\ cum = Gross[o]
              /\ order' = [order EXCEPT ![o].status = "refunded"]
              /\ RevokeEntitlement(o)
           \/ /\ order[o].status # "disputed" /\ cum # Gross[o]
              /\ order' = [order EXCEPT ![o].status = "partially_refunded"]
              /\ entitlement' = entitlement
    BY <1>2 DEF ApplyRefund
  <2> HIDE DEF o, cum, fee, creator
  <2>3. \A x \in Orders : Disputed(x)' <=> Disputed(x)
    BY <2>2 DEF Disputed
  <2>4. OrderBooks(o) /\ order[o] \in OrderRow /\ entitlement[o] \in {"active", "revoked"}
    BY <2>1 DEF IInv, BooksInv, OrderBooks, TypeOK
  <2>5. ledger'[o].sold = ledger[o].sold
    BY <2>1, <2>2 DEF Reverse, IInv, TypeOK, LedgerRow
  <2>6. refunded'[o] = cum
    BY <2>1, <2>2 DEF IInv, TypeOK
  <2>7. OrderBooks(o)' /\ PriceInv'
    <3>1. CASE order' = order /\ entitlement' = entitlement /\ order[o].status = "disputed"
      BY <2>1, <2>2, <2>3, <2>4, <2>5, <2>6, <3>1 DEF OrderBooks, FullyRefunded, IInv, PriceInv
    <3>2. CASE /\ cum = Gross[o]
               /\ order' = [order EXCEPT ![o].status = "refunded"]
               /\ RevokeEntitlement(o)
      <4>1. /\ order'[o].status = "refunded" /\ order'[o].captureId = order[o].captureId
            /\ order'[o].linked = order[o].linked
            /\ \A x \in Orders : x # o => order'[x] = order[x]
        BY <2>1, <2>4, <3>2 DEF IInv, TypeOK, OrderRow
      <4>2. entitlement'[o] = "revoked"
        BY <2>1, <2>4, <3>2 DEF RevokeEntitlement, IInv, TypeOK
      <4> QED
        BY <2>1, <2>2, <2>3, <2>4, <2>5, <2>6, <3>2, <4>1, <4>2
        DEF OrderBooks, FullyRefunded, IInv, PriceInv
    <3>3. CASE /\ cum # Gross[o] /\ order[o].status # "disputed"
               /\ order' = [order EXCEPT ![o].status = "partially_refunded"]
               /\ entitlement' = entitlement
      <4>1. /\ order'[o].status = "partially_refunded"
            /\ order'[o].captureId = order[o].captureId
            /\ order'[o].linked = order[o].linked
            /\ \A x \in Orders : x # o => order'[x] = order[x]
        BY <2>1, <2>4, <3>3 DEF IInv, TypeOK, OrderRow
      <4>2. ~FullyRefunded(o) /\ ~FullyRefunded(o)'
        BY <2>1, <2>6, <3>3 DEF FullyRefunded
      <4> QED
        BY <2>1, <2>2, <2>3, <2>4, <2>5, <2>6, <3>3, <4>1, <4>2
        DEF OrderBooks, IInv, PriceInv
    <3> QED BY <2>2, <3>1, <3>2, <3>3
  <2>8. ASSUME NEW x \in Orders, x # o PROVE OrderBooks(x)'
    <3>1. /\ order'[x] = order[x] /\ entitlement'[x] = entitlement[x]
          /\ ledger'[x] = ledger[x] /\ refunded'[x] = refunded[x]
      BY <2>1, <2>2, <2>8 DEF IInv, TypeOK, RevokeEntitlement, Reverse
    <3> QED BY <2>2, <2>3, <2>8, <3>1 DEF IInv, BooksInv, OrderBooks, FullyRefunded
  <2> QED BY <2>7, <2>8 DEF BooksInv
<1> QED BY <1>1, <1>2

LEMMA DisputeBooks ==
    ASSUME IInv, NEW d \in Disputes, OrderOf[d] \in identities, ApplyDispute(d)
    PROVE  BooksInv' /\ PriceInv'
<1>1. CASE d \in identities
  <2>1. UNCHANGED books
    BY <1>1 DEF ApplyDispute
  <2> QED BY <2>1, SameBooks
<1>2. CASE d \notin identities
  <2> DEFINE o == OrderOf[d]
             fee == AtLeastZero(Fee[o] - ledger[o].fee)
             creator == AtLeastZero((Gross[o] - Fee[o]) - ledger[o].creator)
  <2>1. o \in Orders /\ o \in identities
    BY MoneyAssumption
  <2>2. /\ Reverse(o, fee, creator)
        /\ order' = [order EXCEPT ![o].status = "disputed"]
        /\ RevokeEntitlement(o)
        /\ identities' = identities \cup {d}
        /\ refunded' = refunded
    BY <1>2 DEF ApplyDispute
  <2>3. Disputed(o)'
    BY <2>2 DEF Disputed
  <2>4. \A x \in Orders : /\ x # o => (Disputed(x)' <=> Disputed(x))
                          /\ x \in identities' <=> x \in identities
    BY <2>2, DistinctIds DEF Disputed
  <2> HIDE DEF o, fee, creator
  <2>5. OrderBooks(o) /\ order[o] \in OrderRow /\ entitlement[o] \in {"active", "revoked"}
    BY <2>1 DEF IInv, BooksInv, OrderBooks, TypeOK
  <2>6. /\ order'[o].status = "disputed" /\ order'[o].captureId = order[o].captureId
        /\ order'[o].linked = order[o].linked
        /\ \A x \in Orders : x # o => order'[x] = order[x]
    BY <2>1, <2>2, <2>5 DEF IInv, TypeOK, OrderRow
  <2>7. ledger'[o].sold = ledger[o].sold
    BY <2>1, <2>2 DEF Reverse, IInv, TypeOK, LedgerRow
  <2>8. entitlement'[o] = "revoked"
    BY <2>1, <2>2, <2>5 DEF RevokeEntitlement, IInv, TypeOK
  <2>9. OrderBooks(o)' /\ PriceInv'
    BY <2>1, <2>2, <2>3, <2>4, <2>5, <2>6, <2>7, <2>8
    DEF OrderBooks, FullyRefunded, IInv, PriceInv
  <2>10. ASSUME NEW x \in Orders, x # o PROVE OrderBooks(x)'
    <3>1. /\ order'[x] = order[x] /\ entitlement'[x] = entitlement[x]
          /\ ledger'[x] = ledger[x] /\ refunded'[x] = refunded[x]
      BY <2>1, <2>2, <2>10 DEF IInv, TypeOK, RevokeEntitlement, Reverse
    <3>2. (x \in identities' <=> x \in identities) /\ (Disputed(x)' <=> Disputed(x))
      BY <2>2, <2>10, DistinctIds DEF Disputed, o
    <3>3. OrderBooks(x)
      BY DEF IInv, BooksInv
    <3> QED BY <3>1, <3>2, <3>3 DEF OrderBooks, FullyRefunded
  <2> QED BY <2>9, <2>10 DEF BooksInv
<1> QED BY <1>1, <1>2

LEMMA FreeBooks ==
    ASSUME IInv, NEW o \in Orders, Gross[o] = 0, CompleteFreeOrder(o)
    PROVE  BooksInv' /\ PriceInv'
<1>1. CASE order[o].status = "completed"
  BY <1>1, SameBooks DEF CompleteFreeOrder
<1>2. CASE order[o].status # "completed"
  <2>1. /\ order' = [order EXCEPT ![o].status = "completed"]
        /\ EnsureEntitlement(o)
        /\ identities' = identities /\ refunded' = refunded /\ ledger' = ledger
    BY <1>2 DEF CompleteFreeOrder
  <2>2. \A x \in Orders : Disputed(x)' <=> Disputed(x)
    BY <2>1 DEF Disputed
  <2>3. o \notin identities
    BY DEF IInv, ProviderInv
  <2>4. OrderBooks(o) /\ order[o] \in OrderRow
    BY DEF IInv, BooksInv, TypeOK
  <2>5. entitlement[o] \in {"none", "active"}
    BY <2>3, <2>4 DEF IInv, TypeOK, OrderBooks, FullyRefunded
  <2>6. /\ order'[o].status = "completed" /\ order'[o].captureId = order[o].captureId
        /\ order'[o].linked = order[o].linked
        /\ \A x \in Orders : x # o => order'[x] = order[x]
    BY <2>1, <2>4 DEF IInv, TypeOK, OrderRow
  <2>7. entitlement'[o] = "active"
    BY <2>1, <2>5 DEF EnsureEntitlement, IInv, TypeOK
  <2>8. OrderBooks(o)' /\ PriceInv'
    BY <2>1, <2>2, <2>3, <2>4, <2>6, <2>7 DEF OrderBooks, FullyRefunded, IInv, PriceInv
  <2>9. ASSUME NEW x \in Orders, x # o PROVE OrderBooks(x)'
    <3>1. order'[x] = order[x] /\ entitlement'[x] = entitlement[x]
      BY <2>1, <2>9 DEF IInv, TypeOK, EnsureEntitlement
    <3> QED BY <2>1, <2>2, <2>9, <3>1 DEF IInv, BooksInv, OrderBooks, FullyRefunded
  <2> QED BY <2>8, <2>9 DEF BooksInv
<1> QED BY <1>1, <1>2
-----------------------------------------------------------------------------
(* Requests and the provider.                                               *)

\* What a request may go on with after it went to an await or returned.
MayWait(s, x) ==
    /\ x \in Orders =>
         /\ s \in {"create", "link", "capture", "mismatch"} => Gross[x] > 0
         /\ s = "free" => Gross[x] = 0
         /\ s = "finalize" => paypal'[x] = "captured"
    /\ x \in Refunds /\ s \in {"refund", "applyRefund"} => OrderOf[x] \in identities'

ProviderKeeps ==
    /\ identities \subseteq identities'
    /\ \A o \in Orders : paypal[o] = "captured" => paypal'[o] = "captured"

LEMMA SameRequests ==
    ASSUME IInv, ProviderKeeps, request' = request
    PROVE  RequestInv'
BY DEF IInv, RequestInv, ProviderKeeps, At

LEMMA ReturnRequest ==
    ASSUME IInv, ProviderKeeps, NEW w \in Workers, Return(w)
    PROVE  RequestInv'
<1>1. \A v \in Workers, s \in Steps, x \in Orders \cup Refunds :
        At(v, s, x)' => At(v, s, x)
  BY DEF Return, At, Idle, Steps, IInv, TypeOK
<1> QED BY <1>1 DEF IInv, RequestInv, ProviderKeeps, Steps

LEMMA GotoRequest ==
    ASSUME IInv, ProviderKeeps, NEW w \in Workers, NEW t \in Steps,
           NEW y \in Orders \cup Refunds, Goto(w, t, y), MayWait(t, y)
    PROVE  RequestInv'
<1>1. \A v \in Workers, s \in Steps, x \in Orders \cup Refunds :
        At(v, s, x)' => At(v, s, x) \/ (s = t /\ x = y)
  BY DEF Goto, At, IInv, TypeOK
<1>2. \A v \in Workers, o \in Orders :
        /\ \A s \in {"create", "link", "capture", "mismatch"} :
             At(v, s, o)' => Gross[o] > 0
        /\ At(v, "free", o)' => Gross[o] = 0
        /\ At(v, "finalize", o)' => paypal'[o] = "captured"
  BY <1>1 DEF IInv, RequestInv, ProviderKeeps, Steps, MayWait
<1>3. \A v \in Workers, r \in Refunds, s \in {"refund", "applyRefund"} :
        At(v, s, r)' => OrderOf[r] \in identities'
  BY <1>1 DEF IInv, RequestInv, ProviderKeeps, Steps, MayWait
<1> QED BY <1>2, <1>3 DEF RequestInv

LEMMA CheckoutInv ==
    ASSUME IInv, NEW w \in Workers, NEW o \in Orders, Checkout(w, o)
    PROVE  IInv'
<1>1. TypeOK' /\ TypeOK
  BY CheckoutType DEF IInv
<1>2. CASE StartCheckout(w, o)
  <2>1. UNCHANGED books /\ paypal' = paypal /\ sent' = sent /\ handler' = handler
        /\ identities' = identities
    BY <1>2 DEF StartCheckout, mail, books
  <2>2. ProviderInv' /\ ProviderKeeps
    BY <2>1 DEF IInv, ProviderInv, ProviderKeeps
  <2>3. RequestInv'
    <3>1. CASE order[o].status = "absent" /\ Goto(w, "insert", o)
      BY <2>2, <3>1, GotoRequest, DistinctIds DEF MayWait, Steps
    <3>2. CASE order[o].status = "processing" /\ Goto(w, "free", o)
      BY <2>2, <3>2, GotoRequest, DistinctIds DEF MayWait, Steps, IInv, PriceInv
    <3>3. CASE order[o].status = "creating" /\ Goto(w, "create", o)
      BY <2>2, <3>3, GotoRequest, DistinctIds DEF MayWait, Steps, IInv, PriceInv
    <3> QED BY <1>2, <3>1, <3>2, <3>3 DEF StartCheckout
  <2> QED BY <1>1, <2>1, <2>2, <2>3, SameBooks DEF IInv
<1>3. CASE InsertOrder(w, o)
  <2>1. /\ paypal' = paypal /\ sent' = sent /\ handler' = handler
        /\ identities' = identities /\ entitlement' = entitlement
        /\ ledger' = ledger /\ refunded' = refunded
    BY <1>3 DEF InsertOrder, mail
  <2>2. ProviderInv' /\ ProviderKeeps
    BY <2>1 DEF IInv, ProviderInv, ProviderKeeps
  <2>3. RequestInv'
    BY <1>3, <2>2, GotoRequest, ReturnRequest, DistinctIds DEF InsertOrder, MayWait, Steps
  <2>4. order[o] \in OrderRow
    BY <1>1 DEF TypeOK
  <2>5. \/ order' = order
        \/ /\ order'[o].status \in {"processing", "creating"}
           /\ order'[o].status = "processing" => Gross[o] = 0
           /\ order'[o].status = "creating" => Gross[o] > 0
           /\ order'[o].captureId = order[o].captureId
           /\ order'[o].linked = order[o].linked
           /\ \A x \in Orders : x # o => order'[x] = order[x]
    <3>1. CASE Gross[o] = 0 /\ order' = [order EXCEPT ![o].status = "processing"]
      BY <1>1, <2>4, <3>1 DEF TypeOK, OrderRow
    <3>2. CASE Gross[o] > 0 /\ order' = [order EXCEPT ![o].status = "creating"]
      BY <1>1, <2>4, <3>2 DEF TypeOK, OrderRow
    <3> QED BY <1>3, <3>1, <3>2 DEF InsertOrder
  <2>6. PriceInv'
    BY <2>5 DEF IInv, PriceInv
  <2>7. ASSUME NEW x \in Orders PROVE OrderBooks(x)'
    <3>1. Disputed(x)' <=> Disputed(x)
      BY <2>1 DEF Disputed
    <3> QED BY <2>1, <2>5, <3>1 DEF IInv, BooksInv, OrderBooks, FullyRefunded
  <2> QED BY <1>1, <2>2, <2>3, <2>6, <2>7 DEF IInv, BooksInv
<1>4. CASE CompleteFree(w, o)
  <2>1. /\ paypal' = paypal /\ sent' = sent /\ handler' = handler
        /\ Gross[o] = 0 /\ CompleteFreeOrder(o) /\ Return(w)
    BY <1>4 DEF CompleteFree, mail, IInv, RequestInv
  <2>2. identities' = identities
    BY <2>1 DEF CompleteFreeOrder, books
  <2>3. ProviderInv' /\ ProviderKeeps
    BY <2>1, <2>2 DEF IInv, ProviderInv, ProviderKeeps
  <2> QED BY <1>1, <2>1, <2>3, FreeBooks, ReturnRequest DEF IInv
<1>5. CASE CreateAtProvider(w, o)
  <2>1. /\ UNCHANGED books /\ sent' = sent /\ handler' = handler
        /\ identities' = identities /\ Gross[o] > 0
        /\ paypal' = [paypal EXCEPT ![o] = IF @ = "none" THEN "created" ELSE @]
        /\ Goto(w, "link", o)
    BY <1>5 DEF CreateAtProvider, mail, books, IInv, RequestInv
  <2>2. ProviderInv' /\ ProviderKeeps
    BY <1>1, <2>1 DEF IInv, ProviderInv, ProviderKeeps, TypeOK
  <2>3. RequestInv'
    BY <2>1, <2>2, GotoRequest, DistinctIds DEF MayWait, Steps
  <2> QED BY <1>1, <2>1, <2>2, <2>3, SameBooks DEF IInv
<1>6. CASE LinkOrder(w, o)
  <2>1. /\ paypal' = paypal /\ sent' = sent /\ handler' = handler
        /\ identities' = identities /\ entitlement' = entitlement
        /\ ledger' = ledger /\ refunded' = refunded /\ Gross[o] > 0 /\ Return(w)
        /\ order' = [order EXCEPT ![o] =
                       [@ EXCEPT !.linked = TRUE, !.status = "approval_pending"]]
    BY <1>6 DEF LinkOrder, mail, IInv, RequestInv
  <2>2. ProviderInv' /\ ProviderKeeps
    BY <2>1 DEF IInv, ProviderInv, ProviderKeeps
  <2>3. order[o] \in OrderRow
    BY <1>1 DEF TypeOK
  <2>4. /\ order'[o].status = "approval_pending"
        /\ order'[o].captureId = order[o].captureId
        /\ \A x \in Orders : x # o => order'[x] = order[x]
    BY <1>1, <2>1, <2>3 DEF TypeOK, OrderRow
  <2>5. PriceInv'
    BY <2>1, <2>4 DEF IInv, PriceInv
  <2>6. ASSUME NEW x \in Orders PROVE OrderBooks(x)'
    <3>1. Disputed(x)' <=> Disputed(x)
      BY <2>1 DEF Disputed
    <3> QED BY <2>1, <2>4, <3>1 DEF IInv, BooksInv, OrderBooks, FullyRefunded
  <2> QED BY <1>1, <2>1, <2>2, <2>5, <2>6, ReturnRequest DEF IInv, BooksInv
<1> QED BY <1>2, <1>3, <1>4, <1>5, <1>6 DEF Checkout

LEMMA FinalizeKeeps ==
    ASSUME NEW o \in Orders, FinalizeCapture(o)
    PROVE  identities' \in {identities, identities \cup {o}}
BY DEF FinalizeCapture, books

LEMMA RefundKeeps ==
    ASSUME NEW r \in Refunds, NEW key, ApplyRefund(r, key)
    PROVE  identities' = identities
BY DEF ApplyRefund, books

LEMMA DisputeKeeps ==
    ASSUME NEW d \in Disputes, ApplyDispute(d)
    PROVE  identities' \in {identities, identities \cup {d}}
BY DEF ApplyDispute, books

LEMMA CaptureInv ==
    ASSUME IInv, NEW w \in Workers, NEW o \in Orders, Capture(w, o)
    PROVE  IInv'
<1>1. TypeOK' /\ TypeOK
  BY CaptureType DEF IInv
<1>2. CASE StartCapture(w, o)
  <2>1. /\ UNCHANGED books /\ paypal' = paypal /\ sent' = sent /\ handler' = handler
        /\ identities' = identities /\ Gross[o] > 0 /\ Goto(w, "capture", o)
    BY <1>2 DEF StartCapture, mail, books, IInv, PriceInv
  <2>2. ProviderInv' /\ ProviderKeeps
    BY <2>1 DEF IInv, ProviderInv, ProviderKeeps
  <2>3. RequestInv'
    BY <2>1, <2>2, GotoRequest, DistinctIds DEF MayWait, Steps
  <2> QED BY <1>1, <2>1, <2>2, <2>3, SameBooks DEF IInv
<1>3. CASE CaptureAtProvider(w, o)
  <2>1. /\ UNCHANGED books /\ handler' = handler /\ identities' = identities
        /\ Gross[o] > 0
        /\ \/ /\ paypal' = [paypal EXCEPT ![o] = "captured"]
              /\ sent' = sent \cup {o}
              /\ Goto(w, "finalize", o)
           \/ /\ paypal[o] \in {"approved", "pending"}
              /\ paypal' = [paypal EXCEPT ![o] = "pending"]
              /\ sent' = sent
              /\ Goto(w, "mismatch", o)
    BY <1>3 DEF CaptureAtProvider, mail, books, IInv, RequestInv
  <2>2. CASE paypal' = [paypal EXCEPT ![o] = "captured"]
             /\ sent' = sent \cup {o} /\ Goto(w, "finalize", o)
    <3>1. ProviderInv' /\ ProviderKeeps
      BY <1>1, <2>1, <2>2 DEF IInv, ProviderInv, ProviderKeeps, TypeOK
    <3>2. paypal'[o] = "captured"
      BY <1>1, <2>2 DEF TypeOK
    <3>3. RequestInv'
      BY <2>2, <3>1, <3>2, GotoRequest, DistinctIds DEF MayWait, Steps
    <3> QED BY <1>1, <2>1, <3>1, <3>3, SameBooks DEF IInv
  <2>3. CASE paypal[o] \in {"approved", "pending"}
             /\ paypal' = [paypal EXCEPT ![o] = "pending"]
             /\ sent' = sent /\ Goto(w, "mismatch", o)
    <3>1. ProviderInv' /\ ProviderKeeps
      BY <1>1, <2>1, <2>3 DEF IInv, ProviderInv, ProviderKeeps, TypeOK
    <3>2. RequestInv'
      BY <2>1, <2>3, <3>1, GotoRequest, DistinctIds DEF MayWait, Steps
    <3> QED BY <1>1, <2>1, <3>1, <3>2, SameBooks DEF IInv
  <2> QED BY <2>1, <2>2, <2>3
<1>4. CASE Finalize(w, o)
  <2>1. /\ FinalizeCapture(o) /\ paypal[o] = "captured" /\ Return(w)
        /\ paypal' = paypal /\ sent' = sent /\ handler' = handler
    BY <1>4 DEF Finalize, mail, IInv, RequestInv
  <2>2. ProviderInv' /\ ProviderKeeps
    BY <2>1, FinalizeKeeps DEF IInv, ProviderInv, ProviderKeeps
  <2> QED BY <1>1, <2>1, <2>2, FinalizeBooks, ReturnRequest DEF IInv
<1>5. CASE FinalizeMismatch(w, o)
  <2>1. /\ UNCHANGED books /\ paypal' = paypal /\ sent' = sent /\ handler' = handler
        /\ identities' = identities /\ Return(w)
    BY <1>5 DEF FinalizeMismatch, mail, books
  <2>2. ProviderInv' /\ ProviderKeeps
    BY <2>1 DEF IInv, ProviderInv, ProviderKeeps
  <2> QED BY <1>1, <2>1, <2>2, SameBooks, ReturnRequest DEF IInv
<1> QED BY <1>2, <1>3, <1>4, <1>5 DEF Capture

LEMMA RefundInv ==
    ASSUME IInv, NEW w \in Workers, NEW r \in Refunds, Refund(w, r)
    PROVE  IInv'
<1>1. TypeOK' /\ TypeOK /\ r \notin Orders /\ OrderOf[r] \in Orders
  BY RefundType, DistinctIds, MoneyAssumption DEF IInv
<1>2. CASE StartRefund(w, r)
  <2>1. /\ UNCHANGED books /\ paypal' = paypal /\ sent' = sent /\ handler' = handler
        /\ identities' = identities /\ OrderOf[r] \in identities /\ Goto(w, "refund", r)
    BY <1>1, <1>2 DEF StartRefund, mail, books, IInv, BooksInv, OrderBooks
  <2>2. ProviderInv' /\ ProviderKeeps
    BY <2>1 DEF IInv, ProviderInv, ProviderKeeps
  <2>3. RequestInv'
    BY <1>1, <2>1, <2>2, GotoRequest DEF MayWait, Steps
  <2> QED BY <1>1, <2>1, <2>2, <2>3, SameBooks DEF IInv
<1>3. CASE RefundAtProvider(w, r)
  <2>1. /\ UNCHANGED books /\ paypal' = paypal /\ sent' = sent \cup {r} /\ handler' = handler
        /\ identities' = identities /\ OrderOf[r] \in identities /\ Goto(w, "applyRefund", r)
    BY <1>3 DEF RefundAtProvider, mail, books, IInv, RequestInv
  <2>2. ProviderInv' /\ ProviderKeeps
    BY <1>1, <2>1 DEF IInv, ProviderInv, ProviderKeeps
  <2>3. RequestInv'
    BY <1>1, <2>1, <2>2, GotoRequest DEF MayWait, Steps
  <2> QED BY <1>1, <2>1, <2>2, <2>3, SameBooks DEF IInv
<1>4. CASE ApplyOperatorRefund(w, r)
  <2>1. /\ OrderOf[r] \in identities /\ ~RefundTooLarge(r) /\ ApplyRefund(r, "operator")
        /\ Return(w) /\ paypal' = paypal /\ sent' = sent /\ handler' = handler
    BY <1>4 DEF ApplyOperatorRefund, mail, IInv, RequestInv
  <2>2. ProviderInv' /\ ProviderKeeps
    BY <2>1, RefundKeeps DEF IInv, ProviderInv, ProviderKeeps
  <2> QED BY <1>1, <2>1, <2>2, RefundBooks, ReturnRequest DEF IInv
<1> QED BY <1>2, <1>3, <1>4 DEF Refund

LEMMA OutsideInv ==
    ASSUME IInv,
           \/ \E w \in Workers : Abandon(w)
           \/ \E o \in Orders : BuyerApproves(o) \/ CaptureSettles(o)
           \/ \E e \in Refunds \cup Disputes : ConsoleRefundOrDispute(e)
    PROVE  IInv'
<1>1. TypeOK' /\ TypeOK
  BY ProviderType DEF IInv
<1>2. UNCHANGED books /\ handler' = handler /\ identities' = identities
  BY DEF Abandon, BuyerApproves, CaptureSettles, ConsoleRefundOrDispute, books, mail
<1>3. ASSUME NEW w \in Workers, Abandon(w) PROVE ProviderInv' /\ RequestInv'
  <2>1. ProviderInv' /\ ProviderKeeps
    BY <1>2, <1>3 DEF Abandon, IInv, ProviderInv, ProviderKeeps
  <2> QED BY <1>3, <2>1, ReturnRequest DEF Abandon
<1>4. ASSUME NEW o \in Orders, BuyerApproves(o) \/ CaptureSettles(o)
      PROVE  ProviderInv' /\ RequestInv'
  <2>1. ProviderInv' /\ ProviderKeeps
    BY <1>1, <1>2, <1>4
    DEF BuyerApproves, CaptureSettles, IInv, ProviderInv, ProviderKeeps, TypeOK
  <2> QED BY <1>4, <2>1, SameRequests DEF BuyerApproves, CaptureSettles
<1>5. ASSUME NEW e \in Refunds \cup Disputes, ConsoleRefundOrDispute(e)
      PROVE  ProviderInv' /\ RequestInv'
  <2>1. ProviderInv' /\ ProviderKeeps
    BY <1>2, <1>5, DistinctIds DEF ConsoleRefundOrDispute, IInv, ProviderInv, ProviderKeeps
  <2> QED BY <1>5, <2>1, SameRequests DEF ConsoleRefundOrDispute
<1> QED BY <1>1, <1>2, <1>3, <1>4, <1>5, SameBooks DEF IInv

LEMMA WebhookInv ==
    ASSUME IInv, NEW e \in Events, Webhook(e)
    PROVE  IInv'
<1>1. TypeOK' /\ TypeOK
  BY WebhookType DEF IInv
<1>2. paypal' = paypal /\ sent' = sent /\ request' = request
  BY DEF Webhook, Deliver, HandleCapture, HandleRefund, HandleDispute, Applied,
         HandlerThrows, MarkProcessed, Answer, MarkFailed, HandlerDies
<1>3. e \in Orders /\ handler'[e] # "idle" => e \in sent
  BY <1>1 DEF Webhook, Deliver, HandleCapture, HandleRefund, HandleDispute, Applied,
         HandlerThrows, MarkProcessed, Answer, MarkFailed, HandlerDies,
         IInv, ProviderInv, TypeOK
<1>4. \A x \in Events : x # e => handler'[x] = handler[x]
  BY <1>1 DEF Webhook, Deliver, HandleCapture, HandleRefund, HandleDispute, Applied,
         HandlerThrows, MarkProcessed, Answer, MarkFailed, HandlerDies, TypeOK
<1>5. CASE UNCHANGED books
  <2>1. identities' = identities
    BY <1>5 DEF books
  <2>2. ProviderInv' /\ ProviderKeeps
    BY <1>2, <1>3, <1>4, <2>1 DEF IInv, ProviderInv, ProviderKeeps, Events
  <2> QED BY <1>1, <1>2, <1>5, <2>2, SameBooks, SameRequests DEF IInv
<1>6. CASE e \in Orders /\ HandleCapture(e)
  <2>1. FinalizeCapture(e) /\ paypal[e] = "captured"
    BY <1>6 DEF HandleCapture, Applied, IInv, ProviderInv
  <2>2. ProviderInv' /\ ProviderKeeps
    BY <1>2, <1>3, <1>4, <1>6, <2>1, FinalizeKeeps DEF IInv, ProviderInv, ProviderKeeps, Events
  <2> QED BY <1>1, <1>2, <1>6, <2>1, <2>2, FinalizeBooks, SameRequests DEF IInv
<1>7. CASE e \in Refunds /\ HandleRefund(e) /\ ~UNCHANGED books
  <2>1. /\ OrderOf[e] \in identities /\ ~RefundTooLarge(e) /\ ApplyRefund(e, "webhook")
    BY <1>7, MoneyAssumption DEF HandleRefund, Flag, IInv, BooksInv, OrderBooks
  <2>2. ProviderInv' /\ ProviderKeeps
    BY <1>2, <1>3, <1>4, <1>7, <2>1, RefundKeeps DEF IInv, ProviderInv, ProviderKeeps, Events
  <2> QED BY <1>1, <1>2, <1>7, <2>1, <2>2, RefundBooks, SameRequests DEF IInv
<1>8. CASE e \in Disputes /\ HandleDispute(e) /\ ~UNCHANGED books
  <2>1. OrderOf[e] \in identities /\ ApplyDispute(e)
    BY <1>8, MoneyAssumption DEF HandleDispute, Flag, IInv, BooksInv, OrderBooks
  <2>2. ProviderInv' /\ ProviderKeeps
    BY <1>2, <1>3, <1>4, <1>8, <2>1, DisputeKeeps, DistinctIds
    DEF IInv, ProviderInv, ProviderKeeps, Events
  <2> QED BY <1>1, <1>2, <1>8, <2>1, <2>2, DisputeBooks, SameRequests DEF IInv
<1> QED
  BY <1>5, <1>6, <1>7, <1>8
  DEF Webhook, Deliver, HandlerThrows, MarkProcessed, Answer, MarkFailed, HandlerDies

LEMMA InitInv == Init => IInv
<1> SUFFICES ASSUME Init PROVE IInv
  OBVIOUS
<1>1. TypeOK
  BY TypeInit
<1>2. \A o \in Orders : ~Disputed(o) /\ ~FullyRefunded(o)
  <2>1. identities = {} /\ \A o \in Orders : refunded[o] = 0
    BY DEF Init
  <2>2. \A o \in Orders : ~Disputed(o)
    BY <2>1 DEF Disputed
  <2>3. ASSUME NEW o \in Orders PROVE ~FullyRefunded(o)
    BY <2>1, MoneyAssumption DEF FullyRefunded
  <2> QED BY <2>2, <2>3
<1>3. PriceInv /\ ProviderInv /\ BooksInv
  BY <1>2 DEF Init, PriceInv, ProviderInv, BooksInv, OrderBooks, Events
<1>4. RequestInv
  BY DEF Init, RequestInv, At, Idle
<1> QED BY <1>1, <1>3, <1>4 DEF IInv

LEMMA NextInv == IInv /\ [Next]_vars => IInv'
<1> SUFFICES ASSUME IInv, [Next]_vars PROVE IInv'
  OBVIOUS
<1>1. CASE UNCHANGED vars
  <2>1. UNCHANGED books /\ paypal' = paypal /\ sent' = sent /\ request' = request
        /\ handler' = handler /\ identities' = identities
    BY <1>1 DEF vars, books, mail
  <2>2. ProviderInv' /\ ProviderKeeps
    BY <2>1 DEF IInv, ProviderInv, ProviderKeeps
  <2>3. TypeOK'
    BY TypeNext DEF IInv
  <2> QED BY <2>1, <2>2, <2>3, SameBooks, SameRequests DEF IInv
<1>2. CASE Next
  BY <1>2, CheckoutInv, CaptureInv, RefundInv, OutsideInv, WebhookInv DEF Next
<1> QED BY <1>1, <1>2

LEMMA Invariance == Spec => []IInv
BY InitInv, NextInv, PTL DEF Spec

\* A completed order is delivered: its buyer has access and its creator a sale.
THEOREM CompletedOrdersAreDelivered == Spec => []CompletedMeansDelivered
<1>1. IInv => CompletedMeansDelivered
  BY DEF IInv, BooksInv, OrderBooks, CompletedMeansDelivered
<1> QED BY <1>1, Invariance, PTL

\* Once a full refund or a dispute is recorded, the buyer's access is over.
THEOREM ReversalEndsAccess == Spec => []RecordedReversalEndsAccess
<1>1. IInv => RecordedReversalEndsAccess
  BY DEF IInv, BooksInv, OrderBooks, RecordedReversalEndsAccess, Grounds
<1> QED BY <1>1, Invariance, PTL
-----------------------------------------------------------------------------
(* MarketplaceOrders implements PurchaseAccess.                             *)

PaidOrders == {o \in Orders : paypal[o] = "captured"}

\* What a step may do to the access of order o.
AccessStep(o) ==
    \/ entitlement' = entitlement
    \/ entitlement[o] = "none" /\ entitlement' = [entitlement EXCEPT ![o] = "active"]
    \/ entitlement[o] = "active" /\ entitlement' = [entitlement EXCEPT ![o] = "revoked"]

LEMMA EntitlementSteps ==
    ASSUME TypeOK, NEW o \in Orders
    PROVE  EnsureEntitlement(o) \/ RevokeEntitlement(o) => AccessStep(o)
BY DEF EnsureEntitlement, RevokeEntitlement, AccessStep, TypeOK

\* A transaction changes the access of one order at most.
LEMMA TransactionAccess ==
    ASSUME TypeOK
    PROVE  /\ \A o \in Orders :
                CompleteFreeOrder(o) \/ FinalizeCapture(o) => AccessStep(o)
           /\ \A r \in Refunds, key \in {"operator", "webhook"} :
                ApplyRefund(r, key) => AccessStep(OrderOf[r])
           /\ \A d \in Disputes : ApplyDispute(d) => AccessStep(OrderOf[d])
<1>1. ASSUME NEW o \in Orders, CompleteFreeOrder(o) \/ FinalizeCapture(o)
      PROVE  AccessStep(o)
  <2>1. EnsureEntitlement(o) \/ entitlement' = entitlement
    BY <1>1 DEF CompleteFreeOrder, FinalizeCapture, books
  <2> QED BY <2>1, EntitlementSteps DEF AccessStep
<1>2. ASSUME NEW r \in Refunds, NEW key \in {"operator", "webhook"}, ApplyRefund(r, key)
      PROVE  AccessStep(OrderOf[r])
  <2>1. RevokeEntitlement(OrderOf[r]) \/ entitlement' = entitlement
    BY <1>2 DEF ApplyRefund, books
  <2>2. OrderOf[r] \in Orders
    BY MoneyAssumption
  <2> QED BY <2>1, <2>2, EntitlementSteps DEF AccessStep
<1>3. ASSUME NEW d \in Disputes, ApplyDispute(d) PROVE AccessStep(OrderOf[d])
  <2>1. RevokeEntitlement(OrderOf[d]) \/ entitlement' = entitlement
    BY <1>3 DEF ApplyDispute, books
  <2>2. OrderOf[d] \in Orders
    BY MoneyAssumption
  <2> QED BY <2>1, <2>2, EntitlementSteps DEF AccessStep
<1> QED BY <1>1, <1>2, <1>3

\* An access step, with nothing new at the provider, is Grant or Withdraw.
LEMMA AccessRefines ==
    ASSUME IInv, IInv', NEW o \in Orders, AccessStep(o), paypal' = paypal
    PROVE  Purchase!Next \/ UNCHANGED Purchase!vars
<1>1. Grounds = {x \in Orders : entitlement[x] = "revoked"}
  BY DEF IInv, BooksInv, OrderBooks, Grounds
<1>2. Grounds' = {x \in Orders : entitlement'[x] = "revoked"}
  BY DEF IInv, BooksInv, OrderBooks, Grounds
<1>3. entitlement \in [Orders -> {"none", "active", "revoked"}]
  BY DEF IInv, TypeOK
<1>4. CASE entitlement' = entitlement
  BY <1>1, <1>2, <1>4 DEF Purchase!vars
<1>5. CASE entitlement[o] = "none" /\ entitlement' = [entitlement EXCEPT ![o] = "active"]
  <2>1. o \in PaidOrders \cup FreeOrders
    BY <1>3, <1>5 DEF IInv, BooksInv, OrderBooks, ProviderInv, PaidOrders, FreeOrders
  <2>2. Grounds' = Grounds
    BY <1>1, <1>2, <1>3, <1>5
  <2> QED BY <1>5, <2>1, <2>2 DEF Purchase!Next, Purchase!Grant, PaidOrders
<1>6. CASE entitlement[o] = "active" /\ entitlement' = [entitlement EXCEPT ![o] = "revoked"]
  <2>1. Grounds' = Grounds \cup {o}
    BY <1>1, <1>2, <1>3, <1>6
  <2> QED BY <1>6, <2>1 DEF Purchase!Next, Purchase!Withdraw
<1> QED BY <1>4, <1>5, <1>6 DEF AccessStep

\* A step that leaves access alone is Pay or a stutter.
LEMMA PaymentRefines ==
    ASSUME IInv, IInv', entitlement' = entitlement, NEW o \in Orders,
           PaidOrders' \in {PaidOrders, PaidOrders \cup {o}}
    PROVE  Purchase!Next \/ UNCHANGED Purchase!vars
<1>1. Grounds = {x \in Orders : entitlement[x] = "revoked"}
  BY DEF IInv, BooksInv, OrderBooks, Grounds
<1>2. Grounds' = {x \in Orders : entitlement'[x] = "revoked"}
  BY DEF IInv, BooksInv, OrderBooks, Grounds
<1>3. Grounds' = Grounds
  BY <1>1, <1>2
<1> QED BY <1>3 DEF Purchase!Next, Purchase!Pay, Purchase!vars, PaidOrders

LEMMA StepRefines ==
    IInv /\ IInv' /\ [Next]_vars => [Purchase!Next]_Purchase!vars
<1> SUFFICES ASSUME IInv, IInv', [Next]_vars
             PROVE  Purchase!Next \/ UNCHANGED Purchase!vars
  OBVIOUS
<1>0. TypeOK
  BY DEF IInv
<1>1. CASE UNCHANGED vars
  <2>1. paypal' = paypal /\ entitlement' = entitlement /\ Grounds' = Grounds
    BY <1>1 DEF vars, books, Grounds, FullyRefunded, Disputed
  <2> QED BY <2>1 DEF Purchase!vars
<1>2. ASSUME NEW w \in Workers, NEW o \in Orders, Checkout(w, o)
      PROVE  Purchase!Next \/ UNCHANGED Purchase!vars
  <2>1. CASE CompleteFree(w, o)
    BY <1>0, <2>1, TransactionAccess, AccessRefines DEF CompleteFree
  <2>2. CASE ~CompleteFree(w, o)
    <3>1. entitlement' = entitlement
      BY <1>2, <2>2
      DEF Checkout, StartCheckout, InsertOrder, CreateAtProvider, LinkOrder, books
    <3>2. paypal' = paypal \/ paypal' = [paypal EXCEPT ![o] = IF @ = "none" THEN "created" ELSE @]
      BY <1>2, <2>2
      DEF Checkout, StartCheckout, InsertOrder, CreateAtProvider, LinkOrder
    <3>3. PaidOrders' = PaidOrders
      BY <1>0, <3>2 DEF PaidOrders, TypeOK
    <3> QED BY <3>1, <3>3, PaymentRefines
  <2> QED BY <2>1, <2>2
<1>3. ASSUME NEW w \in Workers, NEW o \in Orders, Capture(w, o)
      PROVE  Purchase!Next \/ UNCHANGED Purchase!vars
  <2>1. CASE Finalize(w, o)
    BY <1>0, <2>1, TransactionAccess, AccessRefines DEF Finalize
  <2>2. CASE ~Finalize(w, o)
    <3>1. entitlement' = entitlement
      BY <1>3, <2>2 DEF Capture, StartCapture, CaptureAtProvider, FinalizeMismatch, books
    <3>2. \/ paypal' = paypal
          \/ paypal' = [paypal EXCEPT ![o] = "captured"]
          \/ paypal[o] # "captured" /\ paypal' = [paypal EXCEPT ![o] = "pending"]
      BY <1>3, <2>2 DEF Capture, StartCapture, CaptureAtProvider, FinalizeMismatch
    <3>3. PaidOrders' \in {PaidOrders, PaidOrders \cup {o}}
      BY <1>0, <3>2 DEF PaidOrders, TypeOK
    <3> QED BY <3>1, <3>3, PaymentRefines
  <2> QED BY <2>1, <2>2
<1>4. ASSUME NEW w \in Workers, NEW r \in Refunds, Refund(w, r)
      PROVE  Purchase!Next \/ UNCHANGED Purchase!vars
  <2>1. paypal' = paypal /\ OrderOf[r] \in Orders
    BY <1>4, MoneyAssumption DEF Refund, StartRefund, RefundAtProvider, ApplyOperatorRefund
  <2>2. AccessStep(OrderOf[r])
    BY <1>0, <1>4, TransactionAccess
    DEF Refund, StartRefund, RefundAtProvider, ApplyOperatorRefund, AccessStep, books
  <2> QED BY <2>1, <2>2, AccessRefines
<1>5. ASSUME NEW e \in Events, Webhook(e)
      PROVE  Purchase!Next \/ UNCHANGED Purchase!vars
  <2>1. paypal' = paypal
    BY <1>5 DEF Webhook, Deliver, HandleCapture, HandleRefund, HandleDispute, Applied,
       HandlerThrows, MarkProcessed, Answer, MarkFailed, HandlerDies
  <2>2. \/ entitlement' = entitlement
        \/ e \in Orders /\ AccessStep(e)
        \/ e \in Refunds \cup Disputes /\ AccessStep(OrderOf[e])
    <3>1. CASE e \in Orders /\ HandleCapture(e)
      BY <1>0, <3>1, TransactionAccess DEF HandleCapture
    <3>2. CASE e \in Refunds /\ HandleRefund(e)
      BY <1>0, <3>2, TransactionAccess DEF HandleRefund, Flag, books
    <3>3. CASE e \in Disputes /\ HandleDispute(e)
      BY <1>0, <3>3, TransactionAccess DEF HandleDispute, Flag, books
    <3>4. CASE Deliver(e) \/ HandlerThrows(e) \/ MarkProcessed(e) \/ Answer(e)
                 \/ MarkFailed(e) \/ HandlerDies(e)
      BY <3>4 DEF Deliver, HandlerThrows, MarkProcessed, Answer, MarkFailed, HandlerDies, books
    <3> QED BY <1>5, <3>1, <3>2, <3>3, <3>4 DEF Webhook
  <2>3. \A x \in Refunds \cup Disputes : OrderOf[x] \in Orders
    BY MoneyAssumption
  <2>4. CASE entitlement' = entitlement
    <3>1. \/ \E x \in Orders : AccessStep(x)
          \/ Orders = {}
      BY <2>4 DEF AccessStep
    <3>2. CASE Orders = {}
      BY <2>1, <2>4, <3>2 DEF Purchase!vars, Grounds
    <3> QED BY <2>1, <3>1, <3>2, AccessRefines
  <2> QED BY <2>1, <2>2, <2>3, <2>4, AccessRefines
<1>6. ASSUME \/ \E w \in Workers : Abandon(w)
             \/ \E e \in Refunds \cup Disputes : ConsoleRefundOrDispute(e)
      PROVE  Purchase!Next \/ UNCHANGED Purchase!vars
  <2>1. paypal' = paypal /\ UNCHANGED books
    BY <1>6 DEF Abandon, ConsoleRefundOrDispute
  <2>2. entitlement' = entitlement /\ Grounds' = Grounds
    BY <2>1 DEF books, Grounds, FullyRefunded, Disputed
  <2> QED BY <2>1, <2>2 DEF Purchase!vars
<1>7. ASSUME NEW o \in Orders, BuyerApproves(o) \/ CaptureSettles(o)
      PROVE  Purchase!Next \/ UNCHANGED Purchase!vars
  <2>1. entitlement' = entitlement
    BY <1>7 DEF BuyerApproves, CaptureSettles, books
  <2>2. PaidOrders' \in {PaidOrders, PaidOrders \cup {o}}
    BY <1>0, <1>7 DEF BuyerApproves, CaptureSettles, PaidOrders, TypeOK
  <2> QED BY <2>1, <2>2, PaymentRefines
<1> QED BY <1>1, <1>2, <1>3, <1>4, <1>5, <1>6, <1>7 DEF Next

LEMMA InitRefines == Init => Purchase!Init
<1> SUFFICES ASSUME Init PROVE Purchase!Init
  OBVIOUS
<1>1. IInv
  BY InitInv
<1>2. Grounds = {}
  BY <1>1 DEF Init, IInv, BooksInv, OrderBooks, Grounds
<1> QED BY <1>2 DEF Init, Purchase!Init

\* Whatever requests, webhooks, retries and crashes do, access to a purchase is
\* given once, against captured money or for free, and never comes back after
\* a full refund or a dispute.
THEOREM OrdersImplementPurchaseAccess == Spec => ImplementsPurchaseAccess
BY InitRefines, StepRefines, Invariance, PTL DEF Spec, Purchase!Spec, ImplementsPurchaseAccess
-----------------------------------------------------------------------------
(* The creator's and the platform's books balance.                          *)

LEMMA DivMonotone ==
    \A a, b \in Nat, c \in Nat \ {0} : a <= b => a \div c <= b \div c
OBVIOUS

LEMMA DivShift ==
    \A a, k \in Nat, c \in Nat \ {0} : (a + c * k) \div c = (a \div c) + k
OBVIOUS

\* Refunding k more of the price takes back at most k more of the fee, no
\* negative part of it, and the whole price takes back the whole fee.
LEMMA TargetFeeShare ==
    ASSUME NEW o \in Orders, NEW a \in Nat, NEW k \in Nat, Gross[o] > 0
    PROVE  /\ TargetFee(o, 0) = 0 /\ TargetFee(o, Gross[o]) = Fee[o]
           /\ TargetFee(o, a) \in Nat /\ TargetFee(o, a + k) \in Nat
           /\ TargetFee(o, a) <= TargetFee(o, a + k)
           /\ TargetFee(o, a + k) <= TargetFee(o, a) + k
<1> DEFINE f == Fee[o]
           g == Gross[o]
<1>1. f \in Nat /\ g \in Nat \ {0} /\ f <= g
  BY MoneyAssumption
<1> HIDE DEF f, g
<1>2. (f * 0) \div g = 0 /\ (f * g) \div g = f
  BY <1>1
<1>3. /\ f * a \in Nat /\ f * (a + k) \in Nat /\ f * a + g * k \in Nat
      /\ f * a <= f * (a + k) /\ f * (a + k) <= f * a + g * k
  <2>1. f * (a + k) = f * a + f * k /\ f * k <= g * k
    BY <1>1
  <2> QED BY <1>1, <2>1
<1>4. (f * a) \div g \in Nat /\ (f * (a + k)) \div g \in Nat
  BY <1>1, <1>3
<1>5. (f * a) \div g <= (f * (a + k)) \div g
  BY <1>1, <1>3, DivMonotone
<1>6. (f * (a + k)) \div g <= (f * a + g * k) \div g
  BY <1>1, <1>3, DivMonotone
<1>7. (f * a + g * k) \div g = ((f * a) \div g) + k
  BY <1>1, <1>3, DivShift
<1> QED BY <1>2, <1>4, <1>5, <1>6, <1>7 DEF TargetFee, f, g

\* Stronger than ReversalsBalance: before a dispute the reversed fee is exactly
\* the refunded share of it, which is what makes the next refund's difference
\* come out right.
OrderBalance(o) ==
    /\ refunded[o] <= Gross[o]
    /\ IF Disputed(o)
       THEN ledger[o].fee = Fee[o] /\ ledger[o].creator = Gross[o] - Fee[o]
       ELSE /\ Gross[o] > 0 => ledger[o].fee = TargetFee(o, refunded[o])
            /\ Gross[o] = 0 => ledger[o].fee = 0
            /\ ledger[o].creator = refunded[o] - ledger[o].fee

BalanceInv == \A o \in Orders : OrderBalance(o)

LEMMA KeptBalance ==
    ASSUME BalanceInv, NEW x \in Orders, refunded'[x] = refunded[x],
           ledger'[x].fee = ledger[x].fee, ledger'[x].creator = ledger[x].creator,
           Disputed(x)' <=> Disputed(x)
    PROVE  OrderBalance(x)'
BY DEF BalanceInv, OrderBalance, TargetFee

LEMMA RefundBalance ==
    ASSUME IInv, BalanceInv, NEW r \in Refunds, NEW key,
           ~RefundTooLarge(r), ApplyRefund(r, key), refundRow[r] = "absent"
    PROVE  BalanceInv'
<1> DEFINE o == OrderOf[r]
           k == Amount[r]
           cum == refunded[o] + k
<1>1. /\ o \in Orders /\ k \in Nat /\ refunded[o] \in Nat /\ cum <= Gross[o] /\ Gross[o] > 0
      /\ Gross[o] \in Nat /\ Fee[o] \in Nat /\ Fee[o] <= Gross[o]
      /\ ledger[o] \in LedgerRow
  BY MoneyAssumption DEF RefundTooLarge, IInv, TypeOK
<1>2. /\ refunded' = [refunded EXCEPT ![o] = cum] /\ identities' = identities
      /\ Reverse(o, FeeReversal(o, cum), CreatorReversal(o, cum))
  BY DEF ApplyRefund
<1>3. \A x \in Orders : Disputed(x)' <=> Disputed(x)
  BY <1>2 DEF Disputed
<1> HIDE DEF o, k
<1>4. /\ ledger'[o].fee = ledger[o].fee + FeeReversal(o, cum)
      /\ ledger'[o].creator = ledger[o].creator + CreatorReversal(o, cum)
      /\ refunded'[o] = cum
      /\ \A x \in Orders : x # o => ledger'[x] = ledger[x] /\ refunded'[x] = refunded[x]
  BY <1>1, <1>2 DEF Reverse, IInv, TypeOK
<1>5. OrderBalance(o)
  BY <1>1 DEF BalanceInv
<1>6. /\ TargetFee(o, refunded[o]) \in Nat /\ TargetFee(o, cum) \in Nat
      /\ TargetFee(o, refunded[o]) <= TargetFee(o, cum)
      /\ TargetFee(o, cum) <= TargetFee(o, refunded[o]) + k
  BY <1>1, TargetFeeShare
<1>7. TargetFee(o, cum) <= Fee[o] /\ cum - TargetFee(o, cum) <= Gross[o] - Fee[o]
  <2> DEFINE rest == Gross[o] - cum
  <2>1. rest \in Nat /\ cum \in Nat /\ cum + rest = Gross[o]
    BY <1>1
  <2> HIDE DEF rest, cum
  <2>2. /\ TargetFee(o, cum) <= TargetFee(o, cum + rest)
        /\ TargetFee(o, cum + rest) <= TargetFee(o, cum) + rest
        /\ TargetFee(o, Gross[o]) = Fee[o] /\ TargetFee(o, cum) \in Nat
    BY <1>1, <2>1, TargetFeeShare
  <2>3. TargetFee(o, cum + rest) = Fee[o]
    BY <2>1, <2>2
  <2> QED BY <1>1, <2>1, <2>2, <2>3
<1>8. OrderBalance(o)'
  <2>1. CASE Disputed(o)
    <3>1. FeeReversal(o, cum) = 0 /\ CreatorReversal(o, cum) = 0
      BY <1>1, <1>5, <1>6, <1>7, <2>1
      DEF OrderBalance, FeeReversal, CreatorReversal, AtLeastZero, LedgerRow
    <3> QED BY <1>1, <1>3, <1>4, <1>5, <2>1, <3>1 DEF OrderBalance, LedgerRow
  <2>2. CASE ~Disputed(o)
    <3>1. /\ ledger[o].fee = TargetFee(o, refunded[o])
          /\ ledger[o].creator = refunded[o] - TargetFee(o, refunded[o])
      BY <1>1, <1>5, <2>2 DEF OrderBalance
    <3>2. /\ FeeReversal(o, cum) = TargetFee(o, cum) - TargetFee(o, refunded[o])
          /\ CreatorReversal(o, cum) = (cum - TargetFee(o, cum)) - ledger[o].creator
      BY <1>1, <1>6, <3>1 DEF FeeReversal, CreatorReversal, AtLeastZero
    <3>3. /\ ledger'[o].fee = TargetFee(o, cum)
          /\ ledger'[o].creator = cum - TargetFee(o, cum)
      BY <1>1, <1>4, <1>6, <3>1, <3>2
    <3>4. TargetFee(o, refunded[o])' = TargetFee(o, cum)
      BY <1>4 DEF TargetFee
    <3> QED BY <1>1, <1>3, <1>4, <2>2, <3>3, <3>4 DEF OrderBalance
  <2> QED BY <2>1, <2>2
<1>9. ASSUME NEW x \in Orders, x # o PROVE OrderBalance(x)'
  BY <1>3, <1>4, <1>9, KeptBalance
<1> QED BY <1>8, <1>9 DEF BalanceInv

LEMMA DisputeBalance ==
    ASSUME IInv, BalanceInv, NEW d \in Disputes, ApplyDispute(d), d \notin identities
    PROVE  BalanceInv'
<1> DEFINE o == OrderOf[d]
           fee == AtLeastZero(Fee[o] - ledger[o].fee)
           creator == AtLeastZero((Gross[o] - Fee[o]) - ledger[o].creator)
<1>1. /\ o \in Orders /\ refunded[o] \in Nat
      /\ Gross[o] \in Nat /\ Fee[o] \in Nat /\ Fee[o] <= Gross[o]
      /\ ledger[o].fee \in Nat /\ ledger[o].creator \in Nat
  BY MoneyAssumption DEF IInv, TypeOK, LedgerRow
<1>2. Reverse(o, fee, creator) /\ refunded' = refunded /\ identities' = identities \cup {d}
  BY DEF ApplyDispute
<1>3. Disputed(o)'
  BY <1>2 DEF Disputed
<1>4. \A x \in Orders : x # o => (Disputed(x)' <=> Disputed(x))
  BY <1>2 DEF Disputed
<1>5. /\ ledger'[o].fee = ledger[o].fee + fee
      /\ ledger'[o].creator = ledger[o].creator + creator
      /\ \A x \in Orders : x # o => ledger'[x] = ledger[x]
  <2> HIDE DEF o, fee, creator
  <2> QED BY <1>1, <1>2 DEF Reverse, IInv, TypeOK
<1>6. ledger[o].fee <= Fee[o] /\ ledger[o].creator <= Gross[o] - Fee[o]
  <2>1. OrderBalance(o)
    BY <1>1 DEF BalanceInv
  <2> HIDE DEF o
  <2>2. CASE Disputed(o) \/ Gross[o] = 0
    BY <1>1, <2>1, <2>2 DEF OrderBalance
  <2>3. CASE ~Disputed(o) /\ Gross[o] > 0
    <3> DEFINE rest == Gross[o] - refunded[o]
    <3>1. rest \in Nat /\ refunded[o] + rest = Gross[o]
      BY <1>1, <2>1 DEF OrderBalance
    <3> HIDE DEF rest
    <3>2. /\ TargetFee(o, refunded[o]) <= TargetFee(o, refunded[o] + rest)
          /\ TargetFee(o, refunded[o] + rest) <= TargetFee(o, refunded[o]) + rest
          /\ TargetFee(o, Gross[o]) = Fee[o]
          /\ TargetFee(o, refunded[o]) \in Nat
      BY <1>1, <2>3, <3>1, TargetFeeShare
    <3>3. TargetFee(o, refunded[o] + rest) = Fee[o]
      BY <3>1, <3>2
    <3> QED BY <1>1, <2>1, <2>3, <3>1, <3>2, <3>3 DEF OrderBalance
  <2> QED BY <1>1, <2>2, <2>3
<1>7. OrderBalance(o)'
  <2>1. OrderBalance(o)
    BY <1>1 DEF BalanceInv
  <2> QED BY <1>1, <1>2, <1>3, <1>5, <1>6, <2>1 DEF OrderBalance, AtLeastZero
<1>8. ASSUME NEW x \in Orders, x # o PROVE OrderBalance(x)'
  BY <1>2, <1>4, <1>5, <1>8, KeptBalance
<1> QED BY <1>7, <1>8 DEF BalanceInv

\* A step either leaves the money as it is or applies one refund or dispute.
MoneyKept ==
    /\ refunded' = refunded
    /\ \A x \in Orders : /\ ledger'[x].fee = ledger[x].fee
                         /\ ledger'[x].creator = ledger[x].creator
                         /\ Disputed(x)' <=> Disputed(x)

Refunding ==
    \E r \in Refunds, key \in {"operator", "webhook"} :
        refundRow[r] = "absent" /\ ~RefundTooLarge(r) /\ ApplyRefund(r, key)

Disputing == \E d \in Disputes : d \notin identities /\ ApplyDispute(d)

LEMMA MoneySteps ==
    ASSUME IInv, [Next]_vars
    PROVE  MoneyKept \/ Refunding \/ Disputing
<1>1. ASSUME refunded' = refunded, ledger' = ledger, identities' = identities PROVE MoneyKept
  BY <1>1 DEF Disputed, MoneyKept
<1>2. ASSUME UNCHANGED books PROVE MoneyKept
  BY <1>1, <1>2 DEF books
<1>3. ASSUME NEW o \in Orders, FinalizeCapture(o) PROVE MoneyKept
  <2>1. CASE UNCHANGED books
    BY <1>2, <2>1
  <2>2. CASE ~UNCHANGED books
    <3>1. /\ refunded' = refunded /\ identities' = identities \cup {o}
          /\ ledger' = [ledger EXCEPT ![o].sold = TRUE]
      BY <1>3, <2>2 DEF FinalizeCapture
    <3>2. \A x \in Orders : Disputed(x)' <=> Disputed(x)
      BY <3>1, DistinctIds DEF Disputed
    <3>3. \A x \in Orders : /\ ledger'[x].fee = ledger[x].fee
                            /\ ledger'[x].creator = ledger[x].creator
      BY <3>1 DEF IInv, TypeOK, LedgerRow
    <3> QED BY <3>1, <3>2, <3>3 DEF MoneyKept
  <2> QED BY <2>1, <2>2
<1>4. ASSUME UNCHANGED vars PROVE MoneyKept
  BY <1>2, <1>4 DEF vars
<1>5. ASSUME NEW w \in Workers, NEW o \in Orders, Checkout(w, o) PROVE MoneyKept
  BY <1>1, <1>5
  DEF Checkout, StartCheckout, InsertOrder, CompleteFree, CompleteFreeOrder,
      CreateAtProvider, LinkOrder, books
<1>6. ASSUME NEW w \in Workers, NEW o \in Orders, Capture(w, o) PROVE MoneyKept
  BY <1>2, <1>3, <1>6
  DEF Capture, StartCapture, CaptureAtProvider, Finalize, FinalizeMismatch
<1>7. ASSUME NEW w \in Workers, NEW r \in Refunds, Refund(w, r)
      PROVE  \/ MoneyKept
             \/ refundRow[r] = "absent" /\ ~RefundTooLarge(r) /\ ApplyRefund(r, "operator")
  <2>1. UNCHANGED books \/ (~RefundTooLarge(r) /\ ApplyRefund(r, "operator"))
    BY <1>7 DEF Refund, StartRefund, RefundAtProvider, ApplyOperatorRefund
  <2>2. ApplyRefund(r, "operator") /\ refundRow[r] # "absent" => UNCHANGED books
    BY DEF ApplyRefund
  <2> QED BY <1>2, <2>1, <2>2
<1>8. ASSUME NEW e \in Events, Webhook(e)
      PROVE  \/ MoneyKept
             \/ /\ e \in Refunds /\ refundRow[e] = "absent" /\ ~RefundTooLarge(e)
                /\ ApplyRefund(e, "webhook")
             \/ e \in Disputes /\ e \notin identities /\ ApplyDispute(e)
  <2>1. \/ UNCHANGED books
        \/ e \in Orders /\ FinalizeCapture(e)
        \/ e \in Refunds /\ ~RefundTooLarge(e) /\ ApplyRefund(e, "webhook")
        \/ e \in Disputes /\ ApplyDispute(e)
    BY <1>8 DEF Webhook, Deliver, HandleCapture, HandleRefund, HandleDispute, Flag,
       HandlerThrows, MarkProcessed, Answer, MarkFailed, HandlerDies
  <2>2. ApplyRefund(e, "webhook") /\ refundRow[e] # "absent" => UNCHANGED books
    BY DEF ApplyRefund
  <2>3. ApplyDispute(e) /\ e \in identities => UNCHANGED books
    BY DEF ApplyDispute
  <2> QED BY <1>2, <1>3, <2>1, <2>2, <2>3
<1>9. ASSUME \/ \E w \in Workers : Abandon(w)
             \/ \E o \in Orders : BuyerApproves(o) \/ CaptureSettles(o)
             \/ \E e \in Refunds \cup Disputes : ConsoleRefundOrDispute(e)
      PROVE  MoneyKept
  BY <1>2, <1>9 DEF Abandon, BuyerApproves, CaptureSettles, ConsoleRefundOrDispute
<1>10. \A w \in Workers, r \in Refunds : Refund(w, r) => MoneyKept \/ Refunding
  BY <1>7 DEF Refunding
<1>11. \A e \in Events : Webhook(e) => MoneyKept \/ Refunding \/ Disputing
  BY <1>8 DEF Refunding, Disputing
<1> QED BY <1>4, <1>5, <1>6, <1>9, <1>10, <1>11 DEF Next

LEMMA InitBalance == Init => BalanceInv
<1> SUFFICES ASSUME Init, NEW o \in Orders PROVE OrderBalance(o)
  BY DEF BalanceInv
<1>1. ~Disputed(o) /\ refunded[o] = 0 /\ ledger[o].fee = 0 /\ ledger[o].creator = 0
  BY DEF Init, Disputed
<1>2. Gross[o] > 0 => TargetFee(o, 0) = 0
  BY TargetFeeShare
<1> QED BY <1>1, <1>2, MoneyAssumption DEF OrderBalance

LEMMA NextBalance == IInv /\ BalanceInv /\ [Next]_vars => BalanceInv'
<1> SUFFICES ASSUME IInv, BalanceInv, [Next]_vars PROVE BalanceInv'
  OBVIOUS
<1>1. ASSUME MoneyKept, NEW x \in Orders PROVE OrderBalance(x)'
  BY <1>1, KeptBalance DEF MoneyKept
<1>2. Refunding => BalanceInv'
  <2> SUFFICES ASSUME NEW r \in Refunds, NEW key \in {"operator", "webhook"},
                      refundRow[r] = "absent", ~RefundTooLarge(r), ApplyRefund(r, key)
               PROVE  BalanceInv'
    BY DEF Refunding
  <2> QED BY RefundBalance
<1>3. Disputing => BalanceInv'
  BY DisputeBalance DEF Disputing
<1> QED BY <1>1, <1>2, <1>3, MoneySteps DEF BalanceInv

\* What is taken back from the platform and from the creator is exactly what
\* was refunded, and exactly the price once a dispute is recorded, whatever the
\* prices, fees and refunds are and in whatever order they are applied.
THEOREM BooksBalance == Spec => []ReversalsBalance
<1>1. ASSUME IInv, BalanceInv PROVE ReversalsBalance
  <2> SUFFICES ASSUME NEW o \in Orders
               PROVE  /\ refunded[o] <= Gross[o]
                      /\ ledger[o].fee <= Fee[o]
                      /\ ledger[o].creator <= Gross[o] - Fee[o]
                      /\ ledger[o].fee + ledger[o].creator =
                           IF Disputed(o) THEN Gross[o] ELSE refunded[o]
    BY DEF ReversalsBalance
  <2>1. /\ OrderBalance(o) /\ refunded[o] \in Nat
        /\ Gross[o] \in Nat /\ Fee[o] \in Nat /\ Fee[o] <= Gross[o]
        /\ ledger[o].fee \in Nat /\ ledger[o].creator \in Nat
    BY <1>1, MoneyAssumption DEF IInv, TypeOK, BalanceInv, LedgerRow
  <2>2. CASE Disputed(o) \/ Gross[o] = 0
    BY <2>1, <2>2 DEF OrderBalance
  <2>3. CASE ~Disputed(o) /\ Gross[o] > 0
    <3> DEFINE rest == Gross[o] - refunded[o]
    <3>1. rest \in Nat /\ refunded[o] + rest = Gross[o]
      BY <2>1 DEF OrderBalance
    <3> HIDE DEF rest
    <3>2. /\ TargetFee(o, refunded[o]) <= TargetFee(o, refunded[o] + rest)
          /\ TargetFee(o, refunded[o] + rest) <= TargetFee(o, refunded[o]) + rest
          /\ TargetFee(o, Gross[o]) = Fee[o] /\ TargetFee(o, refunded[o]) \in Nat
      BY <2>1, <2>3, <3>1, TargetFeeShare
    <3>3. TargetFee(o, refunded[o] + rest) = Fee[o]
      BY <3>1, <3>2
    <3> QED BY <2>1, <2>3, <3>1, <3>2, <3>3 DEF OrderBalance
  <2> QED BY <2>1, <2>2, <2>3
<1>2. Spec => []BalanceInv
  BY InitBalance, NextBalance, Invariance, PTL DEF Spec
<1> QED BY <1>1, <1>2, Invariance, PTL
-----------------------------------------------------------------------------
(* Events: what is marked processed is in the books or on a person's desk. *)

\* A handler that has applied its event, and any row marked processed, stand
\* for an event that is recorded.  ProcessedMeansRecorded alone is not
\* inductive: MarkProcessed relies on what the handler did before it.
RecordInv ==
    \A e \in Events :
        inbox[e] = "processed" \/ handler[e] \in {"mark", "answer"} => Recorded(e)

\* Nothing that is recorded is ever taken out again.
RecordsKept ==
    /\ flagged \subseteq flagged'
    /\ identities \subseteq identities'
    /\ \A r \in Refunds : refundRow[r] # "absent" => refundRow'[r] # "absent"

LEMMA TransactionRecords ==
    ASSUME TypeOK
    PROVE  /\ UNCHANGED books /\ flagged \subseteq flagged' => RecordsKept
           /\ \A o \in Orders :
                CompleteFreeOrder(o) \/ FinalizeCapture(o) =>
                  /\ identities \subseteq identities'
                  /\ refundRow' = refundRow
           /\ \A r \in Refunds, key \in {"operator", "webhook"} :
                ApplyRefund(r, key) =>
                  /\ identities' = identities
                  /\ refundRow'[r] # "absent"
                  /\ \A x \in Refunds : refundRow[x] # "absent" => refundRow'[x] # "absent"
           /\ \A d \in Disputes : ApplyDispute(d) =>
                  /\ identities' = identities \cup {d}
                  /\ refundRow' = refundRow
<1>1. UNCHANGED books /\ flagged \subseteq flagged' => RecordsKept
  BY DEF books, RecordsKept
<1>2. ASSUME NEW o \in Orders, CompleteFreeOrder(o) \/ FinalizeCapture(o)
      PROVE  identities \subseteq identities' /\ refundRow' = refundRow
  BY <1>2 DEF CompleteFreeOrder, FinalizeCapture, books
<1>3. ASSUME NEW r \in Refunds, NEW key \in {"operator", "webhook"}, ApplyRefund(r, key)
      PROVE  /\ identities' = identities
             /\ refundRow'[r] # "absent"
             /\ \A x \in Refunds : refundRow[x] # "absent" => refundRow'[x] # "absent"
  <2>1. \/ UNCHANGED books /\ refundRow[r] # "absent"
        \/ refundRow' = [refundRow EXCEPT ![r] = key] /\ identities' = identities
    BY <1>3 DEF ApplyRefund
  <2> QED BY <2>1 DEF books, TypeOK
<1>4. ASSUME NEW d \in Disputes, ApplyDispute(d)
      PROVE  identities' = identities \cup {d} /\ refundRow' = refundRow
  BY <1>4 DEF ApplyDispute, books
<1> QED BY <1>1, <1>2, <1>3, <1>4

LEMMA RequestRecords ==
    ASSUME TypeOK,
           \/ \E w \in Workers :
                \/ \E o \in Orders : Checkout(w, o) \/ Capture(w, o)
                \/ \E r \in Refunds : Refund(w, r)
                \/ Abandon(w)
           \/ \E o \in Orders : BuyerApproves(o) \/ CaptureSettles(o)
           \/ \E e \in Refunds \cup Disputes : ConsoleRefundOrDispute(e)
    PROVE  RecordsKept /\ inbox' = inbox /\ handler' = handler
<1> USE DEF mail
<1>1. ASSUME NEW w \in Workers, NEW o \in Orders, Checkout(w, o)
      PROVE  RecordsKept /\ inbox' = inbox /\ handler' = handler
  BY <1>1, TransactionRecords
  DEF Checkout, StartCheckout, InsertOrder, CompleteFree, CreateAtProvider, LinkOrder,
      RecordsKept
<1>2. ASSUME NEW w \in Workers, NEW o \in Orders, Capture(w, o)
      PROVE  RecordsKept /\ inbox' = inbox /\ handler' = handler
  BY <1>2, TransactionRecords
  DEF Capture, StartCapture, CaptureAtProvider, Finalize, FinalizeMismatch, RecordsKept
<1>3. ASSUME NEW w \in Workers, NEW r \in Refunds, Refund(w, r)
      PROVE  RecordsKept /\ inbox' = inbox /\ handler' = handler
  BY <1>3, TransactionRecords
  DEF Refund, StartRefund, RefundAtProvider, ApplyOperatorRefund, RecordsKept
<1>4. ASSUME NEW w \in Workers, Abandon(w)
      PROVE  RecordsKept /\ inbox' = inbox /\ handler' = handler
  BY <1>4, TransactionRecords DEF Abandon
<1>5. ASSUME NEW o \in Orders, BuyerApproves(o) \/ CaptureSettles(o)
      PROVE  RecordsKept /\ inbox' = inbox /\ handler' = handler
  BY <1>5, TransactionRecords DEF BuyerApproves, CaptureSettles
<1>6. ASSUME NEW e \in Refunds \cup Disputes, ConsoleRefundOrDispute(e)
      PROVE  RecordsKept /\ inbox' = inbox /\ handler' = handler
  BY <1>6, TransactionRecords DEF ConsoleRefundOrDispute
<1> QED BY <1>1, <1>2, <1>3, <1>4, <1>5, <1>6

\* What a handler that applies its event leaves behind.
LEMMA AppliedRecords ==
    ASSUME IInv, NEW e \in Events,
           \/ e \in Orders /\ HandleCapture(e)
           \/ e \in Refunds /\ HandleRefund(e)
           \/ e \in Disputes /\ HandleDispute(e)
    PROVE  RecordsKept /\ Recorded(e)'
<1>0. TypeOK
  BY DEF IInv
<1>1. CASE e \in Orders /\ HandleCapture(e)
  <2>1. FinalizeCapture(e) /\ flagged' = flagged /\ Gross[e] > 0
    BY <1>1 DEF HandleCapture, Applied, IInv, ProviderInv
  <2>2. e \in identities'
    <3>1. CASE order[e].status = "completed"
      BY <1>1, <2>1, <3>1 DEF FinalizeCapture, books, IInv, BooksInv, OrderBooks
    <3>2. CASE order[e].status # "completed"
      BY <2>1, <3>2 DEF FinalizeCapture, books
    <3> QED BY <3>1, <3>2
  <2>3. RecordsKept
    BY <1>0, <1>1, <2>1, TransactionRecords DEF RecordsKept
  <2> QED BY <2>2, <2>3 DEF Recorded
<1>2. CASE e \in Refunds /\ HandleRefund(e)
  <2>1. CASE Flag(e)
    BY <1>0, <2>1, TransactionRecords DEF Flag, Recorded
  <2>2. CASE ApplyRefund(e, "webhook") /\ flagged' = flagged
    BY <1>0, <1>2, <2>2, TransactionRecords DEF RecordsKept, Recorded
  <2> QED BY <1>2, <2>1, <2>2 DEF HandleRefund
<1>3. CASE e \in Disputes /\ HandleDispute(e)
  <2>1. CASE Flag(e)
    BY <1>0, <2>1, TransactionRecords DEF Flag, Recorded
  <2>2. CASE ApplyDispute(e) /\ flagged' = flagged
    BY <1>0, <1>3, <2>2, TransactionRecords DEF RecordsKept, Recorded
  <2> QED BY <1>3, <2>1, <2>2 DEF HandleDispute
<1> QED BY <1>1, <1>2, <1>3

LEMMA NextRecords == IInv /\ RecordInv /\ [Next]_vars => RecordInv'
<1> SUFFICES ASSUME IInv, RecordInv, [Next]_vars PROVE RecordInv'
  OBVIOUS
<1>0. TypeOK
  BY DEF IInv
<1>1. ASSUME RecordsKept, NEW e \in Events, Recorded(e) PROVE Recorded(e)'
  BY <1>1 DEF RecordsKept, Recorded
<1>2. CASE UNCHANGED vars
  <2>1. RecordsKept /\ inbox' = inbox /\ handler' = handler
    BY <1>0, <1>2, TransactionRecords DEF vars, mail
  <2> QED BY <1>1, <2>1 DEF RecordInv
<1>3. CASE \/ \E w \in Workers :
                \/ \E o \in Orders : Checkout(w, o) \/ Capture(w, o)
                \/ \E r \in Refunds : Refund(w, r)
                \/ Abandon(w)
           \/ \E o \in Orders : BuyerApproves(o) \/ CaptureSettles(o)
           \/ \E e \in Refunds \cup Disputes : ConsoleRefundOrDispute(e)
  <2>1. RecordsKept /\ inbox' = inbox /\ handler' = handler
    BY <1>0, <1>3, RequestRecords
  <2> QED BY <1>1, <2>1 DEF RecordInv
<1>4. ASSUME NEW e \in Events, Webhook(e) PROVE RecordInv'
  <2>1. CASE \/ e \in Orders /\ HandleCapture(e)
             \/ e \in Refunds /\ HandleRefund(e)
             \/ e \in Disputes /\ HandleDispute(e)
    <3>1. RecordsKept /\ Recorded(e)'
      BY <2>1, AppliedRecords
    <3>2. inbox' = inbox /\ handler' = [handler EXCEPT ![e] = "mark"]
      BY <2>1 DEF HandleCapture, HandleRefund, HandleDispute, Applied
    <3>3. \A x \in Events : x # e => handler'[x] = handler[x]
      BY <1>0, <3>2 DEF TypeOK
    <3> QED BY <1>1, <3>1, <3>2, <3>3 DEF RecordInv
  <2>2. CASE \/ Deliver(e) \/ HandlerThrows(e) \/ MarkProcessed(e) \/ Answer(e)
             \/ MarkFailed(e) \/ HandlerDies(e)
    <3>1. UNCHANGED books /\ flagged' = flagged
      BY <2>2 DEF Deliver, HandlerThrows, MarkProcessed, Answer, MarkFailed, HandlerDies
    <3>2. RecordsKept
      BY <1>0, <3>1, TransactionRecords
    <3>3. \A x \in Events : x # e => inbox'[x] = inbox[x] /\ handler'[x] = handler[x]
      BY <1>0, <2>2
      DEF Deliver, HandlerThrows, MarkProcessed, Answer, MarkFailed, HandlerDies, TypeOK
    <3>4. inbox'[e] = "processed" \/ handler'[e] \in {"mark", "answer"} =>
            inbox[e] = "processed" \/ handler[e] \in {"mark", "answer"}
      BY <1>0, <2>2
      DEF Deliver, HandlerThrows, MarkProcessed, Answer, MarkFailed, HandlerDies, TypeOK
    <3> QED BY <1>1, <3>2, <3>3, <3>4 DEF RecordInv
  <2> QED BY <1>4, <2>1, <2>2 DEF Webhook
<1> QED BY <1>2, <1>3, <1>4 DEF Next

LEMMA RecordInvariance == Spec => []RecordInv
<1>1. Init => RecordInv
  BY DEF Init, RecordInv
<1> QED BY <1>1, NextRecords, Invariance, PTL DEF Spec

\* What is marked processed is applied or handed to a person, whatever throws
\* or dies between applying and marking (recordVerifiedWebhook,
\* processPayPalEvent).
THEOREM ProcessedEventsAreRecorded == Spec => []ProcessedMeansRecorded
<1>1. RecordInv => ProcessedMeansRecorded
  BY DEF RecordInv, ProcessedMeansRecorded
<1> QED BY <1>1, RecordInvariance, PTL

\* What PayPal has a 200 for, and what a redelivery would be answered with one
\* for, is marked processed.  A row is received only while its handler runs,
\* and an event PayPal has the answer of has no handler.
Answered(e) ==
    /\ e \in acked => handler[e] = "idle" /\ inbox[e] = "processed"
    /\ handler[e] = "idle" => inbox[e] # "received"
    /\ handler[e] = "answer" => inbox[e] = "processed"

AnswerInv == ~Overlap /\ crashes = 0 => \A e \in Events : Answered(e)

LEMMA RequestAnswers ==
    ASSUME \/ \E w \in Workers :
                \/ \E o \in Orders : Checkout(w, o) \/ Capture(w, o)
                \/ \E r \in Refunds : Refund(w, r)
                \/ Abandon(w)
           \/ \E o \in Orders : BuyerApproves(o) \/ CaptureSettles(o)
           \/ \E e \in Refunds \cup Disputes : ConsoleRefundOrDispute(e)
    PROVE  mail' = mail
<1>1. ASSUME NEW w \in Workers, NEW o \in Orders, Checkout(w, o) \/ Capture(w, o)
      PROVE  mail' = mail
  BY <1>1
  DEF Checkout, StartCheckout, InsertOrder, CompleteFree, CreateAtProvider, LinkOrder,
      Capture, StartCapture, CaptureAtProvider, Finalize, FinalizeMismatch
<1>2. ASSUME NEW w \in Workers, NEW r \in Refunds, Refund(w, r)
      PROVE  mail' = mail
  BY <1>2 DEF Refund, StartRefund, RefundAtProvider, ApplyOperatorRefund
<1>3. ASSUME NEW w \in Workers, Abandon(w)
      PROVE  mail' = mail
  BY <1>3 DEF Abandon
<1>4. ASSUME NEW o \in Orders, BuyerApproves(o) \/ CaptureSettles(o)
      PROVE  mail' = mail
  BY <1>4 DEF BuyerApproves, CaptureSettles
<1>5. ASSUME NEW e \in Refunds \cup Disputes, ConsoleRefundOrDispute(e)
      PROVE  mail' = mail
  BY <1>5 DEF ConsoleRefundOrDispute
<1> QED BY <1>1, <1>2, <1>3, <1>4, <1>5

\* One step of the webhook of e: it touches no other event's row, handler or
\* answer, and keeps Answered(e) unless it is a death or an overlap.
LEMMA WebhookAnswers ==
    ASSUME TypeOK, ~Overlap, NEW e \in Events, Webhook(e), crashes' = 0, crashes = 0,
           \A x \in Events : Answered(x)
    PROVE  \A x \in Events : Answered(x)'
<1>1. CASE Deliver(e)
  BY <1>1 DEF Deliver, Answered, TypeOK
<1>2. CASE \/ e \in Orders /\ HandleCapture(e)
           \/ e \in Refunds /\ HandleRefund(e)
           \/ e \in Disputes /\ HandleDispute(e)
  <2>1. Applied(e)
    BY <1>2 DEF HandleCapture, HandleRefund, HandleDispute
  <2> QED BY <2>1 DEF Applied, Answered, TypeOK
<1>3. CASE HandlerThrows(e)
  <2>1. /\ handler[e] \in {"apply", "mark"}
        /\ handler' = [handler EXCEPT ![e] = "fail"]
        /\ inbox' = inbox /\ acked' = acked
    BY <1>3 DEF HandlerThrows
  <2> QED BY <2>1 DEF Answered, TypeOK
<1>4. CASE MarkProcessed(e)
  BY <1>4 DEF MarkProcessed, Answered, TypeOK
<1>5. CASE Answer(e)
  BY <1>5 DEF Answer, Answered, TypeOK
<1>6. CASE MarkFailed(e)
  BY <1>6 DEF MarkFailed, Answered, TypeOK
<1>7. CASE HandlerDies(e)
  BY <1>7 DEF HandlerDies
<1> QED BY <1>1, <1>2, <1>3, <1>4, <1>5, <1>6, <1>7 DEF Webhook

LEMMA NextAnswers == TypeOK /\ TypeOK' /\ AnswerInv /\ [Next]_vars => AnswerInv'
<1> SUFFICES ASSUME TypeOK, TypeOK', AnswerInv, [Next]_vars, ~Overlap, crashes' = 0
             PROVE  \A e \in Events : Answered(e)'
  BY DEF AnswerInv
<1>1. CASE mail' = mail
  BY <1>1 DEF mail, AnswerInv, Answered
<1>2. ASSUME NEW e \in Events, Webhook(e) PROVE \A x \in Events : Answered(x)'
  <2>1. crashes = 0
    <3>1. crashes' = crashes \/ crashes' = crashes + 1
      BY <1>2
      DEF Webhook, Deliver, HandleCapture, HandleRefund, HandleDispute, Applied,
          HandlerThrows, MarkProcessed, Answer, MarkFailed, HandlerDies
    <3>2. crashes \in Nat
      BY BoundAssumption DEF TypeOK
    <3> QED BY <3>1, <3>2
  <2>2. \A x \in Events : Answered(x)
    BY <2>1 DEF AnswerInv
  <2> QED BY <1>2, <2>1, <2>2, WebhookAnswers
<1>3. CASE UNCHANGED vars
  BY <1>1, <1>3 DEF vars
<1> QED BY <1>1, <1>2, <1>3, RequestAnswers DEF Next

\* Without an overlap and a death, what PayPal has a 200 for is in the books or
\* on a person's desk (recordVerifiedWebhook, insertProviderEvent).
THEOREM AnsweredEventsAreRecorded == Spec => []AnsweredIsRecorded
<1>1. Init => AnswerInv
  BY DEF Init, AnswerInv, Answered
<1>2. TypeOK /\ RecordInv /\ AnswerInv => AnsweredIsRecorded
  BY DEF TypeOK, RecordInv, AnswerInv, Answered, AnsweredIsRecorded
<1> QED BY <1>1, <1>2, NextAnswers, TypeCorrect, RecordInvariance, PTL DEF Spec
-----------------------------------------------------------------------------
(* The status of a settled order moves forward.                             *)

\* An order is only called refunded when its whole price went back, so that
\* no further refund fits.
RefundedInv ==
    \A o \in Orders : order[o].status = "refunded" => FullyRefunded(o)

\* What a step may do to the status of order o.
RefundStep(o) ==
    /\ refunded[o] < Gross[o]
    /\ \/ order[o].status = "disputed" /\ order'[o].status = "disputed"
       \/ /\ order[o].status # "disputed"
          /\ order'[o].status = "partially_refunded"
       \/ /\ order[o].status # "disputed"
          /\ order'[o].status = "refunded"
          /\ refunded'[o] = Gross[o]

StatusStep(o) ==
    \/ order'[o].status = order[o].status /\ refunded'[o] = refunded[o]
    \/ /\ order[o].status = "absent"
       /\ order'[o].status \in {"processing", "creating"}
    \/ o \notin identities /\ order'[o].status = "completed"
    \/ order'[o].status = "disputed"
    \/ RefundStep(o)
    \/ ResumedLate(o)

LEMMA SameStatus ==
    ASSUME UNCHANGED books, NEW x \in Orders
    PROVE  StatusStep(x)
BY DEF books, StatusStep

\* A step that writes one order's row leaves the other orders where they are.
LEMMA OtherStatus ==
    ASSUME TypeOK, NEW o \in Orders, NEW x \in Orders, x # o, NEW row, NEW sum,
           order' = [order EXCEPT ![o] = row],
           refunded' = refunded \/ refunded' = [refunded EXCEPT ![o] = sum]
    PROVE  StatusStep(x)
BY DEF TypeOK, StatusStep

LEMMA CheckoutStatus ==
    ASSUME IInv, NEW w \in Workers, NEW o \in Orders, Checkout(w, o), NEW x \in Orders
    PROVE  StatusStep(x)
<1>0. TypeOK /\ order[o] \in OrderRow
  BY DEF IInv, TypeOK
<1>1. CASE UNCHANGED books
  BY <1>1, SameStatus
<1>2. CASE InsertOrder(w, o)
  <2>1. refunded' = refunded
    BY <1>2 DEF InsertOrder
  <2>2. CASE order' = order
    BY <2>1, <2>2 DEF StatusStep
  <2>3. CASE /\ order[o].status = "absent"
             /\ \/ order' = [order EXCEPT ![o].status = "processing"]
                \/ order' = [order EXCEPT ![o].status = "creating"]
    <3>1. CASE x = o
      BY <1>0, <2>3, <3>1 DEF TypeOK, StatusStep, OrderRow
    <3>2. CASE x # o
      BY <1>0, <2>1, <2>3, <3>2 DEF TypeOK, StatusStep
    <3> QED BY <3>1, <3>2
  <2> QED BY <1>2, <2>2, <2>3 DEF InsertOrder
<1>3. CASE CompleteFree(w, o) /\ ~UNCHANGED books
  <2>1. /\ order' = [order EXCEPT ![o].status = "completed"] /\ refunded' = refunded
        /\ Gross[o] = 0
    BY <1>3 DEF CompleteFree, CompleteFreeOrder, IInv, RequestInv
  <2>2. o \notin identities
    BY <2>1 DEF IInv, ProviderInv
  <2>3. CASE x = o
    BY <1>0, <2>1, <2>2, <2>3 DEF TypeOK, StatusStep, OrderRow
  <2>4. CASE x # o
    BY <1>0, <2>1, <2>4 DEF TypeOK, StatusStep
  <2> QED BY <2>3, <2>4
<1>4. CASE LinkOrder(w, o)
  <2>1. /\ order' = [order EXCEPT ![o] =
                       [@ EXCEPT !.linked = TRUE, !.status = "approval_pending"]]
        /\ refunded' = refunded /\ At(w, "link", o) /\ Return(w)
    BY <1>4 DEF LinkOrder
  <2>2. CASE x = o
    <3>1. order'[o].status = "approval_pending"
      BY <1>0, <2>1 DEF TypeOK, OrderRow
    <3> QED BY <2>1, <2>2, <3>1 DEF StatusStep, ResumedLate
  <2>3. CASE x # o
    BY <1>0, <2>1, <2>3 DEF TypeOK, StatusStep
  <2> QED BY <2>2, <2>3
<1> QED BY <1>1, <1>2, <1>3, <1>4 DEF Checkout, StartCheckout, CreateAtProvider

LEMMA FinalizeStatus ==
    ASSUME TypeOK, NEW o \in Orders, FinalizeCapture(o), NEW x \in Orders
    PROVE  StatusStep(x)
<1>0. order[o] \in OrderRow
  BY DEF TypeOK
<1>1. CASE UNCHANGED books
  BY <1>1, SameStatus
<1>2. CASE ~UNCHANGED books
  <2>1. /\ order' = [order EXCEPT ![o] = [@ EXCEPT !.status = "completed", !.captureId = TRUE]]
        /\ refunded' = refunded /\ o \notin identities
    BY <1>2 DEF FinalizeCapture
  <2>2. CASE x = o
    BY <1>0, <2>1, <2>2 DEF TypeOK, StatusStep, OrderRow
  <2>3. CASE x # o
    BY <2>1, <2>3 DEF TypeOK, StatusStep
  <2> QED BY <2>2, <2>3
<1> QED BY <1>1, <1>2

LEMMA RefundStatus ==
    ASSUME TypeOK, NEW r \in Refunds, NEW key, ~RefundTooLarge(r), ApplyRefund(r, key),
           NEW x \in Orders
    PROVE  StatusStep(x)
<1>1. CASE refundRow[r] # "absent"
  <2>1. UNCHANGED books
    BY <1>1 DEF ApplyRefund
  <2> QED BY <2>1, SameStatus
<1>2. CASE refundRow[r] = "absent"
  <2> DEFINE o == OrderOf[r]
             cum == refunded[o] + Amount[r]
  <2>1. /\ o \in Orders /\ order[o] \in OrderRow
        /\ refunded[o] < Gross[o]
    BY <1>2, MoneyAssumption DEF RefundTooLarge, TypeOK
  <2>2. /\ refunded' = [refunded EXCEPT ![o] = cum]
        /\ \/ order[o].status = "disputed" /\ order' = order
           \/ /\ order[o].status # "disputed" /\ cum = Gross[o]
              /\ order' = [order EXCEPT ![o].status = "refunded"]
           \/ /\ order[o].status # "disputed"
              /\ order' = [order EXCEPT ![o].status = "partially_refunded"]
    BY <1>2 DEF ApplyRefund
  <2> HIDE DEF o, cum
  <2>3. CASE x = o
    <3>1. refunded'[o] = cum
      BY <2>1, <2>2 DEF TypeOK
    <3>2. RefundStep(o)
      BY <2>1, <2>2, <3>1 DEF TypeOK, OrderRow, RefundStep
    <3> QED BY <2>3, <3>2 DEF StatusStep
  <2>4. CASE x # o
    BY <2>1, <2>2, <2>4 DEF TypeOK, StatusStep
  <2> QED BY <2>3, <2>4
<1> QED BY <1>1, <1>2

LEMMA DisputeStatus ==
    ASSUME TypeOK, NEW d \in Disputes, ApplyDispute(d), NEW x \in Orders
    PROVE  StatusStep(x)
<1>1. CASE UNCHANGED books
  BY <1>1, SameStatus
<1>2. CASE ~UNCHANGED books
  <2> DEFINE o == OrderOf[d]
  <2>1. o \in Orders /\ order[o] \in OrderRow
    BY MoneyAssumption DEF TypeOK
  <2>2. order' = [order EXCEPT ![o].status = "disputed"] /\ refunded' = refunded
    BY <1>2 DEF ApplyDispute
  <2> HIDE DEF o
  <2>3. CASE x = o
    BY <2>1, <2>2, <2>3 DEF TypeOK, StatusStep, OrderRow
  <2>4. CASE x # o
    BY <2>1, <2>2, <2>4 DEF TypeOK, StatusStep
  <2> QED BY <2>3, <2>4
<1> QED BY <1>1, <1>2

LEMMA StatusSteps ==
    ASSUME IInv, [Next]_vars, NEW x \in Orders
    PROVE  StatusStep(x)
<1>0. TypeOK
  BY DEF IInv
<1>1. CASE UNCHANGED vars
  BY <1>1, SameStatus DEF vars
<1>2. ASSUME NEW w \in Workers, NEW o \in Orders, Checkout(w, o) PROVE StatusStep(x)
  BY <1>2, CheckoutStatus
<1>3. ASSUME NEW w \in Workers, NEW o \in Orders, Capture(w, o) PROVE StatusStep(x)
  BY <1>0, <1>3, FinalizeStatus, SameStatus
  DEF Capture, StartCapture, CaptureAtProvider, Finalize, FinalizeMismatch
<1>4. ASSUME NEW w \in Workers, NEW r \in Refunds, Refund(w, r) PROVE StatusStep(x)
  BY <1>0, <1>4, RefundStatus, SameStatus
  DEF Refund, StartRefund, RefundAtProvider, ApplyOperatorRefund
<1>5. ASSUME \/ \E w \in Workers : Abandon(w)
             \/ \E o \in Orders : BuyerApproves(o) \/ CaptureSettles(o)
             \/ \E e \in Refunds \cup Disputes : ConsoleRefundOrDispute(e)
      PROVE  StatusStep(x)
  BY <1>5, SameStatus DEF Abandon, BuyerApproves, CaptureSettles, ConsoleRefundOrDispute
<1>6. ASSUME NEW e \in Events, Webhook(e) PROVE StatusStep(x)
  <2>1. CASE e \in Orders /\ HandleCapture(e)
    BY <1>0, <2>1, FinalizeStatus DEF HandleCapture
  <2>2. CASE e \in Refunds /\ HandleRefund(e)
    BY <1>0, <2>2, RefundStatus, SameStatus DEF HandleRefund, Flag
  <2>3. CASE e \in Disputes /\ HandleDispute(e)
    BY <1>0, <2>3, DisputeStatus, SameStatus DEF HandleDispute, Flag
  <2>4. CASE \/ Deliver(e) \/ HandlerThrows(e) \/ MarkProcessed(e) \/ Answer(e)
             \/ MarkFailed(e) \/ HandlerDies(e)
    BY <2>4, SameStatus
    DEF Deliver, HandlerThrows, MarkProcessed, Answer, MarkFailed, HandlerDies
  <2> QED BY <1>6, <2>1, <2>2, <2>3, <2>4 DEF Webhook
<1> QED BY <1>1, <1>2, <1>3, <1>4, <1>5, <1>6 DEF Next

LEMMA StatusForward ==
    IInv /\ RefundedInv /\ [Next]_vars =>
        /\ RefundedInv'
        /\ \A o \in Orders :
             SettlementForward(order[o].status, order'[o].status) \/ ResumedLate(o)
<1> SUFFICES ASSUME IInv, RefundedInv, [Next]_vars, NEW o \in Orders
             PROVE  /\ order'[o].status = "refunded" => FullyRefunded(o)'
                    /\ \/ SettlementForward(order[o].status, order'[o].status)
                       \/ ResumedLate(o)
  BY DEF RefundedInv
<1>1. /\ StatusStep(o) /\ OrderBooks(o) /\ order[o] \in OrderRow
      /\ refunded[o] \in Nat /\ Gross[o] \in Nat
      /\ order[o].status = "refunded" => Gross[o] > 0 /\ refunded[o] = Gross[o]
  BY StatusSteps, MoneyAssumption DEF IInv, TypeOK, BooksInv, RefundedInv, FullyRefunded
<1>2. o \notin identities =>
        order[o].status \notin {"partially_refunded", "refunded", "disputed"}
  BY <1>1 DEF OrderBooks
<1>3. order'[o].status = "refunded" => FullyRefunded(o)'
  BY <1>1 DEF StatusStep, RefundStep, ResumedLate, FullyRefunded
<1>4. SettlementForward(order[o].status, order'[o].status) \/ ResumedLate(o)
  BY <1>1, <1>2 DEF StatusStep, RefundStep, SettlementForward
<1> QED BY <1>3, <1>4

\* Captures, refunds and disputes, applied by requests and webhooks in any
\* order and any number of times, take no settled order back; only a checkout
\* resumed late does (finalizeCapture, applyRefund, applyDispute).
THEOREM SettledOrdersMoveForward == Spec => SettlementMovesForward
<1>1. Init => RefundedInv
  BY DEF Init, RefundedInv
<1>2. Spec => []RefundedInv
  BY <1>1, StatusForward, Invariance, PTL DEF Spec
<1>3. IInv /\ RefundedInv /\ [Next]_vars =>
        [\A o \in Orders :
           SettlementForward(order[o].status, order'[o].status) \/ ResumedLate(o)]_vars
  BY StatusForward
<1> QED BY <1>2, <1>3, Invariance, PTL DEF Spec, SettlementMovesForward
=============================================================================
