------------------------ MODULE MCMarketplaceOrders ------------------------
(* Small instances of MarketplaceOrders for TLC.                           *)
EXTENDS MarketplaceOrders, TLC

CONSTANTS o1, o2, free, r1, r2, d1, w1

PaidAndFree == {o1, free}

SamePurchase == {o1, o2}

\* Every order buys something else, or two orders buy the same release.
TitleEach == [o \in {o1, free} |-> o]
TitleSame == [o \in SamePurchase |-> "release"]

\* Prices: a fee of one third shows the rounding of partial refunds.
GrossTwo == (o1 :> 3) @@ (free :> 0)
FeeTwo == (o1 :> 1) @@ (free :> 0)

GrossSame == [o \in SamePurchase |-> 3]
FeeSame == [o \in SamePurchase |-> 1]

\* Refunds that together pass the price, and a part of it.
AmountExcess == (r1 :> 1) @@ (r2 :> 3)
AmountPart == r1 :> 1
NoAmount == [r \in {} |-> 1]

AboutO1(S) == [x \in S |-> o1]
OrderOfNone == AboutO1({})
OrderOfRefunds == AboutO1({r1, r2})
OrderOfOneEach == AboutO1({r1, d1})
=============================================================================
