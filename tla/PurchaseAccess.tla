--------------------------- MODULE PurchaseAccess ---------------------------
(***************************************************************************)
(* What the marketplace promises a buyer and a creator about one order,   *)
(* with requests, webhooks, retries and crashes left out: access to the   *)
(* purchased release is given at most once, only against money the        *)
(* provider really holds (or for a free listing), and once it is taken    *)
(* away, for a full refund or a dispute, it never comes back.             *)
(* MarketplaceOrders is shown to implement this specification.            *)
(***************************************************************************)
CONSTANTS
    Orders,     \* marketplace orders
    FreeOrders  \* the orders of listings whose price is zero

VARIABLES
    paid,    \* orders whose payment the provider has captured
    grounds, \* orders fully refunded or disputed, as Webcanbe has recorded
    access   \* "none", "active" or "revoked", for each order

vars == <<paid, grounds, access>>

TypeOK ==
    /\ paid \subseteq Orders
    /\ grounds \subseteq Orders
    /\ access \in [Orders -> {"none", "active", "revoked"}]

Init ==
    /\ paid = {}
    /\ grounds = {}
    /\ access = [o \in Orders |-> "none"]

\* The provider takes the buyer's money.
Pay(o) ==
    /\ o \notin paid
    /\ paid' = paid \cup {o}
    /\ UNCHANGED <<grounds, access>>

\* The buyer is let in, once, after the money or for a free listing.
Grant(o) ==
    /\ o \in paid \cup FreeOrders
    /\ access[o] = "none"
    /\ access' = [access EXCEPT ![o] = "active"]
    /\ UNCHANGED <<paid, grounds>>

\* A full refund or a dispute is recorded and access ends in the same step.
Withdraw(o) ==
    /\ access[o] = "active"
    /\ grounds' = grounds \cup {o}
    /\ access' = [access EXCEPT ![o] = "revoked"]
    /\ UNCHANGED paid

Next == \E o \in Orders : Pay(o) \/ Grant(o) \/ Withdraw(o)

Spec == Init /\ [][Next]_vars
=============================================================================
