\* Two orders for one release, two refunds that together pass the price, and
\* handlers that die and are overtaken by a second delivery.
SPECIFICATION Spec
CONSTANTS
    o1 = o1  o2 = o2  free = free  r1 = r1  r2 = r2  d1 = d1  w1 = w1
    Orders <- SamePurchase
    Refunds = {r1, r2}
    Disputes = {}
    Title <- TitleSame
    OrderOf <- OrderOfRefunds
    Gross <- GrossSame
    Fee <- FeeSame
    Amount <- AmountExcess
    Workers = {w1}
    MaxThrows = 0
    MaxCrashes = 1
    Overlap = TRUE
INVARIANTS
    TypeOK
    ReversalsBalance
    CompletedMeansDelivered
    ProcessedMeansRecorded
PROPERTIES
    ImplementsPurchaseAccess
    SettlementMovesForward
CHECK_DEADLOCK FALSE
