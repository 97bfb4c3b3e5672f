\* Two orders of one buyer for one release; nothing fails and nothing dies.
SPECIFICATION FairSpec
CONSTANTS
    o1 = o1  o2 = o2  free = free  r1 = r1  r2 = r2  d1 = d1  w1 = w1
    Orders <- SamePurchase
    Refunds = {}
    Disputes = {}
    Title <- TitleSame
    OrderOf <- OrderOfNone
    Gross <- GrossSame
    Fee <- FeeSame
    Amount <- NoAmount
    Workers = {w1}
    MaxThrows = 0
    MaxCrashes = 0
    Overlap = FALSE
PROPERTIES
    CaptureLeadsToAccess
CHECK_DEADLOCK FALSE
