\* A paid order with a partial refund and a dispute, and a free one; PayPal delivers
\* until it is answered, and handlers may throw but do not die.
SPECIFICATION FairSpec
CONSTANTS
    o1 = o1  o2 = o2  free = free  r1 = r1  r2 = r2  d1 = d1  w1 = w1
    Orders <- PaidAndFree
    Refunds = {r1}
    Disputes = {d1}
    Title <- TitleEach
    OrderOf <- OrderOfOneEach
    Gross <- GrossTwo
    Fee <- FeeTwo
    Amount <- AmountPart
    Workers = {w1}
    MaxThrows = 1
    MaxCrashes = 0
    Overlap = FALSE
INVARIANTS
    ReversalsBalance
    AnsweredIsRecorded
    RecordedReversalEndsAccess
PROPERTIES
    CaptureLeadsToAccess
    DisputeLeadsToRecord
CHECK_DEADLOCK FALSE
