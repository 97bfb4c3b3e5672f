CONSTANTS
    k1 = k1
    k2 = k2
    s1 = s1
    p1 = p1
    u1 = u1
    u2 = u2
    NoKey = NoKey
    Keys = {k1, k2}
    Saves = {s1}
    Packs = {p1}
    Units = {u1, u2}
    Workers = {w1, w2}
    Months <- TwoMonths
    SourceOf <- FirstMonthAndPack
    Cost <- OneEach
    Concurrency = 2
    Kinds = {"refund"}
    MaxCheckouts = 1
    MaxRevision = 2
    MaxFaults = 1
SYMMETRY Symmetric
SPECIFICATION Spec
INVARIANT NeverOverdrawn
INVARIANT EditsChain
PROPERTY ImplementsPaidEdits
CHECK_DEADLOCK FALSE
