\* Two keys, two requests at a time, and five things that PayPal tells.
SPECIFICATION Spec
CONSTANTS
    Keys = {k1, k2}
    Requests = {r1, r2}
    NoKey = NoKey
    MaxEvents = 5
SYMMETRY Symmetric
INVARIANTS
    BilledOnce
    SettledAgrees
CHECK_DEADLOCK FALSE
