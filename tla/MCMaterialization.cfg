CONSTANTS
    owner = owner
    guest = guest
    s1 = s1
    s2 = s2
    own = own
    bought = bought
    e1 = e1
    Users = {owner, guest}
    Founder = owner
    Sessions = {s1, s2}
    UserOf <- SessionUser
    Projects = {own, bought}
    Reserved = {bought}
    Requests = {r1, r2}
    Entitlements = {e1}
    BuyerOf <- GuestsEntitlement
    CopyOf <- ReservedCopy
    None = None
    Capacity = 1
    MaxEpoch = 3
    Provisionable = {guest}
    MaxProvisioned = 1
    MaxWrites = 2
SYMMETRY Symmetric
SPECIFICATION Spec
INVARIANT RevokedShareGrantsNothing
INVARIANT ReadyMeansMade
PROPERTY WritesAreAuthorized
PROPERTY OnlyOwnTenureEnds
INVARIANT GrantsAreFenced
CHECK_DEADLOCK FALSE
