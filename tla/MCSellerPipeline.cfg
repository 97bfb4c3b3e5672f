CONSTANTS
    Sound <- FirstIsSound
    Workers = {w1, w2}
    Runs = {r1, r2}
    Versions = {v1, v2}
    None = None
    MaxRevision = 2
    MaxRequests = 1
    MaxGeneration = 2
    MaxLease = 2
    MaxOwnerReleases = 1
    MaxRotations = 1
SYMMETRY Symmetric
SPECIFICATION Spec
INVARIANT ResultIsTheHolders
PROPERTY ImplementsAssessedReleases
CHECK_DEADLOCK FALSE
