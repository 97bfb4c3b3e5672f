CONSTANTS
    Generations = {g1}
    Previews = {s1}
    Requests = {r1, r2}
    Nobody = Nobody
    Quotas <- OneLease
    MaxEntries = 1
    MaxRevision = 1
    MaxFaults = 1
SYMMETRY Symmetric
SPECIFICATION Spec
INVARIANT FramesShowTheirRevision
CHECK_DEADLOCK FALSE
