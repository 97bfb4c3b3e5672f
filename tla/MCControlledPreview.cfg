CONSTANTS
    Generations = {g1, g2}
    Previews = {s1}
    Requests = {r1}
    Nobody = Nobody
    Quotas <- OneLease
    MaxEntries = 2
    MaxRevision = 1
    MaxFaults = 1
SYMMETRY Symmetric
SPECIFICATION Spec
PROPERTY ImplementsRunnerSlots
PROPERTY SweepSparesCurrent
CHECK_DEADLOCK FALSE
