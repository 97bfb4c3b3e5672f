\* Two jobs that share one slot; messages, connections and processes are lost.
SPECIFICATION FairSpec
CONSTANTS
    g1 = g1  g2 = g2
    Generations = {g1, g2}
    Quotas <- OneAtATime
    MaxEpoch = 2
    MaxFailures = 1
INVARIANTS
    QuotaRespected
PROPERTIES
    ImplementsRunnerSlots
    HolderSettles
    NeverRevived
    CapacityComesBack
CHECK_DEADLOCK FALSE
