\* Two servers that die, file operations that fail, and writes from outside.
SPECIFICATION FairSpec
CONSTANTS
    a = a  b = b  x = x  y = y  absent = absent
    k1 = k1  k2 = k2  k3 = k3  s1 = s1  s2 = s2
    Files = {a, b}
    Contents = {x, y, absent}
    Keys = {k1, k2, k3}
    Edit <- ThreeEdits
    First <- Imported
    Servers = {s1, s2}
    Limit = 2
    MaxFaults = 1
    MaxCrashes = 1
    MaxOutside = 1
INVARIANTS
    SourceMatchesHead
    AnswersAreTrue
PROPERTIES
    ImplementsAtomicSource
    AnswersStand
    OutsideEditStopsCommits
    RecoveryCompletes
