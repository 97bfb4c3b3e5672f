\* Undo, redo, reverts by name, restores and compaction in every order.
SPECIFICATION HistorySpec
CONSTANTS
    a = a  b = b  x = x  y = y  absent = absent
    Files = {a, b}
    Contents = {x, y, absent}
    Edits <- BackAndForth
    First <- Imported
    Limit = 3
    MaxArchives = 2
    MaxTransactions = 6
INVARIANTS
    EveryRevisionIsRestorable
    UndoNeverConflicts
PROPERTIES
    HistoryOnlyGrows
CHECK_DEADLOCK FALSE
