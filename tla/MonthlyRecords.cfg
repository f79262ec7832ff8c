CONSTANTS
    Requests = {r1, r2}
    Indicators = {i1, i2}
    Months <- MCMonths
    Values = {v}
    MaxChanges = 2
    MaxRows = 1
    None = None

SPECIFICATION Spec

INVARIANTS
    DeadlockNeedsOppositeOrders
    QuietPageIsExact

PROPERTIES
    SaveApplied
    SavesEnd

CHECK_DEADLOCK FALSE
