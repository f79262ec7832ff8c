SPECIFICATION HistorySpec
CONSTANTS
    Versions = {l1, l2, l3, l4, l5}
    Customers = {acme, beta}
    Nil = Nil
SYMMETRY Symmetry
CHECK_DEADLOCK FALSE
INVARIANTS
    SameHistoryForAll
PROPERTIES
    HistoryIsWholeLine
    OnlyRequestedMayBeStale
    HistoryOnlyGrows
