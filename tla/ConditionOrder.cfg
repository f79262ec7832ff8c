SPECIFICATION Spec
CONSTANTS
    Requests = {r1, r2}
    Licenses = {l1, l2}
    Descriptors = {water, waste}
    MaxRows = 4
    MaxLegacy = 2
SYMMETRY Symmetry
CHECK_DEADLOCK FALSE
INVARIANTS
    AppendsInOrder
    NumberedWithoutGaps
PROPERTIES
    MovedLast
    CopiesKeepOrder
