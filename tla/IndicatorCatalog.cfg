SPECIFICATION Spec
CONSTANTS
    Requests = {r1, r2, r3}
    ana = ana
    bia = bia
    acme = acme
    beta = beta
    Accounts = {ana, bia}
    Customers = {acme, beta}
    OwnerOf <- MCOwnerOf
    Words = {water}
    Cases = {upper, lower}
    MaxCatalog = 3
    None = None
SYMMETRY Symmetry
CHECK_DEADLOCK FALSE
INVARIANTS
PROPERTIES
    ReplacedListGone
    RefusedOnlyByOverlap
    DuplicatesOnlyByOverlap
