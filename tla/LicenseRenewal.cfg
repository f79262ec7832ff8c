SPECIFICATION Spec
CONSTANTS
    Requests = {r1, r2, r3}
    Licenses = {l1, l2, l3}
    Conditions = {c1}
    Dates = {d1, d2}
    None = None
    r1 = r1
    l1 = l1
SYMMETRY Symmetry
INVARIANTS
    TypeOK
    FilesAccountedFor
    ArchivedIffRenewed
    HistoryWellFounded
PROPERTIES
    LineageSpec
    NoLostUpdate
    RecordedFulfillmentKept
