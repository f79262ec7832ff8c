SPECIFICATION RegisteredSpec
CONSTANTS
    Requests = {r1, r2}
    Licenses = {l1, l2}
    Conditions = {c1, c2}
    Dates = {d1}
    None = None
    r1 = r1
    l1 = l1
SYMMETRY RegisteredSymmetry
PROPERTIES
    EverythingDecidedAtCommit
