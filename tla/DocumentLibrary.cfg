CONSTANTS
    Requests = {r1, r2}
    c1 = c1
    c2 = c2
    u1 = u1
    u2 = u2
    Users = {u1, u2}
    Customers = {c1, c2}
    OwnerOf <- MCOwnerOf
    FolderIds = {f1, f2, f3}
    Root = f1
    FirstCustomer = c1
    RootName <- MCRootName
    Removable = {c1}
    DocumentIds = {d1, d2}
    Names <- MCNames
    None = None

SPECIFICATION Spec
SYMMETRY Symmetry

INVARIANTS
    FilesKept
    InOwnFolders

PROPERTIES
    DuplicatesOnlyByOverlap
    RemovedOutOfReach
