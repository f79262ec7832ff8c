CONSTANTS
    Requests = {r1, r2}
    Owners = {o1, o2}
    Watched = o1
    CustomerIds = {k1, k2}
    cpf = cpf
    cnpj = cnpj
    Documents = {cpf, cnpj}
    CPF = CPF
    CNPJ = CNPJ
    Types = {CPF, CNPJ}
    TypeOf <- MCTypeOf
    Original = Original
    None = None

SPECIFICATION Spec
SYMMETRY Symmetry

INVARIANTS
    NoMixture

PROPERTIES
    Isolation
    RemovedStaysRemoved

CHECK_DEADLOCK FALSE
