SPECIFICATION Spec
CONSTANTS
    x1 = x1
    i1 = i1
    i2 = i2
    r1 = r1
    r2 = r2
    d1 = d1
    d2 = d2
    Designs = {d1}
    NoDna = NoDna
    NoRecord = NoRecord
    Engagements = {x1}
    Instances = {i1, i2}
    Requests = {r1, r2}
    Opening <- Various
    Consultations = {"answer", "gaps", "review"}
    StoreFails = TRUE
    MaxCalls = 3
    MaxRecycles = 1
SYMMETRY SomeSymmetry
CHECK_DEADLOCK FALSE
INVARIANTS
    TypeOK
    CopiesSound
    PaymentsAccounted
PROPERTIES
    ApprovalsKept
    StagesForward
    
