SPECIFICATION Spec
CONSTANTS
    x1 = x1
    i1 = i1
    i2 = i2
    r1 = r1
    r2 = r2
    d1 = d1
    d2 = d2
    Designs = {d1}
    NoDna = NoDna
    NoRecord = NoRecord
    Engagements = {x1}
    Instances = {i1, i2}
    Requests = {r1}
    Opening <- PackagedOnly
    Consultations = {}
    StoreFails = FALSE
    MaxCalls = 4
    MaxRecycles = 0
SYMMETRY SomeSymmetry
CHECK_DEADLOCK FALSE
INVARIANTS
    AnsweredMeansDurable
