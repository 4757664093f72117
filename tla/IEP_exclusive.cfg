SPECIFICATION Spec
CONSTANTS
    first = first
    second = second
    after = after
    stray = stray
    d1 = d1
    d2 = d2
    shared = shared
    own = own
    NoToken = NoToken
    NoJob = NoJob
    Jobs <- PairJobs
    Priority <- PairPriority
    DependsOn <- PairDeps
    MaxAttempts <- PairAttempts
    ResourceOf <- PairShared
    Resources = {shared}
    Drains = {d1, d2}
    TTL = 2
    MaxSteps = 2
    Unhandled = {}
    Unclonable = {}
    Named = {}
    MaxEnqueues = 3
    BusThrows = FALSE
SYMMETRY DrainSymmetry
INVARIANTS
    ExclusiveHolds
