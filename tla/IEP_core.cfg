SPECIFICATION Spec
CONSTANTS
    first = first
    second = second
    after = after
    stray = stray
    d1 = d1
    d2 = d2
    shared = shared
    own = own
    NoToken = NoToken
    NoJob = NoJob
    Jobs <- AllJobs
    Priority <- AllPriority
    DependsOn <- AllDeps
    MaxAttempts <- AllAttempts
    ResourceOf <- AllResources
    Resources = {shared, own}
    Drains = {d1, d2}
    TTL = 2
    MaxSteps = 2
    Unhandled = {stray}
    Unclonable = {after}
    Named = {second}
    MaxEnqueues = 3
    BusThrows = TRUE
SYMMETRY DrainSymmetry
INVARIANTS
    TypeOK
    RetryBudget
    RunningIsOwned
    SingleRun
    DependenciesHold
    LocksOwned
    LeaseExclusion
PROPERTIES
    FinalStates
