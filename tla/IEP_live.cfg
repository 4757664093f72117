SPECIFICATION FairSpec
CONSTANTS
    first = first
    second = second
    after = after
    stray = stray
    d1 = d1
    d2 = d2
    shared = shared
    own = own
    NoToken = NoToken
    NoJob = NoJob
    Jobs <- ChainJobs
    Priority <- ChainPriority
    DependsOn <- ChainDeps
    MaxAttempts <- ChainAttempts
    ResourceOf <- ChainResources
    Resources = {shared, own}
    Drains = {d1, d2}
    TTL = 2
    MaxSteps = 3
    Unhandled = {}
    Unclonable = {}
    Named = {}
    MaxEnqueues = 3
    BusThrows = FALSE
INVARIANTS
    RunsCountedOnce
PROPERTIES
    KeepsPromise
    DrainsEnd
    RunnableServed
