SPECIFICATION Spec
CONSTANTS
    Builds = {b1, b2, b3}
    Projects = {q1, q2}
    NoProject = NoProject
    Dnas = {"shop", "crm", "odd"}
    NoDna = "none"
    Order <- MCOrder
    Reads <- MCReads
    NoKey = "none"
    Chokes <- MCChokes
    Tries = 2
    Exts = {e1, e2}
    Modules = {m1, m2}
    NoModule = NoModule
    Kind <- MCKind
    Dependency <- MCDependency
    Calls = {c1, c2}
    NoCall = NoCall
    Agents = {g1, g2}
    NoAgent = NoAgent
    Implements <- MCImplements
    Runs = {r1, r2}
    Tasks = {1, 2, 3}
    External = 0
    Depths = {1, 2}
    Pids = {p1, p2}
    Arts = {a1, a2, a3}
    ProjectOf <- MCProjectOf
    Sections = {s1, s2}
    Derives <- MCDerives
    Inputs <- MCInputs
    MaxDna = 2
    Records <- MCRecords
    NoDoc = NoDoc
    e1 = e1
    e2 = e2
    m1 = m1
    m2 = m2
    g1 = g1
    g2 = g2
    p1 = p1
    p2 = p2
    s1 = s1
    s2 = s2
    a1 = a1
    a2 = a2
    a3 = a3
SYMMETRY Interchangeable
INVARIANTS TypeOK OwnUntilFailure BacklogConserved InvocableIsWired RunsSettle
    LoopsCorrect DnaDrivesStaleness ReferencesResolve
PROPERTY ImplementsContract
CHECK_DEADLOCK FALSE
