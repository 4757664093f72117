SPECIFICATION Spec
CONSTANTS
    Designs = {d1}
    NoDna = NoDna
    Users = {owner, member}
    NoUser = NoUser
    Owners = {owner}
    Managed = {member}
    Given = {"admin"}
    Asked = {"leads", "ops"}
    Origins = {"own", "foreign"}
    Configured = TRUE
    Admins = {a1, a2}
    Engs = {e1, e2, e3}
    Clients = {c1, c2}
    NoClient = NoClient
    ClientOf <- MCClientOf
    Deliveries = {y1, y2}
    Delivered <- MCDelivered
    Built <- MCBuilt
    NoEng = NoEng
    Slots = {1, 2}
    Moves = {"internal_approval", "factory_ready"}
    Start <- MCStart
    Visitors <- MCVisitors
    Seeds = {NoClient, c2}
    MaxSaves = 2
    Cases = {x1, x2}
    NoCase = NoCase
    NoRecord = NoRecord
    Opened <- MCOpened
    Session = x1
    Steps = {"factory_ready"}
    MaxServed = 2
    Docked = {"business", "case", "settings"}
    MaxRecs = 4
    Items = {i1, i2}
    Advances = {"internal_approval", "client_approval", "deposit_received", "factory_ready"}
    MaxUses = 2
    Leads = {1, 2}
    Storages = {"tmp", "disk"}
    Conversions = {"v1", "v2"}
    PerBucket = 2
    Window = 2
    MaxCount = 3
    MaxTime = 6
    MaxLives = 2
    MaxMade = 2
    MaxRestarts = 1
    d1 = d1
    owner = owner
    member = member
    c1 = c1
    c2 = c2
    e1 = e1
    e2 = e2
    e3 = e3
    y1 = y1
    x1 = x1
    x2 = x2
INVARIANTS TypeOK ScreensHold AccessEarned CountsEarned LeadsHold RateKept
CHECK_DEADLOCK FALSE
