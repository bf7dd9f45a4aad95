SPECIFICATION ProgressSpec
CONSTANTS
    Scenarios = {"jobs", "sweeper", "shutdown", "webhook", "accounts",
                 "list", "detail", "dashboard", "send", "gate", "links", "secrets", "dialogs"}
    Jobs = {j1, j2, j3}
    Bearer = {b1}
    Cookie = {k1}
    Auth = {a1, a2}
    Bare = {n1}
    TenantLimit = 1
    IngestLimit = 1
    AuthLimit = 1
    WindowMs = 2
    JitterMs = 1
    MaxTime = 16
    MaxFailures = 1
    Processes = {p1, p2}
    Tokens = {t1, t2, t3}
    NoToken = NoToken
    LockTtl = 1
    Work = {w1}
    Calls = {c1}
    OneCall = {c1}
    Hosts = {"a"}
    Refused = {}
    Public = {i1}
    Private = {q1}
    Timeout = 2
    CacheTtl = 1
    CacheMax = 1
    MaxRedirects = 1
    MaxBody = 1
    MaxSent = 1
    MaxNow = 3
    LoginRequests = {r1}
    ResetTokens = {11}
    MaxHash = 2
    MaxSid = 2
    AccountRequests = {r1, r2}
    Emails = {e1, e2}
    MaxInvite = 4
    KeyRequests = {r1}
    Interval = 1
    MaxKey = 2
    MaxHour = 1
    EventRequests = {r1}
    Bodies = {m1}
    NoBody = NoBody
    Endpoints = {e1}
    Steady = {}
    Slots = {1, 2}
    ReadOnly = FALSE
    Filters = {"all"}
    MaxVer = 1
    MaxMoves = 2
    Items = {1, 2}
    MaxRuns = 1
    MaxSteps = 2
    Loads = {1}
    Recent = 1
    MaxLog = 3
    BoardTurns = 1
    Typed = {m1, m2}
    Broken = m2
    MaxSend = 1
    SendTurns = 2
    GateTurns = 2
    Asks = {1, 2}
    LinkTurns = 3
    Single = {"invite"}
    SecretTurns = 2
    Kinds = {"edit", "delete"}
    DialogTurns = 4
CHECK_DEADLOCK FALSE
PROPERTIES
    JobsAdmitted
    SweepsGoOn
    ServicesEnd
    PagesSettle
    ChangesFollow
    SignOutClears
