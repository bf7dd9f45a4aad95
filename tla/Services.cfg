SPECIFICATION ConsoleSpec
CONSTANTS
    Scenarios = {"jobs", "ingest", "auth", "sweeper", "shutdown", "webhook", "cache", "login", "accounts", "keys", "events",
                 "list", "detail", "dashboard", "send", "gate", "links", "secrets", "dialogs"}
    Jobs = {j1, j2}
    Bearer = {b1}
    Cookie = {k1}
    Auth = {a1, a2}
    Bare = {n1}
    TenantLimit = 1
    IngestLimit = 1
    AuthLimit = 2
    WindowMs = 2
    JitterMs = 1
    MaxTime = 4
    MaxFailures = 1
    Processes = {p1, p2}
    Tokens = {t1, t2, t3}
    NoToken = NoToken
    LockTtl = 2
    Work = {w1, w2, w3}
    Calls = {c1, c2}
    OneCall = {c1}
    Hosts = {"a", "b"}
    Refused = {"http"}
    Public = {i1}
    Private = {q1}
    Timeout = 2
    CacheTtl = 1
    CacheMax = 1
    MaxRedirects = 1
    MaxBody = 2
    MaxSent = 4
    MaxNow = 3
    LoginRequests = {r1, r2, r3}
    ResetTokens = {11}
    MaxHash = 3
    MaxSid = 3
    AccountRequests = {r1, r2, r3}
    Emails = {e1, e2}
    MaxInvite = 4
    KeyRequests = {r1, r2, r3}
    Interval = 1
    MaxKey = 4
    MaxHour = 3
    EventRequests = {r1, r2}
    Bodies = {m1, m2}
    NoBody = NoBody
    Endpoints = {e1, e2}
    Steady = {e2}
    Slots = {1, 2}
    ReadOnly = FALSE
    Filters = {"all", "some"}
    MaxVer = 1
    MaxMoves = 2
    Items = {1, 2}
    MaxRuns = 2
    MaxSteps = 3
    Loads = {1, 2}
    Recent = 1
    MaxLog = 3
    BoardTurns = 1
    Typed = {m1, m3}
    Broken = m3
    MaxSend = 2
    SendTurns = 2
    GateTurns = 3
    Asks = {1, 2}
    LinkTurns = 3
    Single = {"rotate", "create", "invite"}
    SecretTurns = 3
    Kinds = {"edit", "rename", "delete", "remove"}
    DialogTurns = 5
CHECK_DEADLOCK FALSE
INVARIANTS
    ServicesTypeOK
    LimitIsExact
    SweepsApart
    EndsInOrder
    CallIsBounded
    PasswordRules
    AccountsAgree
    RotatedOnce
    AcceptedIsKept
    ListIsHonest
    DetailIsHonest
    DashboardIsHonest
    FormsBelong
PROPERTIES
    RetriesInLaterWindow
    NeverOlder
    OwnersOnly
    NotTakenAway
