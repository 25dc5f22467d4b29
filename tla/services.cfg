\* Accounts: the built-in admin and one user, two requests at a time, a link for the user
\* possibly pending; keys: one user, the team, one key and one job; rates: two, for one
\* agent or global; delivery: one run to two destinations; reports: two ticks at a time;
\* audit: three events; status: two passes at a time; text: every input up to the bounds;
\* PDFs: three reports and two slots; settings: two editors and two items; destination:
\* two PATCH requests at a time; form: two schedules, three clicks, two versions, and an
\* hour that the clock shows twice; prompt: two versions at first, two calls at a time,
\* three things done.
SPECIFICATION Spec
CONSTANTS
    Ids = {"root", "ann1"}
    Email <- EmailOf
    Boot = "boot"
    LocalAuth = TRUE
    Sids = {s1, s2}
    Requests = {q1, q2}
    MaxRequests = 2
    MaxLinks = 2
    NoOne = NoOne
    KeyUsers = {"u1"}
    Overseer = "admin"
    ApiTeam = "team"
    KeyIds = {"k1"}
    KeyJobs = {"j1"}
    KeyRequests = {r1, r2}
    MaxKeyCalls = 4
    NoKey = NoKey
    Agents = {"a1"}
    RateIds = {"x1", "x2"}
    CostedRuns = {"run1"}
    LastDate = 2
    MaxRateCalls = 4
    Global = Global
    NoRate = NoRate
    Dests = {"d1", "d2"}
    Clerks = {k1, k2}
    Outcomes = {"SUCCESS", "CANCELLED"}
    Mailed = {"SUCCESS"}
    MaxAttempts = 3
    MaxOrders = 2
    NoOutcome = NoOutcome
    Ticks = {t1, t2}
    Periods = {2, 3}
    MaxTick = 1
    MaxHour = 6
    MaxTicksRun = 3
    NotYet = NotYet
    NoTick = NoTick
    AuditEvents = {"e1", "e2", "e3"}
    HeaderBytes <- HeaderOf
    FreeText <- TextOf
    MaxMessage = 10
    MarkerBytes = 3
    Passes = {p1, p2}
    KeyTtl = 2
    ProbeTime = 1
    MaxMoment = 6
    Absent = Absent
    NoPass = NoPass
    Placeholders = {"date", "topic", "tone", "constructor"}
    BuiltIns = {"date"}
    Inherited = {"constructor"}
    Lines = {"a", "b"}
    MaxLines = 6
    MaxChars = 9
    HeaderChars = 2
    NoticeChars = 2
    GramSize = 2
    NotGiven = NotGiven
    Calls = {g1, g2, g3}
    MaxRenders = 2
    Editors = {"ann", "admin"}
    Administrators = {"admin"}
    Items = {i1, i2}
    MaxCalls = 3
    NotLoaded = NotLoaded
    Templates = {"t1"}
    Patches = {p1, p2}
    MaxSettings = 3
    NoTemplate = NoTemplate
    NoSend = NoSend
    Schedules = {c1, c2}
    MaxVersions = 2
    WallClock <- ClockOf
    MaxClicks = 3
    Typed = Typed
    NoSchedule = NoSchedule
    NoWall = NoWall
    MaxHistory = 3
    MaxDoings = 3
    CallIds = {m1, m2}
    NotFetched = NotFetched
INVARIANTS TypeOK VoidLinkStays JobsKeepTheirKeys AgentCostDetermined DeliveredAsRecorded NothingSkipped MirrorNeverMatters ShownWasTrueLately TextAsSpecified SlotsAccounted
PROPERTIES AdminRemains LoggedOutStaysOut DialogsKeepTheRest TemplateLostOnlyToRace
\* The bounds stop the requests.
CHECK_DEADLOCK FALSE
