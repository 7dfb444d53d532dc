SPECIFICATION Spec
CONSTANTS
    People = {q}
    Grants = {g1}
    Credentials = {k1}
    Exchanges = {x1, x2}
    Calls = {t1, t2}
    NoCall = NoCall
    NoOne = NoOne
    CallLimits = {1, 2}
    MaxRefreshes = 2
    MaxAgentEdits = 2
    MaxMarkets = 2
    Slugs = {s1, s2}
    Texts = {q1, q2}
    Dates = {d1, d2}
    FirstTexts = {q1}
    FirstDates = {d1}
    NoMarket = NoMarket
    NoText = NoText
    NoPage = NoPage
    NoReceipt = NoReceipt
    Deleted = Deleted
    Readers = {ana, agent}
    Agent = agent
    Keys = {key}
    FormKinds = {"identified", "legacy"}
    MaxDraftEdits = 4
    MaxSchedules = 2
    Entries = {e1, e2}
    NoEntry = NoEntry
    Labels = {n1, n2}
    Listings = {m1, m2, m3}
    Savers = {v1, v2}
    NotSaving = NotSaving
    NotApproved = NotApproved
    MaxCatalogueEdits = 3
    Contests = {c1, c2}
    Outcomes = {yes, no}
    NoOutcome = NoOutcome
    HumanKeys = {hk1, hk2}
    AgentKeys = {a1}
    Confirmers = {u1, u2}
    NotConfirming = NotConfirming
    NoReceiptYet = NoReceiptYet
    MaxWindows = 2
    Editors = {boss, clerk}
    Chiefs = {boss}
    Versions = {2, 3}
    Phones = {ph}
    OldBuild = 1
    NoRelease = NoRelease
    MaxSettingEdits = 3
    w1 = w1  w2 = w2  w3 = w3
    p1 = p1  p2 = p2
    h1 = h1  h2 = h2
    WebCalls = {w1, w2, w3}
    AppCalls = {p1, p2}
    HealthCalls = {h1, h2}
    Writes = {w1, p1}
    WebPlaces = 1  WebQueue = 1
    ApiPlaces = 2  HealthPlaces = 1
    PoolMax = 1  PoolQueue = 1
INVARIANTS
    AgentInvariant
    ContentInvariant
    ConfirmationInvariant
    GateInvariant
PROPERTIES
    NothingIsRewritten
CHECK_DEADLOCK FALSE
