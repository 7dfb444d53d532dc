SPECIFICATION LiveSpec
CONSTANTS
    Users = {ana, bot}
    Bots = {bot}
    Markets = {m, n}
    AutoClose = {n}
    Options = {yes, no}
    Predictions = {pr1}
    Requests = {r1}
    NoOption = NoOption  Absent = Absent  Idle = Idle
    Grant = 10
    Stakes = {5}
    Prices = {40}
    MaxReinforcements = 1
    MaxRevisions = 1
    PenaltyPercent = 20
    MinReinforcement = 1
    MinRemaining = 1
    MaxUndos = 1
    Emails = {reset}
    AuthEmails = {reset}
    DaemonMailer = daemon
    ApiMailers = {api}
    DaemonBatch = 2
    ApiBatch = 1
    MaxEmailAttempts = 2
    MaxLostBatches = 1
    MaxMailEdits = 1
    Alerts = {n1}
    DaemonPusher = daemon
    TestPushers = {}
    PushBatch = 2
    MaxPushAttempts = 2
    MaxPushCrashes = 1
    MaxPushEdits = 1
    ImageJobs = {j1}
    ImageWorkers = {iw1}
    NoImage = NoImage
    Quotas <- ImageQuotas
    MaxImageSwitches = 1
    WebCalls = {w1}
    AppCalls = {p1}
    HealthCalls = {}
    Writes = {w1, p1}
    WebPlaces = 1  WebQueue = 1
    ApiPlaces = 1  HealthPlaces = 1
    PoolMax = 1  PoolQueue = 1
PROPERTIES
    MarketsReachTheirEnd
    QueuesDrain
CHECK_DEADLOCK FALSE
