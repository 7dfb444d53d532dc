SPECIFICATION Spec
CONSTANTS
    Emails = {reset, notice}
    AuthEmails = {reset}
    DaemonMailer = daemon
    ApiMailers = {api}
    DaemonBatch = 2
    ApiBatch = 1
    MaxEmailAttempts = 2
    MaxLostBatches = 1
    MaxMailEdits = 2
    Owners = {ana, bob}
    Alerts = {n1}
    DaemonPusher = daemon
    TestPushers = {test}
    PushBatch = 2
    MaxPushAttempts = 2
    MaxPushCrashes = 1
    MaxPushEdits = 1
    ImageJobs = {j1, j2}
    ImageWorkers = {w1}
    NoImage = NoImage
    Quotas <- ImageQuotas
    MaxImageSwitches = 1
    Fans = {1, 2}
    BadgeCodes = {1, 2}
    BadgeWorkers = {w1, w2}
    MaxBadgeCalls = 3
    MaxBadgeEdits = 2
    Readers = {ana, bob}
    Bots = {bot}
    Posts = {c1}
    NoPost = NoPost
    MaxTalk = 3
    Agents = {ana, bob}
    FirstTraders = {bob}
    BotUsers = {u1, u2, u3}
    NoAgent = NoAgent
    Squares = {m1, m2}
    NoSquare = NoSquare
    MaxRemarks = 4
    Limits <- SiteLimits
    AgentLimits <- BotLimits
    Purse = 2
    MaxCycles = 3
    MaxTurns = 2
INVARIANTS
    MessageInvariant
    ImageInvariant
PROPERTIES
    NothingReturns
    CommunityIsFair
CHECK_DEADLOCK FALSE
