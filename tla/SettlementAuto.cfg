SPECIFICATION OperationsSpec
CONSTANTS
    Users = {ana, bia, bot}
    Bots = {bot}
    Markets = {m}
    AutoClose = {m}
    Options = {yes, no}
    Predictions = {p1, p2, p3}
    Requests = {r1, r2}
    NoOption = NoOption  Absent = Absent  Idle = Idle
    Grant = 10
    Stakes = {5}
    Prices = {40}
    MaxReinforcements = 1
    MaxRevisions = 1
    PenaltyPercent = 20
    MinReinforcement = 1
    MinRemaining = 1
    MaxUndos = 2
    ToolCalls = {p1, p2, p3}
    Agencies = {r1, r2}
    Addresses = {a1}
    MaxAttempts = 2
    MaxKeys = 1
    SpoolLimit = 1
    LastMinute = 1
    MaxAtOnce = 2
    NoFile = NoFile
SYMMETRY Symmetry
INVARIANTS
    StakeHeldWhileOpen
    RefundTestIsExact
    PaidOnceOnOneSide
    GatewayInvariant
PROPERTIES
    ClosingSettlesAll
CHECK_DEADLOCK FALSE
