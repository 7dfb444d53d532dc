SPECIFICATION OperationsSpec
CONSTANTS
    Users = {ana, bot}
    Bots = {bot}
    Markets = {m}
    AutoClose = {m}
    Options = {yes, no}
    Predictions = {p1}
    Requests = {r1}
    NoOption = NoOption  Absent = Absent  Idle = Idle
    Grant = 10
    Stakes = {5}
    Prices = {40}
    MaxReinforcements = 1
    MaxRevisions = 1
    PenaltyPercent = 20
    MinReinforcement = 1
    MinRemaining = 1
    MaxUndos = 2
    ToolCalls = {p1}
    Agencies = {r1}
    Addresses = {a1}
    MaxAttempts = 1
    MaxKeys = 1
    SpoolLimit = 1
    LastMinute = 0
    MaxAtOnce = 1
    NoFile = NoFile
INVARIANTS
    UndoRevertsCurrentEffects
CHECK_DEADLOCK FALSE
