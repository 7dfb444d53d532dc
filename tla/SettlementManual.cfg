SPECIFICATION OperationsSpec
CONSTANTS
    Users = {ana, bot}
    Bots = {bot}
    Markets = {m, n}
    AutoClose = {n}
    Options = {yes, no}
    Predictions = {p1, p2}
    Requests = {r1}
    NoOption = NoOption  Absent = Absent  Idle = Idle
    Grant = 10
    Stakes = {4, 6}
    Prices = {40}
    MaxReinforcements = 1
    MaxRevisions = 1
    PenaltyPercent = 20
    MinReinforcement = 1
    MinRemaining = 1
    MaxUndos = 1
    ToolCalls = {p1}
    Agencies = {r1}
    Addresses = {a1}
    MaxAttempts = 1
    MaxKeys = 1
    SpoolLimit = 1
    LastMinute = 0
    MaxAtOnce = 1
    NoFile = NoFile
SYMMETRY Symmetry
INVARIANTS
    LockedIsOpenStakes
PROPERTIES
    OnlyUndoOverdraws
    SealedResultsFinal
    CustodySpec
CHECK_DEADLOCK FALSE
