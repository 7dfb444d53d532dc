SPECIFICATION TransactionsSpec
CONSTANTS
    Users = {ana}
    Suggestions = {s}
    Feedbacks = {f}
    Recharges = {k1, k2}
    Workers = {w1, w2}
    NoUser = NoUser  Absent = Absent  Idle = Idle
    Amounts = {3}
    MaxAmount = 3
    Grant = 4
    MinBalance = 2
    MaxBalance = 4
    MaxDrafts = 1
    Players = {ana, bia}
    Contests = {k1, k2}
    Engines = {w1, w2}
    Odds = {95}
    Opening = 6
    LastRound = 4
    NoRow = NoRow
SYMMETRY Symmetry
INVARIANTS
    CreditsBounded
    OverdraftBounded
    OnePendingRecharge
    CreditedIsDecided
    ReputationInvariant
CHECK_DEADLOCK FALSE
