SPECIFICATION TransactionsSpec
CONSTANTS
    Users = {ana}
    Suggestions = {s}
    Feedbacks = {f}
    Recharges = {k1}
    Workers = {w1, w2}
    NoUser = NoUser  Absent = Absent  Idle = Idle
    Amounts = {3}
    MaxAmount = 3
    Grant = 4
    MinBalance = 2
    MaxBalance = 4
    MaxDrafts = 1
    Players = {ana}
    Contests = {k1}
    Engines = {w1}
    Odds = {95}
    Opening = 6
    LastRound = 1
    NoRow = NoRow
INVARIANTS
    CreditedOnce
CHECK_DEADLOCK FALSE
