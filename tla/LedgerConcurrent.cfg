SPECIFICATION LedgerSpec
CONSTANTS
    Workers = {w1, w2}
    Readers = {r1, r2}
    w1 = w1
    w2 = w2
    r1 = r1
    r2 = r2
    MaxEvents = 4
    MaxAppends = 4
    MaxBatch = 2
    Damages = {}
    Absent = Absent
    Idle = Idle
    Bettors = {b1, b2}
    b1 = b1
    b2 = b2
    MaxBets = 3
    MaxResolutions = 2
    MaxRestarts = 1
    Notes = {r1, r2}
    Browsers = {w1, w2}
    Sittings = {s1}
    Members = {m1}
    NoMember = NoMember
    Nothing = Nothing
    LateDays = 0
    Mature = 2
    Retain = 2
    LastDay = 4
    MaxInFlight = 1
SYMMETRY Perms
INVARIANTS
    ChainWhole
    NoAppendCollides
    NoFalseAlarm
    RecordInvariant
    ObservationInvariant
