SPECIFICATION Spec
CONSTANTS
    Accounts = {root, op}
    Roots = {root}
    Requests = {r1, r2}
    SessionSlots = {s1, s2}
    ChallengeSlots = {c1}
    ResetLinks = {l1}
    NoAccount = NoAccount
    NoLink = NoLink
    MaxTimestep = 1
    MaxAccountEdits = 2
    Members = {boss, ana}
    Seeded = {boss}
    Addresses = {e1, e2}
    NoAddress = NoAddress
    Identities = {i1}
    NoIdentity = NoIdentity
    Callers = {k1, k2}
    Nobody = Nobody
    MaxMemberEdits = 1
    Persons = {boss, ana}
    Guarded = {boss}
    Sessions = {s1, s2}
    Tries = {r1, r2}
    NoToken = NoToken
    NoPerson = NoPerson
    MaxAppStarts = 1
    MaxAttempts = 3
SYMMETRY Interchangeable
INVARIANTS
    SessionInvariant
    OnboardingInvariant
PROPERTIES
    IdentityNeverMoves
CHECK_DEADLOCK FALSE
