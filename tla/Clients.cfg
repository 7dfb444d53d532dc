SPECIFICATION Spec
CONSTANTS
    Options = {q1, q2}
    Stakes = {1, 2}
    Wires = {s1, s2}
    Posts = {d1}
    NoOption = NoOption
    MaxRaises = 1
    MaxSwitches = 1
    MaxTouches = 2
    MaxElsewhere = 1
    MaxSheets = 2
    Visitors = {u1, u2}
    Careful = {u2}
    Tokens = {s1, s2}
    Visits = {q1, q2}
    Rows = {g1, g2}
    NoWebToken = NoWebToken
    NoVisitor = NoVisitor
    NoRow = NoRow
    MaxVisits = 5
    Forms = {s1, s2}
    Pictures = {g1, g2}
    NoPicture = NoPicture
    MaxRenders = 1
SYMMETRY Interchangeable
INVARIANTS
    TicketInvariant
    WebsiteInvariant
CHECK_DEADLOCK FALSE
