\* Three players, one connection: cancels race the tick, players come back.
CONSTANTS
    u1 = u1
    u2 = u2
    u3 = u3
    u4 = u4
    h1 = h1
    h2 = h2
    m1 = m1
    m2 = m2
    m3 = m3
    NoTicket = NoTicket
    NoRoute = NoRoute
    ClosedRoute = ClosedRoute
    NoMatch = NoMatch
    UIDs = {u1, u2, u3}
    Handlers = {h1}
    MMRs = {100}
    RatingsOf <- AnyRating
    Unbound = {}
    Cells = 2
    MatchIDs = {m1, m2}
    TeamSize = 1
    MaxQueueSize = 2
    NotifyCap = 1
    MaxEntries = 3
    Sends <- AnyRequest
    AfterRace = {"others"}
    RedisModes = {TRUE, FALSE}
    Faults = {}
SPECIFICATION Spec
SYMMETRY Perms
VIEW Live
INVARIANTS ConfirmedExclusive MembersReachable InFlightDisjoint
PROPERTY LegalTicketTransitions
CHECK_DEADLOCK FALSE
