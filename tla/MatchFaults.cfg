\* Two connections, players who come back, keys that stay until their TTL, and
\* Redis calls that fail at any time, up to the first race: safety and progress.
CONSTANTS
    u1 = u1
    u2 = u2
    u3 = u3
    u4 = u4
    h1 = h1
    h2 = h2
    m1 = m1
    m2 = m2
    m3 = m3
    NoTicket = NoTicket
    NoRoute = NoRoute
    ClosedRoute = ClosedRoute
    NoMatch = NoMatch
    UIDs = {u1, u2}
    Handlers = {h1, h2}
    MMRs = {290, 310}
    RatingsOf <- OwnRating
    Unbound = {u2}
    Cells = 2
    MatchIDs = {m1, m2, m3}
    TeamSize = 1
    MaxQueueSize = 2
    NotifyCap = 1
    MaxEntries = 3
    Sends <- CancelsApart
    AfterRace = {}
    RedisModes = {TRUE}
    Faults = {"nextid", "cas"}
SPECIFICATION FairSpec
INVARIANT QueuingReachable
PROPERTY QueueDrains
CHECK_DEADLOCK FALSE
