\* One connection that watches and subscribes, queues of one, three registrations:
\* one for a watchLoop to fail on, one to fill its channel, one to find it full.
SPECIFICATION LiveSpec
CONSTANTS
    c1 = c1  biz = biz  n1 = n1
    Conns = {c1}
    Watchers = {c1}
    Types = {biz}
    Nodes = {n1}
    TypeOf <- MCTypeOf
    EventCap = 1
    SendCap = 1
    MaxCtx = 2
    MaxRegs = 3
INVARIANTS TypeOK NoJoinLost ClosedOnce
PROPERTIES WatchReleased RegisterReturns
CHECK_DEADLOCK FALSE
