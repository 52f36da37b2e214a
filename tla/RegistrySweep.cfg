\* One node that may stop its heartbeats, one subscriber.
SPECIFICATION SweepSpec
CONSTANTS
    c1 = c1  biz = biz  n1 = n1
    Conns = {c1}
    Watchers = {}
    Types = {biz}
    Nodes = {n1}
    TypeOf <- MCTypeOf
    EventCap = 1
    SendCap = 1
    MaxCtx = 1
    MaxRegs = 1
PROPERTY ExpiredLeaves
CHECK_DEADLOCK FALSE
