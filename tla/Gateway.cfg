SPECIFICATION Spec
CONSTANTS
  c1 = c1
  c2 = c2
  p1 = p1
  p2 = p2
  Conns = {c1, c2}
  WS = {c1}
  Players = {p1, p2}
  Rooms = {r1, r2}
  Requests <- TwoAndOne
  Chatters = {c1}
  None = None
CHECK_DEADLOCK FALSE
INVARIANTS OneDevice BoundVerified ClosedForgotten
PROPERTIES KickJustified TakeoverEnds
