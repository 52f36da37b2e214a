SPECIFICATION Spec
CONSTANTS
  g1 = g1  g2 = g2  A = A  B = B  x1 = x1  x2 = x2  x3 = x3  c1 = c1  c2 = c2
  Conns = {g1, g2}
  Gateways = {A, B}
  Of <- HomeOf
  Clients = {x1, x2, x3}
  Home <- Homes
  ClientIds = {c1, c2}
  IdOf <- Numbers
  Players = {p1}
  Rooms = {0, 1, 2}
  FirstRooms = {1}
  ThreadCount = 2
  MaxPackets <- Packets
  Sent <- Shapes
  None = None
  Away = Away
INVARIANTS HandledInOrder EnterFindsRoom RoutesAlive OnlyMembersReached
PROPERTY EveryMessageHandled
