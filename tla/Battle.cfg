SPECIFICATION Spec
CONSTANTS
    p1 = p1  p2 = p2  p3 = p3
    Players = {p1, p2}
    TeamSize = 1
    CountdownTicks = 1
    TimeoutFrames = 1
    ReconnectFrames = 1
    CatchUp = 1
    MaxFrame = 6
    MaxIdle = 1
    MaxListed = 2
INVARIANTS TypeOK TeamsFit ActivePresent ConfirmedInOrder
PROPERTY KeepsPresent
SYMMETRY Symmetry
CHECK_DEADLOCK FALSE
