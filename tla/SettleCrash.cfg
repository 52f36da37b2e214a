\* Crashes, failing saves and loads, stale and expiring records at every step.
CONSTANTS
    None = None
    MatchIDs = {1, 2}
    NotifyCap = 2
    MaxCrashes = 2
    Stale = TRUE
    Faults = {"save", "load"}
SPECIFICATION FairSpec
INVARIANTS TypeOK NothingForgotten NoneDroppedAlone
PROPERTIES LegalMatchTransitions EveryMatchSettles WaitsEnd
CHECK_DEADLOCK FALSE
