\* Up to four tickets, one against one and two against two: two candidates per
\* tick, or one and tickets left over, while players come and go.
CONSTANTS
    Ids = {p1, p2, p3, p4}
    MMRs <- Ratings
    TeamSizes = {1, 2}
    WaitStep = 14000
    MaxWait = 14000
    MaxPriority = 1
SPECIFICATION Spec
INVARIANTS RangeExact GroupingSound
SYMMETRY Players
