----------------------------- MODULE MatchModel -----------------------------
(***************************************************************************)
(* The two state machines of match-go (services/match-go/internal/model):  *)
(* the life of one player's ticket and the life of one match, each with    *)
(* its table of legal transitions, and the engine's numeric parameters.    *)
(***************************************************************************)
EXTENDS Integers

TicketState == {"idle", "queuing", "matching", "settling", "roomed"}

MatchState ==
    {"draft", "confirmed", "room_prep", "retry", "notifying",
     "complete", "aborted", "rollback", "partial"}

ticketTransitions ==
    [idle     |-> {"queuing"},
     queuing  |-> {"matching", "idle"},
     matching |-> {"settling", "queuing"},
     settling |-> {"roomed", "queuing"},
     roomed   |-> {"idle"}]

matchTransitions ==
    [draft     |-> {"confirmed", "aborted"},
     confirmed |-> {"room_prep"},
     room_prep |-> {"notifying", "retry"},
     retry     |-> {"room_prep", "rollback"},
     notifying |-> {"complete", "partial"},
     rollback  |-> {},
     aborted   |-> {},
     complete  |-> {},
     partial   |-> {}]

CanTransitionTo(s, target) == target \in ticketTransitions[s]

CanMatchTransitionTo(s, target) == target \in matchTransitions[s]

IsTerminal(s) == s \in {"complete", "aborted", "rollback", "partial"}

BucketMMRRange   == 300
MaxRetries       == 3
BaseSearchRadius == 20
MaxSearchRadius  == 300
PopRadiusFactor  == 10
WaitRadiusFactor == 50

\* Go's integer division truncates towards zero, TLA+'s towards minus infinity.
GoDiv(a, b) == IF a >= 0 THEN a \div b ELSE -((-a) \div b)

BucketIndex(mmr) == GoDiv(mmr, BucketMMRRange)

\* The distance MatchQuality returns: smaller is better.
MatchQuality(a, b) == IF a >= b THEN a - b ELSE b - a

SearchRadius(queueLen, waitMs) ==
    LET radius == BaseSearchRadius + queueLen \div PopRadiusFactor
                                   + waitMs \div WaitRadiusFactor
    IN  IF radius > MaxSearchRadius THEN MaxSearchRadius ELSE radius
=============================================================================
