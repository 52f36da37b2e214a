---------------------------- MODULE MatchEngine ----------------------------
(***************************************************************************)
(* The matching algorithm of match-go (internal/engine): tickets in rating *)
(* buckets, QueryRange, and doMatch, which groups the tickets of one mode  *)
(* around anchors. doMatch takes its anchors from a snapshot and asks the  *)
(* live pool for each of them, while players enter and leave; a step is    *)
(* one anchor. Tickets wait, and come back with a higher priority when     *)
(* their candidate was refused. A pool that lists a ticket or a player     *)
(* twice is the subject of MatchService.                                   *)
(***************************************************************************)
EXTENDS MatchModel, FiniteSets

CONSTANTS
    Ids,          \* players, by whose uid tickets are known
    MMRs,         \* ratings of requests
    TeamSizes,    \* players per team, by mode
    WaitStep,     \* milliseconds that pass in one step
    MaxWait,      \* bound on waiting times
    MaxPriority   \* bound on Priority

ASSUME IdsAssumption == IsFiniteSet(Ids)
ASSUME ParamsAssumption ==
    /\ MMRs \subseteq Int /\ TeamSizes \subseteq Nat \ {0}
    /\ WaitStep \in Nat \ {0} /\ MaxWait \in Nat /\ MaxPriority \in Nat

VARIABLES
    queued,    \* uid -> the queuing ticket in the pool
    teamSize,  \* of the mode these tickets queue for
    queueLen,  \* length of the tick's snapshot; 0 while no tick is at work
    anchors,   \* uid -> ticket of the snapshot that has not been an anchor yet
    results,   \* candidates of this tick
    stayed     \* history: who is in the snapshot and has not left since

vars == <<queued, teamSize, queueLen, anchors, results, stayed>>

\* known: MemoryStore has the ticket too. The pool keeps one without it when a
\* player cancelled and the candidate it was in is put back.
Ticket == [mmr : MMRs, wait : Nat, prio : Nat, known : BOOLEAN]

Needed == 2 * teamSize

Queuing == DOMAIN queued

Mmr(t) == queued[t].mmr

Without(f, t) == [x \in DOMAIN f \ {t} |-> f[x]]

-----------------------------------------------------------------------------
(* BucketPool.QueryRange                                                   *)

\* Mutant: the upper bucket bound computed from the lower end.
ScannedShort(center, radius) ==
    LET lo == GoDiv(center - radius, BucketMMRRange)
    IN  (IF lo < 0 THEN 0 ELSE lo) .. GoDiv(center, BucketMMRRange)

\* The buckets minBucket..maxBucket, minBucket clamped at 0.
Scanned(center, radius) ==
    LET lo == GoDiv(center - radius, BucketMMRRange)
        hi == GoDiv(center + radius, BucketMMRRange)
    IN  (IF lo < 0 THEN 0 ELSE lo) .. hi

QueryRange(center, radius) ==
    {t \in Queuing : /\ BucketIndex(Mmr(t)) \in Scanned(center, radius)
                     /\ MatchQuality(Mmr(t), center) <= radius}

\* Reference: all queuing tickets within the radius.
InRange(center, radius) == {t \in Queuing : MatchQuality(Mmr(t), center) <= radius}

-----------------------------------------------------------------------------
(* Engine.matchMode and doMatch                                            *)

\* The literal radius of matchMode's scan of the whole pool.
ScanRadius == 99999

Snapshot == QueryRange(0, ScanRadius)

Radius(ticket) == SearchRadius(queueLen, ticket.wait)

Members(c) == DOMAIN c.of

Used == UNION {Members(c) : c \in results}

\* Players of whom the tick holds a ticket.
InHand == DOMAIN anchors \cup Used

\* Mutant: does not filter the tickets that are used up.
AvailableAll(t) == QueryRange(anchors[t].mmr, Radius(anchors[t])) \ {t}

Available(t) == QueryRange(anchors[t].mmr, Radius(anchors[t])) \ (Used \cup {t})

\* Anchors come by descending priority. Like the other two orders, this one
\* leaves to sort.Slice, which is not stable, what comes first of two equals.
NextAnchor(t) ==
    /\ t \in DOMAIN anchors
    /\ \A x \in DOMAIN anchors : anchors[x].prio <= anchors[t].prio

\* The first Needed - 1 of the available tickets, by their distance to t.
Closest(t) ==
    {S \in SUBSET Available(t) :
        /\ Cardinality(S) = Needed - 1
        /\ \A x \in S, y \in Available(t) \ S :
              MatchQuality(Mmr(x), anchors[t].mmr) <= MatchQuality(Mmr(y), anchors[t].mmr)}

\* The picked tickets by descending rating.
Rankings(of) ==
    {s \in [1..Needed -> DOMAIN of] :
        \A i, j \in 1..Needed : i < j => s[i] # s[j] /\ of[s[i]].mmr >= of[s[j]].mmr}

Places(odd) == {i \in 1..Needed : i % 2 = odd}

-----------------------------------------------------------------------------
Init ==
    /\ queued = << >>
    /\ teamSize \in TeamSizes
    /\ queueLen = 0 /\ anchors = << >> /\ results = {} /\ stayed = {}

Enqueue(t, mmr) ==
    /\ t \notin Queuing \cup InHand
    /\ queued' = [x \in Queuing \cup {t} |->
                    IF x = t THEN [mmr |-> mmr, wait |-> 0, prio |-> 0, known |-> TRUE]
                             ELSE queued[x]]
    /\ UNCHANGED <<teamSize, queueLen, anchors, results, stayed>>

\* A cancel does not reach a tick that has the ticket already.
Dequeue(t) ==
    /\ t \in Queuing /\ queued[t].known
    /\ queued' = Without(queued, t)
    /\ stayed' = stayed \ {t}
    /\ UNCHANGED <<teamSize, queueLen, anchors, results>>

\* Time passes between ticks; a tick takes none.
Elapse ==
    /\ queueLen = 0
    /\ \E t \in Queuing : queued[t].wait < MaxWait
    /\ queued' = [t \in Queuing |->
                    [queued[t] EXCEPT !.wait = IF @ + WaitStep > MaxWait THEN MaxWait
                                               ELSE @ + WaitStep]]
    /\ UNCHANGED <<teamSize, queueLen, anchors, results, stayed>>

\* Phase A, when enough tickets wait; phases B and C return nothing.
matchMode ==
    /\ queueLen = 0
    /\ Cardinality(Snapshot) >= Needed
    /\ queueLen' = Cardinality(Snapshot)
    /\ anchors' = [t \in Snapshot |-> queued[t]]
    /\ stayed' = Snapshot
    /\ UNCHANGED <<queued, teamSize, results>>

\* One turn of doMatch's loop: the anchor is used up or finds too few.
SkipAnchor(t) ==
    /\ NextAnchor(t)
    /\ t \in Used \/ Cardinality(Available(t)) + 1 < Needed
    /\ anchors' = Without(anchors, t)
    /\ UNCHANGED <<queued, teamSize, queueLen, results, stayed>>

\* Or it becomes a candidate with the closest ones. The teams take the tickets
\* by rating in turn.
GroupAnchor(t) ==
    /\ NextAnchor(t)
    /\ t \notin Used /\ Cardinality(Available(t)) + 1 >= Needed
    /\ \E S \in Closest(t) :
          LET of == [x \in S \cup {t} |-> IF x = t THEN anchors[t] ELSE queued[x]]
          IN  \E s \in Rankings(of) :
                results' = results \cup {[anchor |-> t, of |-> of,
                                          teamA |-> {s[i] : i \in Places(1)},
                                          teamB |-> {s[i] : i \in Places(0)}]}
    /\ anchors' = Without(anchors, t)
    /\ UNCHANGED <<queued, teamSize, queueLen, stayed>>

\* What releaseCandidate puts into the pool, whether or not the player cancelled
\* meanwhile.
Released(c, t) == [c.of[t] EXCEPT !.prio = @ + 1, !.known = @ /\ t \in Queuing]

\* onMatchCandidate, for every candidate of the tick: confirmed, its tickets
\* leave the pool; refused, they leave it and come back.
Outcome(confirmed) ==
    LET gone == UNION {Members(c) : c \in confirmed}
        back == results \ confirmed
    IN  /\ queueLen # 0 /\ anchors = << >>
        /\ \A c \in back, t \in Ids : t \in Members(c) => c.of[t].prio < MaxPriority
        /\ queued' = [t \in (Queuing \cup UNION {Members(c) : c \in back}) \ gone |->
                        IF \E c \in back : t \in Members(c)
                        THEN Released(CHOOSE c \in back : t \in Members(c), t) ELSE queued[t]]
        /\ queueLen' = 0 /\ results' = {} /\ stayed' = {}
        /\ UNCHANGED <<teamSize, anchors>>

Next ==
    \/ \E t \in Ids, r \in MMRs : Enqueue(t, r)
    \/ \E t \in Ids : Dequeue(t) \/ SkipAnchor(t) \/ GroupAnchor(t)
    \/ Elapse \/ matchMode
    \/ \E confirmed \in SUBSET results : Outcome(confirmed)

Spec == Init /\ [][Next]_vars

-----------------------------------------------------------------------------
(* Properties                                                              *)

\* QueryRange returns what its contract says for every center and radius the
\* engine asks for: bucket boundaries, rounding and clamping lose nothing.
RangeExact ==
    /\ Snapshot = Queuing
    /\ \A t \in DOMAIN anchors :
          LET r == Radius(anchors[t])
          IN  QueryRange(anchors[t].mmr, r) = InRange(anchors[t].mmr, r)

\* Over the candidates of one tick a player appears once, in full teams.
OnceEach ==
    /\ \A c \in results :
          /\ Cardinality(c.teamA) = teamSize /\ Cardinality(c.teamB) = teamSize
          /\ c.teamA \cap c.teamB = {} /\ c.teamA \cup c.teamB = Members(c)
    /\ \A c, d \in results : c # d => Members(c) \cap Members(d) = {}

\* A tick leaves no match on the table: nobody who has had its turn could anchor
\* one from those who are left and have been in the queue all the time.
GreedyMaximal ==
    \A t \in stayed \ InHand :
        Cardinality(InRange(Mmr(t), Radius(queued[t])) \cap (stayed \ Used)) < Needed

\* A match takes the players closest to its anchor: whoever has been in the
\* queue all the time and is left over is at least as far from it as any of
\* them, and none of them is out of the anchor's reach.
ClosestPicked ==
    \A c \in results : \A t \in Members(c) :
        LET center == c.of[c.anchor].mmr
            far    == MatchQuality(c.of[t].mmr, center)
        IN  /\ far <= Radius(c.of[c.anchor])
            /\ \A x \in stayed \ Used : far <= MatchQuality(Mmr(x), center)

\* How many of the team are rated r or better.
Above(c, team, r) == Cardinality({t \in team : c.of[t].mmr >= r})

\* Alternate picks balance the teams: at no rating does team A have more than
\* one player more above it than team B, and never fewer. (So the totals of the
\* teams differ by at most the span of ratings in the match.)
TeamsBalanced ==
    \A c \in results : \A t \in Members(c) :
        LET r == c.of[t].mmr IN Above(c, c.teamA, r) - Above(c, c.teamB, r) \in {0, 1}

\* What doMatch owes to a tick, whoever enters and leaves while it runs: nobody
\* is grouped twice, no group the rules allow is missed, every group is the
\* closest its anchor could get, and its teams are level; over any history of
\* waits and refused candidates.
GroupingSound == OnceEach /\ GreedyMaximal /\ ClosestPicked /\ TeamsBalanced
=============================================================================
