------------------------- MODULE MatchEngineProofs -------------------------
(***************************************************************************)
(* Theorems about MatchEngine for any players, team sizes, waiting times   *)
(* and priorities, and for every rating a full scan of the pool can reach. *)
(***************************************************************************)
EXTENDS MatchEngine, FiniteSetTheorems, TLAPS

\* matchMode's snapshot is QueryRange(0, 99999): the engine finds no others.
Reachable == {r \in Nat : r <= ScanRadius}

-----------------------------------------------------------------------------
(* Integer division                                                        *)

\* A bucket boundary separates: a rating in a higher bucket is higher.
LEMMA DivMonotone ==
    ASSUME NEW a \in Nat, NEW b \in Nat, a <= b
    PROVE  a \div BucketMMRRange <= b \div BucketMMRRange /\ a \div BucketMMRRange \in Nat
BY DEF BucketMMRRange

\* Go's division rounds a negative bound to a bucket that is not above 0.
LEMMA GoDivBelow ==
    ASSUME NEW a \in Int, NEW b \in Nat, a <= b
    PROVE  /\ GoDiv(a, BucketMMRRange) \in Int
           /\ (IF GoDiv(a, BucketMMRRange) < 0 THEN 0 ELSE GoDiv(a, BucketMMRRange))
                 <= GoDiv(b, BucketMMRRange)
<1>1. GoDiv(b, BucketMMRRange) = b \div BucketMMRRange /\ b \div BucketMMRRange \in Nat
  BY DivMonotone DEF GoDiv
<1>2. CASE a >= 0
  <2>1. a \in Nat /\ GoDiv(a, BucketMMRRange) = a \div BucketMMRRange
    BY <1>2 DEF GoDiv
  <2>2. a \div BucketMMRRange <= b \div BucketMMRRange /\ a \div BucketMMRRange \in Nat
    BY <2>1, DivMonotone
  <2>3. QED
    BY <1>1, <2>1, <2>2
<1>3. CASE ~(a >= 0)
  <2>1. -a \in Nat
    BY <1>3
  <2>2. (-a) \div BucketMMRRange \in Nat
    BY <2>1, DivMonotone
  <2>3. GoDiv(a, BucketMMRRange) = -((-a) \div BucketMMRRange)
    BY <1>3 DEF GoDiv
  <2>4. GoDiv(a, BucketMMRRange) \in Int /\ GoDiv(a, BucketMMRRange) <= 0
    BY <2>2, <2>3
  <2>5. QED
    BY <1>1, <2>4
<1>4. QED
  BY <1>2, <1>3

\* Whoever is within the radius is in one of the buckets that are scanned.
LEMMA ScannedCovers ==
    ASSUME NEW mmr \in Nat, NEW center \in Nat, NEW radius \in Int,
           MatchQuality(mmr, center) <= radius
    PROVE  BucketIndex(mmr) \in Scanned(center, radius)
<1> DEFINE lo == GoDiv(center - radius, BucketMMRRange)
           hi == GoDiv(center + radius, BucketMMRRange)
<1>1. center - radius <= mmr /\ mmr <= center + radius /\ center - radius \in Int /\ center + radius \in Int
  BY DEF MatchQuality
<1>2. center + radius \in Nat
  BY <1>1
<1>3. lo \in Int /\ (IF lo < 0 THEN 0 ELSE lo) <= GoDiv(mmr, BucketMMRRange)
  BY <1>1, GoDivBelow
<1>4. GoDiv(mmr, BucketMMRRange) = mmr \div BucketMMRRange /\ hi = (center + radius) \div BucketMMRRange
  BY <1>2 DEF GoDiv
<1>5. /\ mmr \div BucketMMRRange <= (center + radius) \div BucketMMRRange
      /\ mmr \div BucketMMRRange \in Nat /\ (center + radius) \div BucketMMRRange \in Nat
  BY <1>1, <1>2, DivMonotone
<1>6. BucketIndex(mmr) = GoDiv(mmr, BucketMMRRange)
  BY DEF BucketIndex
<1>7. Scanned(center, radius) = (IF lo < 0 THEN 0 ELSE lo) .. hi
  BY DEF Scanned
<1> HIDE DEF lo, hi
<1>8. QED
  BY <1>3, <1>4, <1>5, <1>6, <1>7

-----------------------------------------------------------------------------
(* Counting                                                                *)

\* One ticket at each place: as many tickets as places.
LEMMA ImageCount ==
    ASSUME NEW s, NEW P, IsFiniteSet(P), \A i, j \in P : s[i] = s[j] => i = j,
           NEW T, \A i \in P : s[i] \in T, \A x \in T : \E i \in P : s[i] = x
    PROVE  Cardinality(T) = Cardinality(P)
<1> DEFINE f == [i \in P |-> s[i]]
<1>1. f \in [P -> T] /\ \A x \in T : \E i \in P : f[i] = x
  OBVIOUS
<1>2. ASSUME NEW i \in P, NEW j \in P, f[i] = f[j] PROVE i = j
  BY <1>2
<1> HIDE DEF f
<1>3. f \in Bijection(P, T)
  BY <1>1, <1>2 DEF Bijection, Injection, IsInjective, Surjection
<1>4. QED
  BY <1>3, FS_Bijection DEF ExistsBijection

\* Half of the places are odd, half of them even.
LEMMA Halves ==
    ASSUME NEW n \in Nat
    PROVE  /\ Cardinality({i \in 1..(2 * n) : i % 2 = 1}) = n
           /\ Cardinality({i \in 1..(2 * n) : i % 2 = 0}) = n
<1> DEFINE Odd == {i \in 1..(2 * n) : i % 2 = 1}
           Even == {i \in 1..(2 * n) : i % 2 = 0}
           f == [k \in 1..n |-> 2 * k - 1]
           g == [k \in 1..n |-> 2 * k]
<1>1. f \in [1..n -> Odd] /\ g \in [1..n -> Even]
  OBVIOUS
<1>2. ASSUME NEW i \in Odd PROVE \E k \in 1..n : f[k] = i
  <2>1. (i + 1) \div 2 \in 1..n /\ 2 * ((i + 1) \div 2) - 1 = i
    OBVIOUS
  <2>2. QED
    BY <2>1
<1>3. ASSUME NEW i \in Even PROVE \E k \in 1..n : g[k] = i
  <2>1. i \div 2 \in 1..n /\ 2 * (i \div 2) = i
    OBVIOUS
  <2>2. QED
    BY <2>1
<1>4. \A a, b \in 1..n : (f[a] = f[b] => a = b) /\ (g[a] = g[b] => a = b)
  OBVIOUS
<1> HIDE DEF Odd, Even, f, g
<1>5. f \in Bijection(1..n, Odd) /\ g \in Bijection(1..n, Even)
  BY <1>1, <1>2, <1>3, <1>4 DEF Bijection, Injection, IsInjective, Surjection
<1>6. Cardinality(Odd) = n /\ Cardinality(Even) = n
  BY <1>5, FS_CountingElements DEF ExistsBijection
<1>7. QED
  BY <1>6 DEF Odd, Even

\* Among the first places there is at most one odd one more than even ones.
LEMMA Alternate ==
    ASSUME NEW N \in Nat, NEW K \in SUBSET (1..N),
           \A i \in K, j \in 1..N : j < i => j \in K
    PROVE  Cardinality({i \in K : i % 2 = 1}) - Cardinality({i \in K : i % 2 = 0}) \in {0, 1}
<1> DEFINE Odd == {i \in K : i % 2 = 1}
           Even == {i \in K : i % 2 = 0}
           f == [i \in Even |-> i - 1]
           g == [i \in Odd \ {1} |-> i - 1]
<1>1. IsFiniteSet(K)
  <2>1. IsFiniteSet(1..N)
    BY FS_Interval
  <2>2. QED
    BY <2>1, FS_Subset
<1>2. IsFiniteSet(Odd) /\ IsFiniteSet(Even)
  BY <1>1, FS_Subset
<1>3. Cardinality(Odd) \in Nat /\ Cardinality(Even) \in Nat
  BY <1>2, FS_CardinalityType
<1>4. ASSUME NEW i \in Even PROVE i - 1 \in Odd
  <2>1. i - 1 \in 1..N /\ i - 1 < i /\ (i - 1) % 2 = 1
    OBVIOUS
  <2>2. QED
    BY <2>1
<1>5. ASSUME NEW i \in Odd \ {1} PROVE i - 1 \in Even
  <2>1. i - 1 \in 1..N /\ i - 1 < i /\ (i - 1) % 2 = 0
    OBVIOUS
  <2>2. QED
    BY <2>1
<1>6. \A a, b \in Even : f[a] = f[b] => a = b
  OBVIOUS
<1>7. \A a, b \in Odd \ {1} : g[a] = g[b] => a = b
  OBVIOUS
<1>8. f \in Injection(Even, Odd) /\ g \in Injection(Odd \ {1}, Even)
  BY <1>4, <1>5, <1>6, <1>7 DEF Injection, IsInjective
<1> HIDE DEF Odd, Even, f, g
<1>9. Cardinality(Even) <= Cardinality(Odd) /\ Cardinality(Odd \ {1}) <= Cardinality(Even)
  BY <1>2, <1>8, FS_Injection
<1>10. Cardinality(Odd) <= Cardinality(Odd \ {1}) + 1
  BY <1>2, <1>3, FS_RemoveElement
<1>11. Cardinality(Odd \ {1}) \in Nat
  BY <1>2, FS_RemoveElement, FS_CardinalityType
<1>12. Cardinality(Odd) - Cardinality(Even) \in {0, 1}
  BY <1>3, <1>9, <1>10, <1>11
<1>13. QED
  BY <1>12 DEF Odd, Even

-----------------------------------------------------------------------------
(* Tickets                                                                 *)

\* A candidate holds tickets of different players, its anchor's among them.
Formed(c) ==
    /\ Members(c) \subseteq Ids /\ c.of \in [Members(c) -> Ticket]
    /\ c.anchor \in Members(c)

\* The pool and what a tick has in hand are tickets. Whoever has been in the
\* queue since the tick began still has the ticket the snapshot saw.
Typed ==
    /\ teamSize \in TeamSizes /\ queueLen \in Nat
    /\ Queuing \subseteq Ids /\ queued \in [Queuing -> Ticket]
    /\ DOMAIN anchors \subseteq Ids /\ anchors \in [DOMAIN anchors -> Ticket]
    /\ \A c \in results : Formed(c)
    /\ stayed \subseteq Queuing
    /\ \A t \in stayed \cap DOMAIN anchors : anchors[t] = queued[t]
    /\ queueLen = 0 => DOMAIN anchors = {} /\ results = {} /\ stayed = {}

LEMMA TypedInit == Init => Typed
BY DEF Init, Typed, Queuing, Formed, Ticket

LEMMA EnqueueTyped ==
    ASSUME Typed, NEW t \in Ids, NEW r \in MMRs, Enqueue(t, r)
    PROVE  Typed'
<1> DEFINE e == [mmr |-> r, wait |-> 0, prio |-> 0, known |-> TRUE]
<1>1. e \in Ticket
  BY DEF Ticket
<1>2. queued' = [x \in Queuing \cup {t} |-> IF x = t THEN e ELSE queued[x]] /\ t \notin Queuing
  BY DEF Enqueue
<1> HIDE DEF e
<1>3. Queuing' = Queuing \cup {t} /\ queued' \in [Queuing' -> Ticket]
      /\ \A x \in Queuing : queued'[x] = queued[x]
  BY <1>1, <1>2 DEF Typed, Queuing
<1>4. UNCHANGED <<teamSize, queueLen, anchors, results, stayed>>
  BY DEF Enqueue
<1>5. QED
  BY <1>3, <1>4 DEF Typed, Formed, Members

LEMMA DequeueTyped ==
    ASSUME Typed, NEW t \in Ids, Dequeue(t)
    PROVE  Typed'
<1>1. Queuing' = Queuing \ {t} /\ queued' \in [Queuing' -> Ticket]
      /\ \A x \in Queuing' : queued'[x] = queued[x]
  BY DEF Dequeue, Without, Typed, Queuing
<1>2. stayed' = stayed \ {t} /\ UNCHANGED <<teamSize, queueLen, anchors, results>>
  BY DEF Dequeue
<1>3. QED
  BY <1>1, <1>2 DEF Typed, Formed, Members

LEMMA ElapseTyped ==
    ASSUME Typed, Elapse
    PROVE  Typed'
<1> DEFINE after(w) == IF w + WaitStep > MaxWait THEN MaxWait ELSE w + WaitStep
<1>1. queued' = [t \in Queuing |-> [queued[t] EXCEPT !.wait = after(queued[t].wait)]]
  BY DEF Elapse
<1>2. \A w \in Nat : after(w) \in Nat
  BY ParamsAssumption
<1> HIDE DEF after
<1>3. ASSUME NEW t \in Queuing
      PROVE  [queued[t] EXCEPT !.wait = after(queued[t].wait)] \in Ticket
  <2>1. queued[t] \in Ticket
    BY DEF Typed
  <2>2. after(queued[t].wait) \in Nat
    BY <1>2, <2>1 DEF Ticket
  <2>3. QED
    BY <2>1, <2>2 DEF Ticket
<1>4. Queuing' = Queuing /\ queued' \in [Queuing' -> Ticket]
  BY <1>1, <1>3 DEF Queuing
<1>5. queueLen = 0 /\ UNCHANGED <<teamSize, queueLen, anchors, results, stayed>>
  BY DEF Elapse
<1>6. QED
  BY <1>4, <1>5 DEF Typed, Formed, Members

\* A set of tickets in the pool is finite.
LEMMA PoolFinite ==
    ASSUME Typed, NEW S \in SUBSET Queuing
    PROVE  IsFiniteSet(S) /\ Cardinality(S) \in Nat
<1>1. S \in SUBSET Ids
  BY DEF Typed
<1>2. IsFiniteSet(S)
  BY <1>1, IdsAssumption, FS_Subset
<1>3. QED
  BY <1>2, FS_CardinalityType

LEMMA NeededType ==
    ASSUME Typed
    PROVE  teamSize \in Nat /\ teamSize > 0 /\ Needed = 2 * teamSize /\ Needed \in Nat /\ Needed >= 2
BY ParamsAssumption DEF Typed, Needed

LEMMA SnapshotTyped ==
    ASSUME Typed, matchMode
    PROVE  Typed'
<1>1. Snapshot \subseteq Queuing
  BY DEF Snapshot, QueryRange
<1>2. Cardinality(Snapshot) \in Nat /\ Cardinality(Snapshot) # 0
  BY <1>1, PoolFinite, NeededType DEF matchMode
<1>3. UNCHANGED <<queued, teamSize, results>> /\ stayed' = Snapshot
      /\ anchors' = [t \in Snapshot |-> queued[t]] /\ queueLen' = Cardinality(Snapshot)
  BY DEF matchMode
<1>4. QED
  BY <1>1, <1>2, <1>3 DEF Typed, Formed, Members, Queuing

LEMMA WithoutAnchor ==
    ASSUME Typed, NEW t \in Ids, anchors' = Without(anchors, t)
    PROVE  /\ DOMAIN anchors' = DOMAIN anchors \ {t}
           /\ anchors' \in [DOMAIN anchors' -> Ticket]
           /\ \A x \in DOMAIN anchors' : anchors'[x] = anchors[x]
BY DEF Typed, Without

LEMMA SkipTyped ==
    ASSUME Typed, NEW t \in Ids, SkipAnchor(t)
    PROVE  Typed'
<1>1. anchors' = Without(anchors, t) /\ UNCHANGED <<queued, teamSize, queueLen, results, stayed>>
  BY DEF SkipAnchor
<1>2. QED
  BY <1>1, WithoutAnchor DEF Typed, Formed, Members, Queuing

\* What the tick picks for an anchor are tickets, as many as it needs, all
\* distinct and not used before.
LEMMA PickTyped ==
    ASSUME Typed, NEW t \in DOMAIN anchors, t \notin Used, NEW S \in Closest(t),
           NEW of, of = [x \in S \cup {t} |-> IF x = t THEN anchors[t] ELSE queued[x]]
    PROVE  /\ S \subseteq Available(t) /\ S \subseteq Queuing /\ t \notin S
           /\ DOMAIN of = S \cup {t} /\ S \cup {t} \subseteq Ids /\ of \in [S \cup {t} -> Ticket]
           /\ (S \cup {t}) \cap Used = {}
           /\ IsFiniteSet(S \cup {t}) /\ Cardinality(S \cup {t}) = Needed
<1>1. S \subseteq Available(t) /\ Cardinality(S) = Needed - 1
  BY DEF Closest
<1>2. S \subseteq Queuing /\ t \notin S /\ S \cap Used = {}
  BY <1>1 DEF Available, QueryRange
<1>3. S \cup {t} \subseteq Ids /\ of \in [S \cup {t} -> Ticket]
  BY <1>2 DEF Typed
<1>4. IsFiniteSet(S \cup {t}) /\ Cardinality(S \cup {t}) = Cardinality(S) + 1
  BY <1>2, PoolFinite, FS_AddElement
<1>5. QED
  BY <1>1, <1>2, <1>3, <1>4, NeededType

LEMMA GroupTyped ==
    ASSUME Typed, NEW t \in Ids, GroupAnchor(t)
    PROVE  Typed'
<1>1. PICK S \in Closest(t) :
         LET of == [x \in S \cup {t} |-> IF x = t THEN anchors[t] ELSE queued[x]]
         IN  \E s \in Rankings(of) :
               results' = results \cup {[anchor |-> t, of |-> of,
                                         teamA |-> {s[i] : i \in Places(1)},
                                         teamB |-> {s[i] : i \in Places(0)}]}
  BY DEF GroupAnchor
<1> DEFINE of == [x \in S \cup {t} |-> IF x = t THEN anchors[t] ELSE queued[x]]
<1>2. PICK s \in Rankings(of) :
        results' = results \cup {[anchor |-> t, of |-> of,
                                  teamA |-> {s[i] : i \in Places(1)},
                                  teamB |-> {s[i] : i \in Places(0)}]}
  BY <1>1
<1>3. t \in DOMAIN anchors /\ t \notin Used
  BY DEF GroupAnchor, NextAnchor
<1>4. DOMAIN of = S \cup {t} /\ S \cup {t} \subseteq Ids /\ of \in [S \cup {t} -> Ticket]
  BY <1>3, PickTyped
<1> HIDE DEF of
<1>5. \A c \in results' : Formed(c)
  BY <1>2, <1>4 DEF Typed, Formed, Members
<1>6. anchors' = Without(anchors, t) /\ UNCHANGED <<queued, teamSize, queueLen, stayed>>
  BY DEF GroupAnchor
<1>7. queueLen # 0
  BY <1>3 DEF Typed
<1>8. QED
  BY <1>5, <1>6, <1>7, WithoutAnchor DEF Typed, Queuing

LEMMA OutcomeTyped ==
    ASSUME Typed, NEW confirmed \in SUBSET results, Outcome(confirmed)
    PROVE  Typed'
<1> DEFINE gone == UNION {Members(c) : c \in confirmed}
           back == results \ confirmed
           dom == (Queuing \cup UNION {Members(c) : c \in back}) \ gone
<1>1. queued' = [t \in dom |->
                   IF \E c \in back : t \in Members(c)
                   THEN Released(CHOOSE c \in back : t \in Members(c), t) ELSE queued[t]]
  BY DEF Outcome
<1>2. ASSUME NEW c \in back, NEW t \in Members(c) PROVE Released(c, t) \in Ticket
  <2>1. c.of[t] \in Ticket
    BY DEF Typed, Formed
  <2> DEFINE b == c.of[t].known /\ t \in Queuing
  <2>2. b \in BOOLEAN
    OBVIOUS
  <2>3. Released(c, t) = [c.of[t] EXCEPT !.prio = c.of[t].prio + 1, !.known = b]
    BY DEF Released
  <2> HIDE DEF b
  <2>4. c.of[t] = [mmr |-> c.of[t].mmr, wait |-> c.of[t].wait, prio |-> c.of[t].prio,
                   known |-> c.of[t].known]
        /\ c.of[t].mmr \in MMRs /\ c.of[t].wait \in Nat /\ c.of[t].prio \in Nat
    BY <2>1 DEF Ticket
  <2>5. Released(c, t) = [mmr |-> c.of[t].mmr, wait |-> c.of[t].wait, prio |-> c.of[t].prio + 1, known |-> b]
    BY <2>3, <2>4
  <2>6. QED
    BY <2>2, <2>4, <2>5 DEF Ticket
<1>3. dom \subseteq Ids
  BY DEF Typed, Formed
<1>4. \A t \in dom : ~(\E c \in back : t \in Members(c)) => t \in Queuing
  OBVIOUS
<1> HIDE DEF dom, back, gone
<1>5. ASSUME NEW t \in dom PROVE queued'[t] \in Ticket
  <2>1. CASE \E c \in back : t \in Members(c)
    <3>1. (CHOOSE c \in back : t \in Members(c)) \in back
          /\ t \in Members(CHOOSE c \in back : t \in Members(c))
      BY <2>1
    <3>2. QED
      BY <1>1, <1>2, <2>1, <3>1
  <2>2. CASE ~(\E c \in back : t \in Members(c))
    BY <1>1, <1>4, <2>2 DEF Typed
  <2>3. QED
    BY <2>1, <2>2
<1>6. Queuing' = dom /\ Queuing' \subseteq Ids /\ queued' \in [Queuing' -> Ticket]
  BY <1>1, <1>3, <1>5 DEF Queuing
<1>7. queueLen' = 0 /\ results' = {} /\ stayed' = {} /\ anchors = << >>
      /\ teamSize' = teamSize /\ anchors' = anchors
  BY DEF Outcome
<1>8. DOMAIN anchors = {}
  BY <1>7
<1>9. QED
  BY <1>6, <1>7, <1>8 DEF Typed, Formed

LEMMA TypedStep == Typed /\ [Next]_vars => Typed'
<1> SUFFICES ASSUME Typed, [Next]_vars PROVE Typed'
  OBVIOUS
<1>1. CASE UNCHANGED vars
  BY <1>1 DEF vars, Typed, Formed, Members, Queuing
<1>2. QED
  BY <1>1, EnqueueTyped, DequeueTyped, ElapseTyped, SnapshotTyped, SkipTyped, GroupTyped,
     OutcomeTyped DEF Next

-----------------------------------------------------------------------------
(* QueryRange                                                              *)

\* The rating of a ticket in the pool is one that requests carry.
LEMMA RatingType ==
    ASSUME Typed, MMRs \subseteq Reachable, NEW t \in Queuing
    PROVE  Mmr(t) \in Reachable
<1>1. queued[t] \in Ticket
  BY DEF Typed
<1>2. QED
  BY <1>1 DEF Ticket, Mmr

\* QueryRange returns exactly the tickets within the radius, for any center that
\* is a rating and any radius.
LEMMA QueryExact ==
    ASSUME Typed, MMRs \subseteq Reachable, NEW center \in Nat, NEW radius \in Int
    PROVE  QueryRange(center, radius) = InRange(center, radius)
<1>1. \A t \in Queuing : Mmr(t) \in Nat
  BY RatingType DEF Reachable
<1>2. \A t \in Queuing : MatchQuality(Mmr(t), center) <= radius =>
                             BucketIndex(Mmr(t)) \in Scanned(center, radius)
  BY <1>1, ScannedCovers
<1>3. QED
  BY <1>2 DEF QueryRange, InRange

\* The radius of a search is a number, however long a ticket waits.
LEMMA RadiusType ==
    ASSUME Typed, NEW e \in Ticket
    PROVE  Radius(e) \in Nat
<1>1. queueLen \in Nat /\ e.wait \in Nat
  BY DEF Typed, Ticket
<1>2. QED
  BY <1>1 DEF Radius, SearchRadius, BaseSearchRadius, PopRadiusFactor, WaitRadiusFactor,
     MaxSearchRadius

\* The query of an anchor is exact.
LEMMA AnchorQuery ==
    ASSUME Typed, MMRs \subseteq Reachable, NEW t \in DOMAIN anchors
    PROVE  /\ anchors[t].mmr \in Nat /\ Radius(anchors[t]) \in Nat
           /\ QueryRange(anchors[t].mmr, Radius(anchors[t])) = InRange(anchors[t].mmr, Radius(anchors[t]))
<1>1. anchors[t] \in Ticket
  BY DEF Typed
<1>2. anchors[t].mmr \in Nat
  BY <1>1 DEF Ticket, Reachable
<1>3. Radius(anchors[t]) \in Nat
  BY <1>1, RadiusType
<1>4. QED
  BY <1>2, <1>3, QueryExact

\* QueryRange keeps its contract in every state of the engine, for all ratings
\* from 0 to the 99999 matchMode scans: neither the rounding of bucket bounds nor
\* their clamping at 0 loses a ticket, and the snapshot a tick starts from is the
\* whole queue.
THEOREM RangeQueries ==
    ASSUME MMRs \subseteq Reachable
    PROVE  Spec => []RangeExact
<1>1. ASSUME Typed PROVE RangeExact
  <2>1. \A t \in Queuing : Mmr(t) \in Reachable
    BY <1>1, RatingType
  <2>2. ASSUME NEW t \in Queuing PROVE MatchQuality(Mmr(t), 0) <= ScanRadius
    <3>1. Mmr(t) \in Reachable
      BY <2>1
    <3>2. QED
      BY <3>1 DEF MatchQuality, Reachable
  <2>3. Snapshot = InRange(0, ScanRadius)
    <3>1. ScanRadius \in Int
      BY DEF ScanRadius
    <3>2. QED
      BY <1>1, <3>1, QueryExact DEF Snapshot
  <2>4. Snapshot = Queuing
    BY <2>2, <2>3 DEF InRange
  <2>5. QED
    BY <1>1, <2>4, AnchorQuery DEF RangeExact
<1>2. QED
  BY <1>1, TypedInit, TypedStep, PTL DEF Spec

-----------------------------------------------------------------------------
(* Grouping: doMatch                                                       *)

\* The teams that some ranking of the tickets gives.
Dealt(of, A, B) ==
    \E s \in Rankings(of) : A = {s[i] : i \in Places(1)} /\ B = {s[i] : i \in Places(0)}

\* The picks of one anchor in the order of their ratings: every picked ticket
\* has one place.
LEMMA TeamsSplit ==
    ASSUME Typed, NEW of, IsFiniteSet(DOMAIN of), Cardinality(DOMAIN of) = Needed,
           NEW A, NEW B, Dealt(of, A, B)
    PROVE  /\ Cardinality(A) = teamSize /\ Cardinality(B) = teamSize
           /\ A \cap B = {} /\ A \cup B = DOMAIN of
<1>1. PICK s \in Rankings(of) : A = {s[i] : i \in Places(1)} /\ B = {s[i] : i \in Places(0)}
  BY DEF Dealt
<1> DEFINE T == {s[i] : i \in 1..Needed}
<1>2. Needed \in Nat /\ teamSize \in Nat /\ Needed = 2 * teamSize
  BY NeededType
<1>3. s \in [1..Needed -> DOMAIN of] /\ \A i, j \in 1..Needed : i < j => s[i] # s[j]
  BY DEF Rankings
<1>4. Places(1) \in SUBSET (1..Needed) /\ Places(0) \in SUBSET (1..Needed)
      /\ Places(1) \cap Places(0) = {} /\ Places(1) \cup Places(0) = 1..Needed
  BY <1>2 DEF Places
<1>5. \A i, j \in 1..Needed : s[i] = s[j] => i = j
  BY <1>2, <1>3
<1>6. IsFiniteSet(1..Needed) /\ Cardinality(1..Needed) = Needed
  BY <1>2, FS_Interval
<1>7. IsFiniteSet(Places(1)) /\ IsFiniteSet(Places(0))
  BY <1>4, <1>6, FS_Subset
<1>8. Cardinality(A) = Cardinality(Places(1)) /\ Cardinality(B) = Cardinality(Places(0))
  <2>1. (\A i \in Places(1) : s[i] \in A) /\ (\A x \in A : \E i \in Places(1) : s[i] = x)
        /\ (\A i \in Places(0) : s[i] \in B) /\ (\A x \in B : \E i \in Places(0) : s[i] = x)
    BY <1>1
  <2>2. QED
    BY <1>4, <1>5, <1>7, <2>1, ImageCount
<1>9. Cardinality(Places(1)) = teamSize /\ Cardinality(Places(0)) = teamSize
  BY <1>2, Halves DEF Places
<1>10. A \cap B = {}
  BY <1>1, <1>4, <1>5
<1>11. A \cup B = T
  BY <1>1, <1>4
<1>12. Cardinality(T) = Needed
  <2>1. (\A i \in 1..Needed : s[i] \in T) /\ (\A x \in T : \E i \in 1..Needed : s[i] = x)
    OBVIOUS
  <2> DEFINE I == 1..Needed
  <2>2. IsFiniteSet(I) /\ (\A i, j \in I : s[i] = s[j] => i = j)
        /\ (\A i \in I : s[i] \in T) /\ (\A x \in T : \E i \in I : s[i] = x)
    BY <1>5, <1>6, <2>1
  <2>3. Cardinality(I) = Needed
    BY <1>6
  <2> HIDE DEF T, I
  <2>4. QED
    BY <2>2, <2>3, ImageCount
<1>13. T \subseteq DOMAIN of
  BY <1>3
<1> HIDE DEF T
<1>14. T = DOMAIN of
  BY <1>12, <1>13, FS_Subset
<1>15. QED
  BY <1>8, <1>9, <1>10, <1>11, <1>14

\* Whoever is rated r or better comes first, and the teams take turns.
LEMMA TeamsLevel ==
    ASSUME Typed, NEW of, NEW A, NEW B, Dealt(of, A, B), NEW r \in Int,
           \A t \in DOMAIN of : of[t].mmr \in Int
    PROVE  Cardinality({t \in A : of[t].mmr >= r}) - Cardinality({t \in B : of[t].mmr >= r})
              \in {0, 1}
<1>1. PICK s \in Rankings(of) : A = {s[i] : i \in Places(1)} /\ B = {s[i] : i \in Places(0)}
  BY DEF Dealt
<1> DEFINE K == {i \in 1..Needed : of[s[i]].mmr >= r}
           KA == {i \in K : i % 2 = 1}
           KB == {i \in K : i % 2 = 0}
<1>2. Needed \in Nat
  BY NeededType
<1>3. s \in [1..Needed -> DOMAIN of]
      /\ \A i, j \in 1..Needed : i < j => s[i] # s[j] /\ of[s[i]].mmr >= of[s[j]].mmr
  BY DEF Rankings
<1>4. K \in SUBSET (1..Needed) /\ \A i \in K, j \in 1..Needed : j < i => j \in K
  <2>1. ASSUME NEW i \in K, NEW j \in 1..Needed, j < i PROVE j \in K
    <3>1. of[s[j]].mmr >= of[s[i]].mmr /\ of[s[i]].mmr >= r
      BY <1>3, <2>1
    <3>2. of[s[j]].mmr \in Int /\ of[s[i]].mmr \in Int
      BY <1>3
    <3>3. QED
      BY <3>1, <3>2
  <2>2. QED
    BY <2>1
<1> DEFINE TA == {t \in A : of[t].mmr >= r}
           TB == {t \in B : of[t].mmr >= r}
<1>5. (\A i \in KA : s[i] \in TA) /\ (\A x \in TA : \E i \in KA : s[i] = x)
      /\ (\A i \in KB : s[i] \in TB) /\ (\A x \in TB : \E i \in KB : s[i] = x)
  BY <1>1 DEF Places
<1>6. KA \in SUBSET (1..Needed) /\ KB \in SUBSET (1..Needed)
  OBVIOUS
<1> HIDE DEF K, TA, TB
<1>7. Cardinality(KA) - Cardinality(KB) \in {0, 1}
  BY <1>2, <1>4, Alternate
<1> HIDE DEF KA, KB
<1>8. Cardinality(TA) = Cardinality(KA) /\ Cardinality(TB) = Cardinality(KB)
  <2>1. \A i, j \in 1..Needed : s[i] = s[j] => i = j
    BY <1>2, <1>3
  <2>2. IsFiniteSet(1..Needed)
    BY <1>2, FS_Interval
  <2>3. IsFiniteSet(KA) /\ IsFiniteSet(KB)
    BY <1>6, <2>2, FS_Subset
  <2>4. (\A i, j \in KA : s[i] = s[j] => i = j) /\ (\A i, j \in KB : s[i] = s[j] => i = j)
    BY <1>6, <2>1
  <2>5. Cardinality(TA) = Cardinality(KA)
    BY <1>5, <2>3, <2>4, ImageCount
  <2>6. Cardinality(TB) = Cardinality(KB)
    BY <1>5, <2>3, <2>4, ImageCount
  <2>7. QED
    BY <2>5, <2>6
<1>9. Cardinality(TA) - Cardinality(TB) \in {0, 1}
  BY <1>7, <1>8
<1>10. QED
  BY <1>9 DEF TA, TB

\* The parts of GroupingSound, for one candidate or one ticket that stayed.
Full(c) ==
    /\ Cardinality(c.teamA) = teamSize /\ Cardinality(c.teamB) = teamSize
    /\ c.teamA \cap c.teamB = {} /\ c.teamA \cup c.teamB = Members(c)

Few(t) == Cardinality(InRange(Mmr(t), Radius(queued[t])) \cap (stayed \ Used)) < Needed

Near(c, t) ==
    /\ MatchQuality(c.of[t].mmr, c.of[c.anchor].mmr) <= Radius(c.of[c.anchor])
    /\ \A x \in stayed \ Used :
          MatchQuality(c.of[t].mmr, c.of[c.anchor].mmr) <= MatchQuality(Mmr(x), c.of[c.anchor].mmr)

Level(c, t) ==
    Above(c, c.teamA, c.of[t].mmr) - Above(c, c.teamB, c.of[t].mmr) \in {0, 1}

LEMMA Parts ==
    GroupingSound <=>
        /\ \A c \in results : Full(c)
        /\ \A c, d \in results : c # d => Members(c) \cap Members(d) = {}
        /\ \A x \in stayed \ InHand : Few(x)
        /\ \A c \in results : \A x \in Members(c) : Near(c, x)
        /\ \A c \in results : \A x \in Members(c) : Level(c, x)
BY DEF GroupingSound, OnceEach, GreedyMaximal, ClosestPicked, TeamsBalanced, Full, Few, Near, Level

LEMMA PartsAfter ==
    ASSUME \A c \in results' : Full(c)',
           \A c, d \in results' : c # d => Members(c) \cap Members(d) = {},
           \A x \in stayed' \ InHand' : Few(x)',
           \A c \in results' : \A x \in Members(c) : Near(c, x)' /\ Level(c, x)'
    PROVE  GroupingSound'
<1>1. \A c : Members(c)' = Members(c)
  BY DEF Members
<1>2. (/\ \A c \in results : Full(c)
       /\ \A c, d \in results : c # d => Members(c) \cap Members(d) = {}
       /\ \A x \in stayed \ InHand : Few(x)
       /\ \A c \in results : \A x \in Members(c) : Near(c, x)
       /\ \A c \in results : \A x \in Members(c) : Level(c, x))'
  BY <1>1
<1>3. QED
  BY <1>2, Parts, PTL

\* What every step does while a tick is at work: candidates are only added, and
\* who is still there has the ticket it had.
Kept ==
    /\ queueLen' = queueLen /\ teamSize' = teamSize /\ results \subseteq results'
    /\ stayed' \subseteq stayed
    /\ \A x \in stayed' : x \in Queuing' /\ queued'[x] = queued[x]

\* Then fewer and fewer are left to be grouped, and the ratings of those who are
\* left do not change.
LEMMA KeptFew ==
    ASSUME Typed, Kept, NEW t \in stayed', Few(t)
    PROVE  Few(t)'
<1> DEFINE L == InRange(Mmr(t), Radius(queued[t])) \cap (stayed \ Used)
<1>1. \A x \in stayed' : Mmr(x)' = Mmr(x) /\ Radius(queued[x])' = Radius(queued[x])
  BY DEF Kept, Mmr, Radius
<1>2. stayed' \subseteq stayed /\ stayed' \subseteq Queuing' /\ stayed \subseteq Queuing
  BY DEF Kept, Typed
<1>3. Used \subseteq Used'
  BY DEF Kept, Used, Members
<1>4. L' \subseteq L
  <2>1. SUFFICES ASSUME NEW x \in L' PROVE x \in L
    OBVIOUS
  <2>2. x \in stayed' /\ x \notin Used' /\ MatchQuality(Mmr(x)', Mmr(t)') <= Radius(queued[t])'
    BY <2>1 DEF InRange
  <2>3. MatchQuality(Mmr(x), Mmr(t)) <= Radius(queued[t])
    BY <1>1, <2>2
  <2>4. QED
    BY <1>2, <1>3, <2>2, <2>3 DEF InRange
<1>5. L \subseteq Queuing
  BY DEF InRange
<1>6. Cardinality(L) < Needed /\ Needed' = Needed /\ Needed \in Nat
  BY NeededType DEF Few, Kept, Needed
<1> HIDE DEF L
<1>7. IsFiniteSet(L) /\ Cardinality(L) \in Nat
  BY <1>5, PoolFinite
<1>8. IsFiniteSet(L') /\ Cardinality(L') <= Cardinality(L)
  BY <1>4, <1>7, FS_Subset
<1>9. Cardinality(L') \in Nat
  BY <1>8, FS_CardinalityType
<1>10. Cardinality(L)' < Needed'
  BY <1>6, <1>7, <1>8, <1>9
<1>11. QED
  BY <1>10 DEF Few, L

\* And a candidate stays what it was.
LEMMA KeptCandidate ==
    ASSUME Typed, GroupingSound, Kept, NEW c \in results
    PROVE  Full(c)' /\ \A t \in Members(c) : Near(c, t)' /\ Level(c, t)'
<1>1. Full(c) /\ \A t \in Members(c) : Near(c, t) /\ Level(c, t)
  BY Parts
<1>2. Full(c)'
  BY <1>1 DEF Full, Members, Kept
<1>3. ASSUME NEW t \in Members(c) PROVE Near(c, t)'
  <2>1. \A x \in stayed' : Mmr(x)' = Mmr(x)
    BY DEF Kept, Mmr
  <2>2. stayed' \ Used' \subseteq stayed \ Used
    BY DEF Kept, Used, Members
  <2>3. Radius(c.of[c.anchor])' = Radius(c.of[c.anchor])
    BY DEF Radius, Kept
  <2>4. Near(c, t)
    BY <1>1
  <2>5. QED
    BY <2>1, <2>2, <2>3, <2>4 DEF Near
<1>4. ASSUME NEW t \in Members(c) PROVE Level(c, t)'
  BY <1>1 DEF Level, Above
<1>5. QED
  BY <1>2, <1>3, <1>4

\* A step that groups nobody and takes nothing out of the tick's hand.
LEMMA KeptSound ==
    ASSUME Typed, GroupingSound, Kept, results' = results,
           \A t \in stayed' \ InHand' : Few(t)
    PROVE  GroupingSound'
<1>1. \A t \in (stayed \ InHand)' : Few(t)'
  BY KeptFew
<1>2. \A c \in results' : Full(c)' /\ \A t \in Members(c) : Near(c, t)' /\ Level(c, t)'
  BY KeptCandidate
<1>3. \A c, d \in results' : c # d => Members(c) \cap Members(d) = {}
  BY Parts
<1>4. QED
  BY <1>1, <1>2, <1>3, PartsAfter

\* A player that comes in while a tick is at work was not there when it began.
LEMMA EnqueueSound ==
    ASSUME Typed, GroupingSound, NEW t \in Ids, NEW r \in MMRs, Enqueue(t, r)
    PROVE  GroupingSound'
<1>1. UNCHANGED <<teamSize, queueLen, anchors, results, stayed>> /\ t \notin Queuing
      /\ Queuing' = Queuing \cup {t} /\ \A x \in Queuing : queued'[x] = queued[x]
  BY DEF Enqueue, Queuing
<1>2. Kept
  BY <1>1 DEF Kept, Typed
<1>3. InHand' = InHand
  BY <1>1 DEF InHand, Used, Members
<1>4. QED
  BY <1>1, <1>2, <1>3, KeptSound, Parts

LEMMA DequeueSound ==
    ASSUME Typed, GroupingSound, NEW t \in Ids, Dequeue(t)
    PROVE  GroupingSound'
<1>1. UNCHANGED <<teamSize, queueLen, anchors, results>> /\ stayed' = stayed \ {t}
      /\ Queuing' = Queuing \ {t} /\ \A x \in Queuing' : queued'[x] = queued[x]
  BY DEF Dequeue, Without, Queuing
<1>2. Kept
  BY <1>1 DEF Kept, Typed
<1>3. InHand' = InHand
  BY <1>1 DEF InHand, Used, Members
<1>4. QED
  BY <1>1, <1>2, <1>3, KeptSound, Parts

\* Before the first anchor and after the last candidate there is nothing to show.
LEMMA EmptySound ==
    ASSUME results' = {}, stayed' \subseteq InHand'
    PROVE  GroupingSound'
BY DEF GroupingSound, OnceEach, GreedyMaximal, ClosestPicked, TeamsBalanced

LEMMA TickSound ==
    ASSUME Typed, Elapse \/ matchMode \/ \E confirmed \in SUBSET results : Outcome(confirmed)
    PROVE  GroupingSound'
<1>1. CASE Elapse
  BY <1>1, EmptySound DEF Elapse, Typed
<1>2. CASE matchMode
  <2>1. results' = {} /\ stayed' = Snapshot /\ DOMAIN anchors' = Snapshot
    BY <1>2 DEF matchMode, Typed
  <2>2. QED
    BY <2>1, EmptySound DEF InHand
<1>3. CASE \E confirmed \in SUBSET results : Outcome(confirmed)
  <2>1. results' = {} /\ stayed' = {}
    BY <1>3 DEF Outcome
  <2>2. QED
    BY <2>1, EmptySound
<1>4. QED
  BY <1>1, <1>2, <1>3

\* An anchor that finds too few tickets: nobody it could play with was left out,
\* because its query is exact.
LEMMA SkippedFew ==
    ASSUME Typed, MMRs \subseteq Reachable, NEW t \in DOMAIN anchors, t \in stayed,
           Cardinality(Available(t)) + 1 < Needed
    PROVE  Few(t)
<1> DEFINE L == InRange(Mmr(t), Radius(queued[t])) \cap (stayed \ Used)
           A == Available(t)
<1>1. anchors[t] = queued[t]
  BY DEF Typed
<1>2. QueryRange(anchors[t].mmr, Radius(anchors[t])) = InRange(Mmr(t), Radius(queued[t]))
  BY <1>1, AnchorQuery DEF Mmr
<1>3. L \subseteq A \cup {t}
  BY <1>2 DEF Available
<1>4. A \subseteq Queuing
  BY <1>2 DEF Available, InRange
<1>5. Cardinality(A) + 1 < Needed /\ Needed \in Nat
  BY NeededType
<1> HIDE DEF L, A
<1>6. IsFiniteSet(A) /\ Cardinality(A) \in Nat
  BY <1>4, PoolFinite
<1>7. IsFiniteSet(A \cup {t}) /\ Cardinality(A \cup {t}) <= Cardinality(A) + 1 /\ Cardinality(A \cup {t}) \in Nat
  BY <1>6, FS_AddElement
<1>8. IsFiniteSet(L) /\ Cardinality(L) <= Cardinality(A \cup {t})
  BY <1>3, <1>7, FS_Subset
<1>9. Cardinality(L) \in Nat
  BY <1>8, FS_CardinalityType
<1>10. Cardinality(L) < Needed
  BY <1>5, <1>6, <1>7, <1>8, <1>9
<1>11. QED
  BY <1>10 DEF Few, L

LEMMA SkipSound ==
    ASSUME Typed, GroupingSound, MMRs \subseteq Reachable, NEW t \in Ids, SkipAnchor(t)
    PROVE  GroupingSound'
<1>1. anchors' = Without(anchors, t) /\ UNCHANGED <<queued, teamSize, queueLen, results, stayed>>
      /\ t \in DOMAIN anchors /\ (t \in Used \/ Cardinality(Available(t)) + 1 < Needed)
  BY DEF SkipAnchor, NextAnchor
<1>2. Kept
  BY <1>1 DEF Kept, Typed, Queuing
<1>3. DOMAIN anchors' = DOMAIN anchors \ {t} /\ Used' = Used
  BY <1>1, WithoutAnchor DEF Used, Members
<1>4. ASSUME NEW x \in stayed' \ InHand' PROVE Few(x)
  <2>1. CASE x = t
    <3>1. t \in stayed /\ t \notin Used
      BY <1>1, <1>3, <1>4, <2>1 DEF InHand
    <3>2. QED
      BY <1>1, <2>1, <3>1, SkippedFew
  <2>2. CASE x # t
    <3>1. x \in stayed \ InHand
      BY <1>1, <1>3, <1>4, <2>2 DEF InHand
    <3>2. QED
      BY <3>1, Parts
  <2>3. QED
    BY <2>1, <2>2
<1>5. QED
  BY <1>1, <1>2, <1>4, KeptSound

LEMMA QualityType ==
    ASSUME NEW a \in Nat, NEW b \in Nat
    PROVE  MatchQuality(a, b) \in Nat /\ MatchQuality(a, a) = 0
BY DEF MatchQuality

\* The picks of an anchor are within its reach, and nobody who is left is closer:
\* either the sort put it behind them, or the query did not return it.
LEMMA PickedNear ==
    ASSUME Typed, MMRs \subseteq Reachable, NEW t \in DOMAIN anchors, t \notin Used,
           NEW S \in Closest(t),
           NEW of, of = [x \in S \cup {t} |-> IF x = t THEN anchors[t] ELSE queued[x]],
           NEW x \in S \cup {t}
    PROVE  /\ MatchQuality(of[x].mmr, anchors[t].mmr) <= Radius(anchors[t])
           /\ \A y \in stayed \ (Used \cup S \cup {t}) :
                 MatchQuality(of[x].mmr, anchors[t].mmr) <= MatchQuality(Mmr(y), anchors[t].mmr)
<1> DEFINE m == anchors[t].mmr
           R == Radius(anchors[t])
           far == MatchQuality(of[x].mmr, m)
<1>1. m \in Nat /\ R \in Nat /\ QueryRange(m, R) = InRange(m, R)
  BY AnchorQuery
<1>2. S \subseteq Available(t) /\ S \subseteq Queuing /\ of \in [S \cup {t} -> Ticket] /\ t \notin S
  BY PickTyped
<1>3. of[t] = anchors[t] /\ \A y \in S : of[y].mmr = Mmr(y)
  BY <1>2 DEF Mmr
<1>4. \A y \in S \cup {t} : of[y].mmr \in Nat
  BY <1>2 DEF Ticket, Reachable
<1>5. \A y \in Queuing : Mmr(y) \in Nat
  BY RatingType DEF Reachable
<1>6. Available(t) = InRange(m, R) \ (Used \cup {t})
  BY <1>1 DEF Available
<1> HIDE DEF m, R
<1>7. far \in Nat /\ \A y \in Queuing : MatchQuality(Mmr(y), m) \in Nat
  BY <1>1, <1>4, <1>5, QualityType
<1>8. far <= R
  <2>1. CASE x = t
    <3>1. far = 0
      BY <1>1, <1>3, <2>1, QualityType DEF m
    <3>2. QED
      BY <1>1, <3>1
  <2>2. CASE x \in S
    BY <1>2, <1>3, <1>6, <2>2 DEF InRange
  <2>3. QED
    BY <2>1, <2>2
<1>9. ASSUME NEW y \in stayed \ (Used \cup S \cup {t}) PROVE far <= MatchQuality(Mmr(y), m)
  <2>1. y \in Queuing
    BY DEF Typed
  <2>2. CASE x = t
    <3>1. far = 0
      BY <1>1, <1>3, <2>2, QualityType DEF m
    <3>2. QED
      BY <1>7, <2>1, <3>1
  <2>3. CASE x \in S /\ y \in Available(t)
    <3>1. MatchQuality(Mmr(x), m) <= MatchQuality(Mmr(y), m)
      BY <2>3 DEF Closest, m
    <3>2. QED
      BY <1>3, <2>3, <3>1
  <2>4. CASE y \notin Available(t)
    <3>1. ~(MatchQuality(Mmr(y), m) <= R)
      BY <1>6, <2>1, <2>4 DEF InRange
    <3>2. MatchQuality(Mmr(y), m) \in Nat
      BY <1>7, <2>1
    <3> HIDE DEF far
    <3>3. QED
      BY <1>1, <1>7, <1>8, <3>1, <3>2
  <2>5. QED
    BY <2>2, <2>3, <2>4
<1>10. QED
  BY <1>8, <1>9 DEF m, R

\* The teams of a candidate that has as many tickets as it needs.
LEMMA PickedTeams ==
    ASSUME Typed, NEW of, IsFiniteSet(DOMAIN of), Cardinality(DOMAIN of) = Needed,
           \A x \in DOMAIN of : of[x].mmr \in Int, NEW A, NEW B, Dealt(of, A, B),
           NEW c, c.of = of, c.teamA = A, c.teamB = B
    PROVE  Full(c) /\ \A x \in Members(c) : Level(c, x)
<1>1. Members(c) = DOMAIN of
  BY DEF Members
<1>2. Full(c)
  <2>1. /\ Cardinality(A) = teamSize /\ Cardinality(B) = teamSize
        /\ A \cap B = {} /\ A \cup B = DOMAIN of
    BY TeamsSplit
  <2>2. QED
    BY <1>1, <2>1 DEF Full
<1>3. ASSUME NEW x \in DOMAIN of PROVE Level(c, x)
  <2>1. PICK r \in Int : r = of[x].mmr
    OBVIOUS
  <2>2. Cardinality({y \in A : of[y].mmr >= r}) - Cardinality({y \in B : of[y].mmr >= r}) \in {0, 1}
    BY TeamsLevel
  <2>3. Above(c, A, r) = Cardinality({y \in A : of[y].mmr >= r})
        /\ Above(c, B, r) = Cardinality({y \in B : of[y].mmr >= r})
    BY <1>1 DEF Above
  <2>4. QED
    BY <1>1, <2>1, <2>2, <2>3 DEF Level
<1>4. QED
  BY <1>1, <1>2, <1>3

LEMMA GroupSound ==
    ASSUME Typed, GroupingSound, MMRs \subseteq Reachable, NEW t \in Ids, GroupAnchor(t)
    PROVE  GroupingSound'
<1>1. PICK S \in Closest(t) :
         LET of == [x \in S \cup {t} |-> IF x = t THEN anchors[t] ELSE queued[x]]
         IN  \E s \in Rankings(of) :
               results' = results \cup {[anchor |-> t, of |-> of,
                                         teamA |-> {s[i] : i \in Places(1)},
                                         teamB |-> {s[i] : i \in Places(0)}]}
  BY DEF GroupAnchor
<1>2. PICK of : /\ of = [x \in S \cup {t} |-> IF x = t THEN anchors[t] ELSE queued[x]]
                /\ \E s \in Rankings(of) :
                     results' = results \cup {[anchor |-> t, of |-> of,
                                               teamA |-> {s[i] : i \in Places(1)},
                                               teamB |-> {s[i] : i \in Places(0)}]}
  BY <1>1
<1>3. PICK s \in Rankings(of) :
        results' = results \cup {[anchor |-> t, of |-> of,
                                  teamA |-> {s[i] : i \in Places(1)},
                                  teamB |-> {s[i] : i \in Places(0)}]}
  BY <1>2
<1>4. PICK n : n = [anchor |-> t, of |-> of, teamA |-> {s[i] : i \in Places(1)},
                    teamB |-> {s[i] : i \in Places(0)}]
  OBVIOUS
<1>5. t \in DOMAIN anchors /\ t \notin Used /\ anchors' = Without(anchors, t)
      /\ UNCHANGED <<queued, teamSize, queueLen, stayed>>
  BY DEF GroupAnchor, NextAnchor
<1>6. results' = results \cup {n} /\ n.anchor = t /\ n.of = of /\ of[t] = anchors[t]
  BY <1>2, <1>4, <1>3
<1>7. Members(n) = S \cup {t} /\ Members(n) \cap Used = {} /\ Full(n) /\ \A x \in Members(n) : Level(n, x)
  <2>1. DOMAIN of = S \cup {t} /\ of \in [S \cup {t} -> Ticket] /\ (S \cup {t}) \cap Used = {}
        /\ IsFiniteSet(S \cup {t}) /\ Cardinality(S \cup {t}) = Needed
    BY <1>2, <1>5, PickTyped
  <2>2. n.of = of /\ Dealt(of, n.teamA, n.teamB)
    BY <1>4 DEF Dealt
  <2>3. \A x \in S \cup {t} : of[x].mmr \in Nat
    BY <2>1 DEF Ticket, Reachable
  <2>4. Full(n) /\ \A x \in Members(n) : Level(n, x)
    BY <2>1, <2>2, <2>3, PickedTeams
  <2>5. QED
    BY <2>1, <2>2, <2>4 DEF Members
<1>8. \A x \in S \cup {t} :
        /\ MatchQuality(of[x].mmr, anchors[t].mmr) <= Radius(anchors[t])
        /\ \A y \in stayed \ (Used \cup S \cup {t}) :
              MatchQuality(of[x].mmr, anchors[t].mmr) <= MatchQuality(Mmr(y), anchors[t].mmr)
  BY <1>2, <1>5, PickedNear
<1>9. Kept
  BY <1>5, <1>6 DEF Kept, Typed, Queuing
<1>10. Used' = Used \cup Members(n) /\ \A c : Members(c)' = Members(c)
  BY <1>6 DEF Used, Members
<1>11. ASSUME NEW x \in Members(n) PROVE Near(n, x)'
  <2>1. Radius(n.of[n.anchor])' = Radius(n.of[n.anchor]) /\ \A y : Mmr(y)' = Mmr(y)
    BY <1>5 DEF Radius, Mmr
  <2>2. stayed' \ Used' = stayed \ (Used \cup S \cup {t})
    BY <1>5, <1>7, <1>10
  <2>3. QED
    BY <1>6, <1>7, <1>8, <2>1, <2>2 DEF Near
<1>12. Full(n)' /\ \A x \in Members(n) : Level(n, x)'
  BY <1>5, <1>7, <1>10 DEF Full, Level, Above
<1>13. \A c \in results' : Full(c)' /\ \A x \in Members(c) : Near(c, x)' /\ Level(c, x)'
  BY <1>6, <1>9, <1>11, <1>12, KeptCandidate
<1>14. \A c, d \in results' : c # d => Members(c) \cap Members(d) = {}
  <2>1. \A c \in results : Members(c) \subseteq Used
    BY DEF Used
  <2>2. \A c, d \in results : c # d => Members(c) \cap Members(d) = {}
    BY Parts
  <2>3. QED
    BY <1>6, <1>7, <2>1, <2>2
<1>15. ASSUME NEW x \in stayed' \ InHand' PROVE Few(x)'
  <2>1. DOMAIN anchors' = DOMAIN anchors \ {t}
    BY <1>5, WithoutAnchor
  <2>2. x \in stayed \ InHand
    BY <1>5, <1>7, <1>10, <1>15, <2>1 DEF InHand
  <2>3. QED
    BY <1>5, <1>9, <2>2, KeptFew, Parts
<1>16. QED
  BY <1>13, <1>14, <1>15, PartsAfter

\* doMatch keeps what it owes to a tick for any number of players, team sizes,
\* waits and priorities, over all ratings the full scan reaches, and whoever
\* enters or leaves the queue while its loop runs: nobody is in two teams, no
\* match the rules allow is left on the table, every match is the closest its
\* anchor could get, and its teams are level at every rating.
THEOREM Grouping ==
    ASSUME MMRs \subseteq Reachable
    PROVE  Spec => []GroupingSound
<1>1. Init => Typed /\ GroupingSound
  <2>1. Init => GroupingSound
    BY DEF Init, GroupingSound, OnceEach, GreedyMaximal, ClosestPicked, TeamsBalanced
  <2>2. QED
    BY <2>1, TypedInit
<1>2. Typed /\ GroupingSound /\ [Next]_vars => Typed' /\ GroupingSound'
  <2> SUFFICES ASSUME Typed, GroupingSound, [Next]_vars PROVE GroupingSound'
    BY TypedStep
  <2>1. CASE UNCHANGED vars
    <3>1. Kept /\ results' = results /\ stayed' = stayed /\ InHand' = InHand
      BY <2>1 DEF vars, Kept, Typed, Queuing, InHand, Used, Members
    <3>2. QED
      BY <3>1, KeptSound, Parts
  <2>2. CASE \E t \in Ids, r \in MMRs : Enqueue(t, r)
    BY <2>2, EnqueueSound
  <2>3. CASE \E t \in Ids : Dequeue(t)
    BY <2>3, DequeueSound
  <2>4. CASE \E t \in Ids : SkipAnchor(t)
    BY <2>4, SkipSound
  <2>5. CASE \E t \in Ids : GroupAnchor(t)
    BY <2>5, GroupSound
  <2>6. CASE Elapse \/ matchMode \/ \E confirmed \in SUBSET results : Outcome(confirmed)
    BY <2>6, TickSound
  <2>7. QED
    BY <2>1, <2>2, <2>3, <2>4, <2>5, <2>6 DEF Next
<1>3. QED
  BY <1>1, <1>2, PTL DEF Spec
=============================================================================
