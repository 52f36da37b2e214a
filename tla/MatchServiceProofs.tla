------------------------- MODULE MatchServiceProofs -------------------------
(***************************************************************************)
(* Theorems about MatchService for any number of players, connections,     *)
(* tickets and matches, any capacity, with or without Redis, whatever      *)
(* Redis calls fail.                                                       *)
(***************************************************************************)
EXTENDS MatchService, TLAPS

-----------------------------------------------------------------------------
(* Operators                                                               *)

\* A bucket index is an integer: BucketPool's maps are keyed by int32.
LEMMA BucketType ==
    ASSUME TypeOK, NEW t \in TicketIds
    PROVE  Bucket(t) \in Int
<1>1. heap[t].mmr \in Int
  BY SizesAssumption DEF TypeOK, Ticket
<1>2. QED
  BY <1>1 DEF Bucket, BucketIndex, GoDiv, BucketMMRRange

\* UpdateTicketState leaves a heap of tickets, whatever player and state.
LEMMA UpdatedType ==
    ASSUME TypeOK, NEW u \in UIDs, NEW st \in TicketState
    PROVE  Updated(u, st) \in [TicketIds -> Ticket]
<1>1. CASE CanUpdate(u, st)
  <2>1. tickets[u] \in TicketIds
    BY <1>1, NoneAssumption DEF TypeOK, CanUpdate
  <2>2. heap[tickets[u]] \in Ticket
    BY <2>1 DEF TypeOK
  <2>3. [heap[tickets[u]] EXCEPT !.state = st] \in Ticket
    BY <2>2 DEF Ticket
  <2>4. QED
    BY <1>1, <2>1, <2>3 DEF Updated, TypeOK
<1>2. CASE ~CanUpdate(u, st)
  BY <1>2 DEF Updated, TypeOK
<1>3. QED
  BY <1>1, <1>2

\* The tick goroutine's ticket and players, while it has a candidate.
LEMMA CandType ==
    ASSUME TypeOK, tpc # "idle"
    PROVE  /\ CandTicket \in TicketIds
           /\ UidOf(CandTicket) \in UIDs
           /\ CandUids \subseteq UIDs
<1>1. Needed \in Nat /\ Needed >= 1
  BY SizesAssumption DEF Needed
<1>2. Head(cands) \in [1..Needed -> TicketIds]
  BY DEF TypeOK
<1>3. CandTicket \in TicketIds
  BY <1>2 DEF TypeOK, CandTicket
<1>4. \A t \in TicketIds : UidOf(t) \in UIDs
  BY DEF TicketIds, UidOf
<1>5. CandUids \subseteq UIDs
  BY <1>2, <1>4 DEF CandUids, GroupUids
<1>6. QED
  BY <1>3, <1>4, <1>5

\* BucketPool.Dequeue never takes more entries than there are.
LEMMA PoolDequeueType ==
    ASSUME TypeOK, NEW t \in TicketIds, PoolDequeue(t)
    PROVE  pool' \in [TicketIds -> Nat]
<1>1. CASE Entries(t) = {}
  BY <1>1 DEF PoolDequeue, TypeOK
<1>2. CASE Entries(t) # {}
  <2>1. PICK x \in Entries(t) : pool' = [pool EXCEPT ![x] = @ - 1]
    BY <1>2 DEF PoolDequeue
  <2>2. x \in TicketIds /\ pool[x] \in Nat /\ pool[x] > 0
    BY <2>1 DEF Entries, TypeOK
  <2>3. pool[x] - 1 \in Nat
    BY <2>2
  <2>4. QED
    BY <2>1, <2>2, <2>3 DEF TypeOK
<1>3. QED
  BY <1>1, <1>2

LEMMA PoolEnqueueType ==
    ASSUME TypeOK, NEW t \in TicketIds, PoolEnqueue(t)
    PROVE  pool' \in [TicketIds -> Nat] /\ buckets' \subseteq Int
<1>1. Bucket(t) \in Int
  BY BucketType
<1>2. pool[t] \in Nat /\ pool[t] + 1 \in Nat
  BY DEF TypeOK
<1>3. pool' \in [TicketIds -> Nat]
  BY <1>2 DEF PoolEnqueue, TypeOK
<1>4. buckets' \subseteq Int
  BY <1>1 DEF PoolEnqueue, TypeOK
<1>5. QED
  BY <1>3, <1>4

\* What a tick returns is a sequence of groups of tickets.
LEMMA TickResultsType ==
    ASSUME NEW cs \in TickResults
    PROVE  cs \in Seq([1..Needed -> TicketIds]) /\ cs # <<>>
<1>1. Searchable \subseteq TicketIds
  BY DEF Searchable
<1>2. Groups \subseteq [1..Needed -> TicketIds]
  BY <1>1 DEF Groups
<1>3. CASE \E c \in Groups : cs = <<c>>
  BY <1>2, <1>3
<1>4. CASE \E p \in Groups \X Groups : cs = <<p[1], p[2]>>
  BY <1>2, <1>4
<1>5. QED
  BY <1>3, <1>4 DEF TickResults

-----------------------------------------------------------------------------
(* Type correctness                                                        *)

\* The variables of each group are of their type.
MemType == heap \in [TicketIds -> Ticket]
           /\ tickets \in [UIDs -> TicketIds \cup {NoTicket}]
           /\ (\A u \in UIDs : tickets[u] # NoTicket => UidOf(tickets[u]) = u)
           /\ pool \in [TicketIds -> Nat]
           /\ buckets \subseteq Int
           /\ routes \in [UIDs -> Handlers \cup {NoRoute, ClosedRoute}]

HType == hpc \in [Handlers -> HandlerPC]
         /\ hreq \in [Handlers -> TicketIds \cup {NoTicket}]
         /\ (\A h \in Handlers : hpc[h] # "idle" => hreq[h] # NoTicket)

TType == tpc \in TickPC
         /\ cands \in Seq([1..Needed -> TicketIds])
         /\ (tpc # "idle" => cands # <<>>)
         /\ ti \in 1..Needed
         /\ cur \in MatchIDs \cup {NoMatch}
         /\ (tpc \in {"mark", "unpool", "cas", "push"} => cur # NoMatch)

MType == notifyCh \in Seq(MatchIDs)
         /\ settle \in MatchIDs \cup {NoMatch}
         /\ mstate \in [MatchIDs -> MatchState]
         /\ members \in [MatchIDs -> SUBSET UIDs]

RType == redisUp \in BOOLEAN
         /\ settling \in [UIDs -> MatchIDs \cup {NoMatch}]
         /\ claims \in [MatchIDs -> SUBSET UIDs]
         /\ raced \subseteq UIDs

LEMMA TypeParts == TypeOK <=> MemType /\ HType /\ TType /\ MType /\ RType
  BY DEF TypeOK, MemType, HType, TType, MType, RType

\* The initial state is well typed.
LEMMA TypeInit == Init => TypeOK
<1>1. ASSUME Init PROVE TypeOK
  <2>1. (CHOOSE r \in MMRs : TRUE) \in MMRs
    BY SizesAssumption
  <2>2. [mmr |-> CHOOSE r \in MMRs : TRUE, state |-> "idle"] \in Ticket
    BY <2>1 DEF Ticket, TicketState
  <2>3. MemType
    BY <1>1, <2>2 DEF Init, MemType
  <2>4. HType
    BY <1>1 DEF Init, HType, HandlerPC
  <2>5. Needed \in Nat /\ Needed >= 1
    BY SizesAssumption DEF Needed
  <2>6. TType
    BY <1>1, <2>5 DEF Init, TType, TickPC
  <2>7. MType /\ RType
    BY <1>1, SizesAssumption DEF Init, MType, RType, MatchState
  <2>8. QED
    BY <2>3, <2>4, <2>6, <2>7, TypeParts
<1>2. QED
  BY <1>1

\* A handler at work has a ticket, and it is a ticket of a player.
LEMMA RequestTicket ==
    ASSUME TypeOK, NEW h \in Handlers, hpc[h] # "idle"
    PROVE  hreq[h] \in TicketIds /\ UidOf(hreq[h]) \in UIDs
<1>1. hreq[h] \in TicketIds
  BY DEF TypeOK
<1>2. QED
  BY <1>1 DEF TicketIds, UidOf

\* The two ways a handler moves on.
LEMMA GotoType ==
    ASSUME TypeOK, NEW h \in Handlers, NEW pc \in HandlerPC, Goto(h, pc),
           hpc[h] # "idle", UNCHANGED hreq
    PROVE  HType'
  BY DEF TypeOK, Goto, HType

LEMMA ReturnType ==
    ASSUME TypeOK, NEW h \in Handlers, Return(h)
    PROVE  HType'
  BY DEF TypeOK, Return, Goto, HType, HandlerPC

LEMMA RaceType ==
    ASSUME TypeOK, NEW h \in Handlers, NEW u \in UIDs, Race(h, u)
    PROVE  raced' \subseteq UIDs
  BY DEF TypeOK, Race

\* A request's rating is one of MMRs.
LEMMA RatingType ==
    ASSUME NEW u \in UIDs, NEW r \in RatingsOf[u]
    PROVE  r \in MMRs
  BY SizesAssumption

\* Requests and the steps of Enqueue and Dequeue keep the types.
LEMMA HandlerKeepsType ==
    ASSUME TypeOK, NEW h \in Handlers, Request(h) \/ HandlerStep(h)
    PROVE  TypeOK'
<1> USE DEF memVars, hVars, tVars, mVars, rVars
<1>1. ASSUME NEW u \in UIDs, NEW r \in RatingsOf[u], MatchReq(h, u, r) PROVE TypeOK'
  <2>0. r \in MMRs
    BY RatingType
  <2>1. PICK n \in 1..Cells :
            /\ heap' = [heap EXCEPT ![<<u, n>>] = [mmr |-> r, state |-> "idle"]]
            /\ hreq' = [hreq EXCEPT ![h] = <<u, n>>]
    BY <1>1 DEF MatchReq
  <2>2. <<u, n>> \in TicketIds
    BY DEF TicketIds
  <2>3. [mmr |-> r, state |-> "idle"] \in Ticket
    BY <2>0 DEF Ticket, TicketState
  <2>4. heap' \in [TicketIds -> Ticket]
    BY <2>1, <2>2, <2>3 DEF TypeOK
  <2>5. HType'
    BY <1>1, <2>1, <2>2, NoneAssumption DEF MatchReq, Goto, TypeOK, HType, HandlerPC
  <2>6. QED
    BY <1>1, <2>4, <2>5 DEF MatchReq, TypeOK, HType
<1>2. ASSUME EnqueueCheck(h) PROVE TypeOK'
  <2>1. HType'
    BY <1>2, GotoType, ReturnType DEF EnqueueCheck, HandlerPC
  <2>2. QED
    BY <1>2, <2>1 DEF EnqueueCheck, TypeOK, HType
<1>3. ASSUME EnqueuePut(h) PROVE TypeOK'
  <2>1. hreq[h] \in TicketIds /\ UidOf(hreq[h]) \in UIDs
    BY <1>3, RequestTicket DEF EnqueuePut
  <2>2. [heap[hreq[h]] EXCEPT !.state = "queuing"] \in Ticket
    <3>1. heap[hreq[h]] \in Ticket
      BY <2>1 DEF TypeOK
    <3>2. QED
      BY <3>1 DEF Ticket, TicketState
  <2>3. heap' \in [TicketIds -> Ticket]
    BY <1>3, <2>1, <2>2 DEF EnqueuePut, TypeOK
  <2>4. /\ tickets' \in [UIDs -> TicketIds \cup {NoTicket}]
        /\ \A u \in UIDs : tickets'[u] # NoTicket => UidOf(tickets'[u]) = u
    BY <1>3, <2>1 DEF EnqueuePut, TypeOK
  <2>5. HType'
    BY <1>3, GotoType DEF EnqueuePut, HandlerPC
  <2>6. raced' \subseteq UIDs
    BY <1>3, <2>1, RaceType DEF EnqueuePut
  <2>7. QED
    BY <1>3, <2>3, <2>4, <2>5, <2>6 DEF EnqueuePut, TypeOK, HType
<1>4. ASSUME BindRoute(h) PROVE TypeOK'
  <2>1. UidOf(hreq[h]) \in UIDs
    BY <1>4, RequestTicket DEF BindRoute
  <2>2. HType'
    BY <1>4, GotoType DEF BindRoute, HandlerPC
  <2>3. QED
    BY <1>4, <2>1, <2>2 DEF BindRoute, TypeOK, HType
<1>5. ASSUME EnqueuePool(h) PROVE TypeOK'
  <2>1. hreq[h] \in TicketIds
    BY <1>5, RequestTicket DEF EnqueuePool
  <2>2. pool' \in [TicketIds -> Nat] /\ buckets' \subseteq Int
    BY <1>5, <2>1, PoolEnqueueType DEF EnqueuePool
  <2>3. HType'
    BY <1>5, ReturnType DEF EnqueuePool
  <2>4. QED
    BY <1>5, <2>2, <2>3 DEF EnqueuePool, TypeOK, HType
<1>6. ASSUME NEW u \in UIDs, MatchCancelReq(h, u) PROVE TypeOK'
  <2>1. tickets[u] \in TicketIds
    BY <1>6 DEF MatchCancelReq, HasState, TypeOK
  <2>2. HType'
    BY <1>6, <2>1, NoneAssumption DEF MatchCancelReq, Goto, TypeOK, HType, HandlerPC
  <2>3. QED
    BY <1>6, <2>2 DEF MatchCancelReq, TypeOK, HType
<1>7. ASSUME DequeueState(h) PROVE TypeOK'
  <2>1. UidOf(hreq[h]) \in UIDs
    BY <1>7, RequestTicket DEF DequeueState
  <2>2. heap' \in [TicketIds -> Ticket]
    BY <1>7, <2>1, UpdatedType DEF DequeueState, TicketState
  <2>3. HType'
    BY <1>7, GotoType, ReturnType DEF DequeueState, HandlerPC
  <2>4. raced' \subseteq UIDs
    BY <1>7, <2>1, RaceType DEF DequeueState, TypeOK
  <2>5. QED
    BY <1>7, <2>2, <2>3, <2>4 DEF DequeueState, TypeOK, HType
<1>8. ASSUME DequeuePool(h) PROVE TypeOK'
  <2>1. hreq[h] \in TicketIds
    BY <1>8, RequestTicket DEF DequeuePool
  <2>2. pool' \in [TicketIds -> Nat]
    BY <1>8, <2>1, PoolDequeueType DEF DequeuePool
  <2>3. HType'
    BY <1>8, GotoType DEF DequeuePool, HandlerPC
  <2>4. QED
    BY <1>8, <2>2, <2>3 DEF DequeuePool, TypeOK, HType
<1>9. ASSUME DequeuePanic(h) PROVE TypeOK'
  <2>1. HType'
    BY <1>9, ReturnType DEF DequeuePanic
  <2>2. routes' \in [UIDs -> Handlers \cup {NoRoute, ClosedRoute}]
    BY <1>9 DEF DequeuePanic, TypeOK
  <2>3. QED
    BY <1>9, <2>1, <2>2 DEF DequeuePanic, TypeOK, HType
<1>10. ASSUME DeleteTicket(h) PROVE TypeOK'
  <2>1. UidOf(hreq[h]) \in UIDs
    BY <1>10, RequestTicket DEF DeleteTicket
  <2>2. HType'
    BY <1>10, GotoType DEF DeleteTicket, HandlerPC
  <2>3. QED
    BY <1>10, <2>1, <2>2 DEF DeleteTicket, TypeOK, HType
<1>11. ASSUME DeleteRoute(h) PROVE TypeOK'
  <2>1. UidOf(hreq[h]) \in UIDs
    BY <1>11, RequestTicket DEF DeleteRoute
  <2>2. HType'
    BY <1>11, ReturnType DEF DeleteRoute
  <2>3. QED
    BY <1>11, <2>1, <2>2 DEF DeleteRoute, TypeOK, HType
<1>12. QED
  BY <1>1, <1>2, <1>3, <1>4, <1>5, <1>6, <1>7, <1>8, <1>9, <1>10, <1>11
     DEF Request, HandlerStep

\* The loops over a candidate's tickets, and the step to the next candidate.
LEMMA LoopType ==
    ASSUME TypeOK, NEW again, NEW done, LoopTo(again, done)
    PROVE  ti' \in 1..Needed /\ tpc' \in {again, done}
<1>1. Needed \in Nat /\ Needed >= 1
  BY SizesAssumption DEF Needed
<1>2. QED
  BY <1>1 DEF LoopTo, TypeOK

LEMMA NextCandidateType ==
    ASSUME TypeOK, tpc # "idle", NextCandidate
    PROVE  /\ cands' \in Seq([1..Needed -> TicketIds])
           /\ Len(cands) # 1 => cands' # <<>>
           /\ cur' = NoMatch
<1>1. cands \in Seq([1..Needed -> TicketIds]) /\ cands # <<>>
  BY DEF TypeOK
<1>2. Tail(cands) \in Seq([1..Needed -> TicketIds])
  BY <1>1
<1>3. Len(Tail(cands)) = Len(cands) - 1 /\ Len(cands) \in Nat
  BY <1>1
<1>4. cands' = Tail(cands) /\ cur' = NoMatch
  BY DEF NextCandidate
<1>5. ASSUME Len(cands) # 1 PROVE cands' # <<>>
  <2>1. Len(cands') # 0
    BY <1>3, <1>4, <1>5
  <2>2. QED
    BY <2>1, <1>2, <1>4
<1>6. QED
  BY <1>2, <1>4, <1>5

\* Every step of the tick goroutine keeps the types.
LEMMA TickKeepsType ==
    ASSUME TypeOK, TickStep
    PROVE  TypeOK'
<1> USE DEF memVars, hVars, tVars, mVars, rVars
<1>0. Needed \in Nat /\ Needed >= 1
  BY SizesAssumption DEF Needed
<1>1. ASSUME Tick PROVE TypeOK'
  <2>1. cands' \in Seq([1..Needed -> TicketIds]) /\ cands' # <<>>
    BY <1>1, TickResultsType DEF Tick
  <2>2. QED
    BY <1>1, <2>1 DEF Tick, TypeOK, TickPC
<1>2. ASSUME NextMatchID PROVE TypeOK'
  <2>1. cur' \in FreshIDs
    BY <1>2 DEF NextMatchID, NewestIDs
  <2>2. cur' \in MatchIDs /\ cur' # NoMatch
    BY <2>1, NoneAssumption DEF FreshIDs
  <2>3. QED
    BY <1>0, <1>2, <2>2 DEF NextMatchID, TypeOK, TickPC
<1>3. ASSUME NextMatchIDFails PROVE TypeOK'
  BY <1>0, <1>3 DEF NextMatchIDFails, TypeOK, TickPC
<1>4. ASSUME MarkTicket PROVE TypeOK'
  <2>1. UidOf(CandTicket) \in UIDs
    BY <1>4, CandType DEF MarkTicket
  <2>2. heap' \in [TicketIds -> Ticket]
    BY <1>4, <2>1, UpdatedType DEF MarkTicket, TicketState
  <2>3. QED
    BY <1>4, <2>2 DEF MarkTicket, TypeOK, TickPC
<1>5. ASSUME UnpoolTicket PROVE TypeOK'
  <2>1. CandTicket \in TicketIds
    BY <1>5, CandType DEF UnpoolTicket
  <2>2. pool' \in [TicketIds -> Nat]
    BY <1>5, <2>1, PoolDequeueType DEF UnpoolTicket
  <2>3. ti' \in 1..Needed /\ tpc' \in {"mark", "cas"}
    BY <1>5, LoopType DEF UnpoolTicket
  <2>4. QED
    BY <1>5, <2>2, <2>3 DEF UnpoolTicket, TypeOK, TickPC
<1>6. ASSUME Confirm PROVE TypeOK'
  <2>1. CandUids \subseteq UIDs
    BY <1>6, CandType DEF Confirm
  <2>2. cur \in MatchIDs
    BY <1>6 DEF Confirm, TypeOK
  <2>3. settling' \in [UIDs -> MatchIDs \cup {NoMatch}]
    BY <1>6, <2>2 DEF Confirm, TypeOK
  <2>4. claims' \in [MatchIDs -> SUBSET UIDs]
    BY <1>6, <2>1 DEF Confirm, TypeOK
  <2>5. /\ mstate' \in [MatchIDs -> MatchState]
        /\ members' \in [MatchIDs -> SUBSET UIDs]
    BY <1>6, <2>1 DEF Confirm, TypeOK, MatchState
  <2>6. QED
    BY <1>6, <2>3, <2>4, <2>5 DEF Confirm, TypeOK, TickPC
<1>7. ASSUME CASConfirmFails PROVE TypeOK'
  BY <1>7 DEF CASConfirmFails, TypeOK, TickPC
<1>8. ASSUME Push PROVE TypeOK'
  <2>1. cur \in MatchIDs
    BY <1>8 DEF Push, TypeOK
  <2>2. notifyCh' \in Seq(MatchIDs)
    BY <1>8, <2>1 DEF Push, TypeOK
  <2>3. /\ cands' \in Seq([1..Needed -> TicketIds])
        /\ Len(cands) # 1 => cands' # <<>>
        /\ cur' = NoMatch
    BY <1>8, NextCandidateType DEF Push
  <2>4. QED
    BY <1>8, <2>2, <2>3 DEF Push, TypeOK, TickPC
<1>9. ASSUME ReleaseState PROVE TypeOK'
  <2>1. UidOf(CandTicket) \in UIDs
    BY <1>9, CandType DEF ReleaseState
  <2>2. heap' \in [TicketIds -> Ticket]
    BY <1>9, <2>1, UpdatedType DEF ReleaseState, TicketState
  <2>3. QED
    BY <1>9, <2>2 DEF ReleaseState, TypeOK, TickPC
<1>10. ASSUME ReleaseForce PROVE TypeOK'
  <2>1. CandTicket \in TicketIds
    BY <1>10, CandType DEF ReleaseForce
  <2>2. heap[CandTicket] \in Ticket
    BY <2>1 DEF TypeOK
  <2>3. [heap[CandTicket] EXCEPT !.state = "queuing"] \in Ticket
    BY <2>2 DEF Ticket, TicketState
  <2>4. heap' \in [TicketIds -> Ticket]
    BY <1>10, <2>1, <2>3 DEF ReleaseForce, TypeOK
  <2>5. QED
    BY <1>10, <2>4 DEF ReleaseForce, TypeOK, TickPC
<1>11. ASSUME ReleasePool PROVE TypeOK'
  <2>1. CandTicket \in TicketIds
    BY <1>11, CandType DEF ReleasePool
  <2>2. pool' \in [TicketIds -> Nat] /\ buckets' \subseteq Int
    BY <1>11, <2>1, PoolEnqueueType DEF ReleasePool
  <2>3. ti' \in 1..Needed
    BY <1>11, LoopType DEF ReleasePool
  <2>4. CASE ti < Needed
    BY <1>11, <2>2, <2>3, <2>4 DEF ReleasePool, LoopTo, TypeOK, TickPC
  <2>5. CASE ~(ti < Needed)
    <3>1. /\ cands' \in Seq([1..Needed -> TicketIds])
          /\ Len(cands) # 1 => cands' # <<>>
          /\ cur' = NoMatch
      BY <1>11, <2>5, NextCandidateType DEF ReleasePool
    <3>2. QED
      BY <1>11, <2>2, <2>3, <2>5, <3>1 DEF ReleasePool, LoopTo, TypeOK, TickPC
  <2>6. QED
    BY <2>4, <2>5
<1>12. ASSUME CASConfirmLost PROVE TypeOK'
  <2>1. CandUids \subseteq UIDs
    BY <1>12, CandType DEF CASConfirmLost
  <2>2. cur \in MatchIDs
    BY <1>12 DEF CASConfirmLost, TypeOK
  <2>3. settling' \in [UIDs -> MatchIDs \cup {NoMatch}]
    BY <1>12, <2>2 DEF CASConfirmLost, TypeOK
  <2>4. claims' \in [MatchIDs -> SUBSET UIDs]
    BY <1>12, <2>1 DEF CASConfirmLost, TypeOK
  <2>5. QED
    BY <1>12, <2>3, <2>4 DEF CASConfirmLost, TypeOK, TickPC
<1>13. QED
  BY <1>1, <1>2, <1>3, <1>4, <1>5, <1>6, <1>7, <1>8, <1>9, <1>10, <1>11, <1>12
     DEF TickStep

\* Settlement and key expiry keep the types.
LEMMA SettleKeepsType ==
    ASSUME TypeOK, SettleStep \/ \E u \in UIDs : ExpireKey(u)
    PROVE  TypeOK'
<1> USE DEF memVars, hVars, tVars, mVars, rVars
<1>1. ASSUME SettleRoom PROVE TypeOK'
  <2>1. Head(notifyCh) \in MatchIDs /\ Tail(notifyCh) \in Seq(MatchIDs)
    BY <1>1 DEF SettleRoom, TypeOK
  <2>2. QED
    BY <1>1, <2>1 DEF SettleRoom, TypeOK, MatchState
<1>2. ASSUME SettleComplete PROVE TypeOK'
  <2>1. settle \in MatchIDs
    BY <1>2 DEF SettleComplete, TypeOK
  <2>2. ASSUME NEW t \in TicketIds PROVE heap[t] \in Ticket /\ [heap[t] EXCEPT !.state = "settling"] \in Ticket
    <3>1. heap[t] \in Ticket
      BY DEF TypeOK
    <3>2. QED
      BY <3>1 DEF Ticket, TicketState
  <2>3. heap' \in [TicketIds -> Ticket]
    BY <1>2, <2>2 DEF SettleComplete, Settled
  <2>4. mstate' \in [MatchIDs -> MatchState]
    BY <1>2, <2>1 DEF SettleComplete, TypeOK, MatchState
  <2>5. QED
    BY <1>2, <2>3, <2>4 DEF SettleComplete, TypeOK
<1>3. ASSUME NEW u \in UIDs, ExpireKey(u) PROVE TypeOK'
  <2>1. settling[u] \in MatchIDs
    BY <1>3 DEF ExpireKey, TypeOK
  <2>2. claims' \in [MatchIDs -> SUBSET UIDs]
    BY <1>3, <2>1 DEF ExpireKey, TypeOK
  <2>3. QED
    BY <1>3, <2>2 DEF ExpireKey, TypeOK
<1>4. QED
  BY <1>1, <1>2, <1>3 DEF SettleStep

\* A step that changes nothing keeps everything.
LEMMA StutterKeepsType == TypeOK /\ UNCHANGED vars => TypeOK'
  BY DEF TypeOK, vars

\* Every reachable state of the queue is well typed: a handler at work has a
\* ticket in hand, the tick goroutine a candidate, an entry count is never
\* negative, a player's ticket carries the player's uid.
THEOREM TypeCorrect == Spec => []TypeOK
<1>1. TypeOK /\ [Next]_vars => TypeOK'
  BY HandlerKeepsType, TickKeepsType, SettleKeepsType, StutterKeepsType DEF Next, Expiry
<1>2. QED
  BY <1>1, TypeInit, PTL DEF Spec

-----------------------------------------------------------------------------
(* Exclusive confirmation                                                  *)

\* Each claim is backed by the key in Redis: the strengthening that makes
\* ConfirmedExclusive inductive.
ClaimsKept == \A m \in MatchIDs : \A u \in claims[m] : settling[u] = m

LEMMA ClaimsInit == Init => ClaimsKept
  BY DEF Init, ClaimsKept

\* The script claims only free keys, so it overwrites nobody's claim.
LEMMA ScriptKeepsClaims ==
    ASSUME TypeOK, ClaimsKept, cur \in MatchIDs, CandUids \subseteq UIDs, AllFree,
           settling' = [u \in UIDs |-> IF u \in CandUids THEN cur ELSE settling[u]],
           claims' = [claims EXCEPT ![cur] = CandUids]
    PROVE  ClaimsKept'
<1>1. SUFFICES ASSUME NEW m \in MatchIDs, NEW u \in claims'[m]
               PROVE  settling'[u] = m
  BY DEF ClaimsKept
<1>2. CASE m = cur
  <2>1. u \in CandUids
    BY <1>1, <1>2 DEF TypeOK
  <2>2. QED
    BY <1>2, <2>1
<1>3. CASE m # cur
  <2>1. u \in claims[m]
    BY <1>1, <1>3 DEF TypeOK
  <2>2. settling[u] = m /\ m # NoMatch /\ u \in UIDs
    BY <2>1, NoneAssumption DEF ClaimsKept, TypeOK
  <2>3. u \notin CandUids
    BY <2>2 DEF AllFree
  <2>4. QED
    BY <2>2, <2>3
<1>4. QED
  BY <1>2, <1>3

\* It does so whether its answer arrives or not.
LEMMA ConfirmKeepsClaims ==
    ASSUME TypeOK, ClaimsKept, Confirm \/ CASConfirmLost
    PROVE  ClaimsKept'
<1>1. cur \in MatchIDs
  BY DEF Confirm, CASConfirmLost, TypeOK
<1>2. CandUids \subseteq UIDs
  BY CandType DEF Confirm, CASConfirmLost
<1>3. CASE Confirm /\ ~redisUp
  BY <1>1, <1>3 DEF Confirm, ClaimsKept, TypeOK
<1>4. CASE Confirm /\ redisUp
  BY <1>1, <1>2, <1>4, ScriptKeepsClaims DEF Confirm
<1>5. CASE CASConfirmLost
  BY <1>1, <1>2, <1>5, ScriptKeepsClaims DEF CASConfirmLost
<1>6. QED
  BY <1>3, <1>4, <1>5

\* An expiring key takes its claim with it.
LEMMA ExpireKeepsClaims ==
    ASSUME TypeOK, ClaimsKept, NEW u \in UIDs, ExpireKey(u)
    PROVE  ClaimsKept'
<1>1. settling[u] \in MatchIDs
  BY DEF ExpireKey, TypeOK
<1>2. SUFFICES ASSUME NEW m \in MatchIDs, NEW v \in claims'[m]
               PROVE  settling'[v] = m
  BY DEF ClaimsKept
<1>3. v \in claims[m] /\ (settling[u] = m => v # u)
  BY <1>1, <1>2 DEF ExpireKey, TypeOK
<1>4. settling[v] = m /\ v \in UIDs
  BY <1>3 DEF ClaimsKept, TypeOK
<1>5. v # u
  BY <1>3, <1>4
<1>6. QED
  BY <1>4, <1>5 DEF ExpireKey, TypeOK

\* No other step touches the keys.
LEMMA OthersKeepClaims ==
    ASSUME [Next]_vars
    PROVE  \/ Confirm \/ CASConfirmLost
           \/ \E u \in UIDs : ExpireKey(u)
           \/ UNCHANGED rVars
<1> USE DEF rVars
<1>1. ASSUME NEW h \in Handlers, Request(h) \/ HandlerStep(h) PROVE UNCHANGED rVars
  BY <1>1 DEF Request, HandlerStep, MatchReq, MatchCancelReq, EnqueueCheck, EnqueuePut,
     BindRoute, EnqueuePool, DequeueState, DequeuePool, DequeuePanic, DeleteTicket,
     DeleteRoute
<1>2. ASSUME TickStep PROVE Confirm \/ CASConfirmLost \/ UNCHANGED rVars
  BY <1>2 DEF TickStep, Tick, NextMatchID, NextMatchIDFails, MarkTicket, UnpoolTicket,
     CASConfirmFails, Push, ReleaseState, ReleaseForce, ReleasePool
<1>3. ASSUME SettleStep PROVE UNCHANGED rVars
  BY <1>3 DEF SettleStep, SettleRoom, SettleComplete
<1>4. ASSUME UNCHANGED vars PROVE UNCHANGED rVars
  BY <1>4 DEF vars
<1>5. QED
  BY <1>1, <1>2, <1>3, <1>4 DEF Next, Expiry

\* CASConfirm excludes: two matches never both hold a live claim on a player,
\* for any interleaving of requests, candidates, failures and expirations.
THEOREM Exclusive == Spec => []ConfirmedExclusive
<1>1. TypeOK /\ ClaimsKept /\ [Next]_vars => ClaimsKept'
  <2>1. SUFFICES ASSUME TypeOK, ClaimsKept, [Next]_vars PROVE ClaimsKept'
    OBVIOUS
  <2>2. CASE UNCHANGED rVars
    BY <2>1, <2>2 DEF ClaimsKept, rVars
  <2>3. QED
    BY <2>1, <2>2, OthersKeepClaims, ConfirmKeepsClaims, ExpireKeepsClaims
<1>2. ClaimsKept => ConfirmedExclusive
  BY DEF ClaimsKept, ConfirmedExclusive
<1>3. QED
  BY <1>1, <1>2, ClaimsInit, TypeCorrect, PTL DEF Spec

-----------------------------------------------------------------------------
(* Legal transitions                                                       *)

\* Nothing in the service moves a ticket to ROOMED, the only state the table
\* does not let releaseCandidate leave for QUEUING.
NeverRoomed == \A t \in TicketIds : heap[t].state # "roomed"

LegalMove(t) ==
    \/ t \in Unreferenced
    \/ heap'[t].state = heap[t].state
    \/ CanTransitionTo(heap[t].state, heap'[t].state)

LEMMA RoomedInit == Init => NeverRoomed
  BY DEF Init, NeverRoomed

\* Any state but ROOMED may become QUEUING.
LEMMA MayQueue ==
    ASSUME TypeOK, NeverRoomed, NEW t \in TicketIds
    PROVE  heap[t].state = "queuing" \/ CanTransitionTo(heap[t].state, "queuing")
<1>1. heap[t].state \in {"idle", "queuing", "matching", "settling"}
  BY DEF TypeOK, Ticket, TicketState, NeverRoomed
<1>2. QED
  BY <1>1 DEF CanTransitionTo, ticketTransitions

\* UpdateTicketState moves one ticket along the table or none.
LEMMA UpdatedLegal ==
    ASSUME TypeOK, NeverRoomed, NEW u \in UIDs, NEW st \in TicketState, st # "roomed",
           heap' = Updated(u, st), NEW t \in TicketIds
    PROVE  LegalMove(t) /\ heap'[t].state # "roomed"
<1>1. CASE CanUpdate(u, st)
  <2>1. tickets[u] \in TicketIds
    BY <1>1, NoneAssumption DEF TypeOK, CanUpdate
  <2>2. heap' = [heap EXCEPT ![tickets[u]].state = st]
    BY <1>1 DEF Updated
  <2>3. CASE t = tickets[u]
    <3>1. heap[t] \in Ticket
      BY DEF TypeOK
    <3>2. heap'[t].state = st
      BY <2>1, <2>2, <2>3, <3>1 DEF TypeOK, Ticket
    <3>3. QED
      BY <1>1, <2>3, <3>2 DEF CanUpdate, LegalMove
  <2>4. CASE t # tickets[u]
    <3>1. heap'[t] = heap[t]
      BY <2>1, <2>2, <2>4 DEF TypeOK
    <3>2. QED
      BY <3>1 DEF LegalMove, NeverRoomed
  <2>5. QED
    BY <2>3, <2>4
<1>2. CASE ~CanUpdate(u, st)
  BY <1>2 DEF Updated, LegalMove, NeverRoomed
<1>3. QED
  BY <1>1, <1>2

\* So does the direct assignment of QUEUING to one ticket.
LEMMA QueuedLegal ==
    ASSUME TypeOK, NeverRoomed, NEW x \in TicketIds,
           heap' = [heap EXCEPT ![x].state = "queuing"], NEW t \in TicketIds
    PROVE  LegalMove(t) /\ heap'[t].state # "roomed"
<1>1. heap[t] \in Ticket
  BY DEF TypeOK
<1>2. CASE t = x
  <2>1. heap'[t].state = "queuing"
    BY <1>1, <1>2 DEF TypeOK, Ticket
  <2>2. QED
    BY <2>1, MayQueue DEF LegalMove
<1>3. CASE t # x
  <2>1. heap'[t] = heap[t]
    BY <1>3 DEF TypeOK
  <2>2. QED
    BY <2>1 DEF LegalMove, NeverRoomed
<1>4. QED
  BY <1>2, <1>3

\* Every step that writes tickets moves each of them along the table.
LEMMA StepLegal ==
    ASSUME TypeOK, NeverRoomed, [Next]_vars, NEW t \in TicketIds
    PROVE  LegalMove(t) /\ heap'[t].state # "roomed"
<1> USE DEF memVars
<1>0. ASSUME UNCHANGED heap PROVE LegalMove(t) /\ heap'[t].state # "roomed"
  BY <1>0 DEF LegalMove, NeverRoomed
<1>1. ASSUME NEW h \in Handlers, NEW u \in UIDs, NEW r \in RatingsOf[u], MatchReq(h, u, r)
      PROVE  LegalMove(t) /\ heap'[t].state # "roomed"
  <2>1. PICK n \in 1..Cells :
           /\ <<u, n>> \in Unreferenced
           /\ heap' = [heap EXCEPT ![<<u, n>>] = [mmr |-> r, state |-> "idle"]]
    BY <1>1 DEF MatchReq
  <2>2. <<u, n>> \in TicketIds
    BY DEF TicketIds
  <2>3. CASE t = <<u, n>>
    BY <2>1, <2>2, <2>3 DEF TypeOK, LegalMove
  <2>4. CASE t # <<u, n>>
    BY <2>1, <2>2, <2>4 DEF TypeOK, LegalMove, NeverRoomed
  <2>5. QED
    BY <2>3, <2>4
<1>2. ASSUME NEW h \in Handlers, EnqueuePut(h)
      PROVE  LegalMove(t) /\ heap'[t].state # "roomed"
  <2>1. hreq[h] \in TicketIds
    BY <1>2, RequestTicket DEF EnqueuePut
  <2>2. QED
    BY <1>2, <2>1, QueuedLegal DEF EnqueuePut
<1>3. ASSUME NEW h \in Handlers, DequeueState(h)
      PROVE  LegalMove(t) /\ heap'[t].state # "roomed"
  <2>1. UidOf(hreq[h]) \in UIDs
    BY <1>3, RequestTicket DEF DequeueState
  <2>2. QED
    BY <1>3, <2>1, UpdatedLegal DEF DequeueState, TicketState
<1>4. ASSUME NEW h \in Handlers, Request(h) \/ HandlerStep(h)
      PROVE  LegalMove(t) /\ heap'[t].state # "roomed"
  BY <1>0, <1>1, <1>2, <1>3, <1>4 DEF Request, HandlerStep, MatchCancelReq, EnqueueCheck,
     BindRoute, EnqueuePool, DequeuePool, DequeuePanic, DeleteTicket, DeleteRoute
<1>5. ASSUME MarkTicket \/ ReleaseState PROVE LegalMove(t) /\ heap'[t].state # "roomed"
  <2>1. UidOf(CandTicket) \in UIDs
    BY <1>5, CandType DEF MarkTicket, ReleaseState
  <2>2. QED
    BY <1>5, <2>1, UpdatedLegal DEF MarkTicket, ReleaseState, TicketState
<1>6. ASSUME ReleaseForce PROVE LegalMove(t) /\ heap'[t].state # "roomed"
  <2>1. CandTicket \in TicketIds
    BY <1>6, CandType DEF ReleaseForce
  <2>2. QED
    BY <1>6, <2>1, QueuedLegal DEF ReleaseForce
<1>7. ASSUME TickStep PROVE LegalMove(t) /\ heap'[t].state # "roomed"
  BY <1>0, <1>5, <1>6, <1>7 DEF TickStep, Tick, NextMatchID, NextMatchIDFails,
     UnpoolTicket, Confirm, CASConfirmFails, CASConfirmLost, Push, ReleasePool
<1>8. ASSUME SettleComplete PROVE LegalMove(t) /\ heap'[t].state # "roomed"
  <2>1. heap[t] \in Ticket
    BY DEF TypeOK
  <2>2. \/ heap'[t] = heap[t]
        \/ /\ CanTransitionTo(heap[t].state, "settling")
           /\ heap'[t] = [heap[t] EXCEPT !.state = "settling"]
    BY <1>8 DEF SettleComplete, Settled
  <2>3. QED
    BY <2>1, <2>2 DEF LegalMove, NeverRoomed, Ticket
<1>9. ASSUME SettleStep \/ \E u \in UIDs : ExpireKey(u)
      PROVE  LegalMove(t) /\ heap'[t].state # "roomed"
  BY <1>0, <1>8, <1>9 DEF SettleStep, SettleRoom, ExpireKey
<1>10. ASSUME UNCHANGED vars PROVE LegalMove(t) /\ heap'[t].state # "roomed"
  BY <1>0, <1>10 DEF vars
<1>11. QED
  BY <1>4, <1>7, <1>9, <1>10 DEF Next, Expiry

\* Although releaseCandidate writes t.State without asking the table, no ticket
\* that something refers to ever makes a move the table forbids.
THEOREM Legal == Spec => LegalTicketTransitions
<1>1. TypeOK /\ NeverRoomed /\ [Next]_vars => NeverRoomed'
  BY StepLegal DEF NeverRoomed
<1>2. TypeOK /\ NeverRoomed /\ [Next]_vars => [\A t \in TicketIds : LegalMove(t)]_vars
  BY StepLegal
<1>3. Spec => [](TypeOK /\ NeverRoomed)
  BY <1>1, RoomedInit, TypeCorrect, PTL DEF Spec
<1>4. Spec => [][\A t \in TicketIds : LegalMove(t)]_vars
  BY <1>2, <1>3, PTL DEF Spec
<1>5. QED
  BY <1>4 DEF LegalTicketTransitions, LegalMove

-----------------------------------------------------------------------------
(* Players that raced nothing                                              *)

\* The state MemoryStore has of a player, and whether the pool has its ticket.
St(u) == IF tickets[u] = NoTicket THEN "none" ELSE heap[tickets[u]].state
InPool(u) == tickets[u] # NoTicket /\ pool[tickets[u]] > 0
Pooled(u) == St(u) = "queuing" /\ InPool(u)

Works(h, u) == hreq[h] # NoTicket /\ UidOf(hreq[h]) = u

Entering == {"e_route", "e_pool"}
Leaving  == {"d_pool", "d_del", "d_route"}

\* What a handler at work on u may rely on: a new ticket is nobody else's until
\* it is put; from then until it is in the pool no tick sees u, nor from the end
\* of its QUEUING state until Dequeue is over.
RequestOf(h, u) ==
    /\ hpc[h] \in {"e_check", "e_put"} =>
          /\ hreq[h] # tickets[u] /\ pool[hreq[h]] = 0
          /\ \A g \in Handlers \ {h} : hreq[g] # hreq[h]
    /\ hpc[h] = "e_put" => St(u) \notin {"queuing", "matching"}
    /\ hpc[h] \in Entering =>
          /\ tickets[u] = hreq[h] /\ St(u) = "queuing"
          /\ pool[hreq[h]] = 0 /\ ~TickBusy(u)
    /\ hpc[h] \in Leaving => St(u) \notin {"queuing", "matching"} /\ ~TickBusy(u)
    /\ hpc[h] \in Entering \cup Leaving =>
          \A g \in Handlers \ {h} : Works(g, u) => hpc[g] \notin Entering \cup Leaving

Requests(u) == \A h \in Handlers : Works(h, u) => RequestOf(h, u)

\* Entries of earlier tickets may stay in the pool, but no tick finds them.
Stale(u) ==
    \A t \in TicketIds :
        UidOf(t) = u /\ t # tickets[u] /\ pool[t] > 0 => heap[t].state # "queuing"

\* What a place j of the candidate that is being handled says of its player.
Staged(u, j) ==
    /\ tpc = "next" => Pooled(u)
    /\ tpc \in {"mark", "unpool"} =>
          IF j < ti \/ (j = ti /\ tpc = "unpool")
          THEN St(u) = "matching" ELSE St(u) = "matching" \/ Pooled(u)
    /\ tpc \in {"cas", "push"} => St(u) = "matching"
    /\ tpc \in {"r_state", "r_force", "r_pool"} =>
          /\ j < ti => Pooled(u)
          /\ j = ti /\ tpc # "r_state" => St(u) = "queuing"
          /\ \/ St(u) = "matching" \/ Pooled(u)
             \/ tpc # "r_state" /\ UidOf(Head(cands)[ti]) = u

\* A candidate holds the current ticket of its players, and only the one that is
\* being handled has taken them from the queue.
Grouped(u) ==
    \A i \in DOMAIN cands, j \in 1..Needed : UidOf(cands[i][j]) = u =>
        /\ cands[i][j] = tickets[u]
        /\ IF i = 1 THEN Staged(u, j) ELSE Pooled(u)

\* Nobody who waits is missing in the pool, unless a goroutine is at it.
Found(u) ==
    St(u) = "queuing" /\ ~TickBusy(u) /\ (\A h \in Handlers : Works(h, u) => hpc[h] \notin Entering)
        => InPool(u)

\* A member of a match in flight is MATCHING and in no other candidate.
Flying(u) ==
    \A m \in MatchIDs : InFlight(m) /\ u \in members[m] =>
        /\ St(u) = "matching"
        /\ TickBusy(u) => tpc = "push" /\ m = cur /\ u \in CandUids
        /\ \A n \in MatchIDs \ {m} : ~(InFlight(n) /\ u \in members[n])

PlayerInv(u) == Requests(u) /\ Stale(u) /\ Grouped(u) /\ Found(u) /\ Flying(u)

\* Goroutines at rest have nothing in hand, candidates of one tick share nobody.
Resting ==
    /\ tpc = "idle" => cands = <<>>
    /\ tpc = "cas" => ti = 1
    /\ \A h \in Handlers : hpc[h] = "idle" => hreq[h] = NoTicket
    /\ \A i, j \in DOMAIN cands : i # j => GroupUids(cands[i]) \cap GroupUids(cands[j]) = {}

\* Where a match in flight is.
Flights ==
    /\ tpc \in {"mark", "unpool", "cas"} => ~InFlight(cur)
    /\ tpc = "push" =>
          /\ mstate[cur] = "confirmed" /\ cur # settle
          /\ \A i \in DOMAIN notifyCh : notifyCh[i] # cur
    /\ \A i \in DOMAIN notifyCh : mstate[notifyCh[i]] = "confirmed"
    /\ \A i, j \in DOMAIN notifyCh : i # j => notifyCh[i] # notifyCh[j]
    /\ settle # NoMatch => mstate[settle] = "notifying"

QueueInv == Resting /\ Flights /\ \A u \in UIDs \ raced : PlayerInv(u)

\* Whoever waits or is matched has a route, once bindRoute has run.
Routed(u) ==
    St(u) \in {"queuing", "matching"} /\ (\A h \in Handlers : Works(h, u) => hpc[h] # "e_route")
        => routes[u] # NoRoute

RouteInv == \A u \in UIDs \ (raced \cup Unbound) : Routed(u)
-----------------------------------------------------------------------------
(* Steps that leave a player alone                                         *)

\* A step leaves the tickets of u, their states and their entries as they are.
Same(u) ==
    /\ tickets'[u] = tickets[u]
    /\ \A t \in TicketIds : UidOf(t) = u => heap'[t].state = heap[t].state /\ pool'[t] = pool[t]

\* It leaves the handlers that work on u where they are.
SameHands(u) ==
    \A h \in Handlers : /\ Works(h, u)' <=> Works(h, u)
                        /\ Works(h, u) => hpc'[h] = hpc[h] /\ hreq'[h] = hreq[h]

\* What MemoryStore's ticket of a player is.
LEMMA CurrentTicket ==
    ASSUME TypeOK, NEW u \in UIDs
    PROVE  /\ tickets[u] \in TicketIds \cup {NoTicket}
           /\ tickets[u] # NoTicket => UidOf(tickets[u]) = u
           /\ St(u) \in TicketState \cup {"none"}
           /\ tickets[u] = NoTicket <=> St(u) = "none"
           /\ \A t \in TicketIds : pool[t] \in Nat /\ heap[t].state \in TicketState /\ t # NoTicket
           /\ Needed \in Nat /\ Needed >= 2
<1>1. tickets[u] \in TicketIds \cup {NoTicket} /\ (tickets[u] # NoTicket => UidOf(tickets[u]) = u)
  BY DEF TypeOK
<1>2. \A t \in TicketIds : pool[t] \in Nat /\ heap[t].state \in TicketState /\ t # NoTicket
  BY NoneAssumption DEF TypeOK, Ticket
<1>3. "none" \notin TicketState
  BY DEF TicketState
<1>4. Needed \in Nat /\ Needed >= 2
  BY SizesAssumption DEF Needed
<1>5. QED
  BY <1>1, <1>2, <1>3, <1>4 DEF St

LEMMA SameSt ==
    ASSUME TypeOK, NEW u \in UIDs, Same(u)
    PROVE  St(u)' = St(u) /\ (InPool(u)' <=> InPool(u)) /\ (Pooled(u)' <=> Pooled(u))
<1>1. St(u)' = St(u)
  BY CurrentTicket DEF Same, St
<1>2. InPool(u)' <=> InPool(u)
  BY CurrentTicket DEF Same, InPool
<1>3. QED
  BY <1>1, <1>2 DEF Pooled

LEMMA RequestsFrame ==
    ASSUME TypeOK, NEW u \in UIDs, Requests(u), Same(u), SameHands(u),
           TickBusy(u)' => TickBusy(u)
    PROVE  Requests(u)'
<1> SUFFICES ASSUME NEW h \in Handlers, Works(h, u)' PROVE RequestOf(h, u)'
  BY DEF Requests, RequestOf
<1>1. Works(h, u) /\ hpc'[h] = hpc[h] /\ hreq'[h] = hreq[h]
  BY DEF SameHands
<1>2. RequestOf(h, u)
  BY <1>1 DEF Requests, RequestOf
<1>3. hreq[h] \in TicketIds /\ UidOf(hreq[h]) = u
  BY <1>1 DEF Works, TypeOK
<1>4. pool'[hreq[h]] = pool[hreq[h]] /\ tickets'[u] = tickets[u] /\ St(u)' = St(u)
  BY <1>3, SameSt DEF Same
<1>5. \A g \in Handlers : Works(g, u)' => Works(g, u) /\ hpc'[g] = hpc[g] /\ hreq'[g] = hreq[g]
  BY DEF SameHands
<1>6. \A g \in Handlers : hreq'[g] = hreq[h] => Works(g, u)'
  BY <1>1 DEF Works
<1>7. hpc'[h] \in {"e_check", "e_put"} =>
          /\ hreq'[h] # tickets'[u] /\ pool'[hreq'[h]] = 0
          /\ \A g \in Handlers \ {h} : hreq'[g] # hreq'[h]
  BY <1>1, <1>2, <1>4, <1>5, <1>6 DEF RequestOf
<1>8. hpc'[h] \in Entering \cup Leaving =>
          \A g \in Handlers \ {h} : Works(g, u)' => hpc'[g] \notin Entering \cup Leaving
  BY <1>1, <1>2, <1>5 DEF RequestOf
<1>9. QED
  BY <1>1, <1>2, <1>4, <1>7, <1>8 DEF RequestOf

LEMMA StaleFrame ==
    ASSUME TypeOK, NEW u \in UIDs, Stale(u), Same(u)
    PROVE  Stale(u)'
BY DEF Stale, Same

LEMMA GroupedFrame ==
    ASSUME TypeOK, NEW u \in UIDs, Grouped(u), Same(u), UNCHANGED <<tpc, cands, ti>>
    PROVE  Grouped(u)'
<1>1. St(u)' = St(u) /\ (Pooled(u)' <=> Pooled(u)) /\ tickets'[u] = tickets[u]
  BY SameSt DEF Same
<1>2. \A j \in 1..Needed : Staged(u, j)' <=> Staged(u, j)
  BY <1>1 DEF Staged
<1>3. QED
  BY <1>1, <1>2 DEF Grouped

LEMMA FoundFrame ==
    ASSUME TypeOK, NEW u \in UIDs, Found(u), Same(u), SameHands(u),
           TickBusy(u) => TickBusy(u)'
    PROVE  Found(u)'
BY SameSt DEF Found, SameHands

LEMMA FlyingFrame ==
    ASSUME TypeOK, NEW u \in UIDs, Flying(u), St(u)' = St(u),
           UNCHANGED <<tpc, cands, cur, mstate, members>>
    PROVE  Flying(u)'
<1>1. (TickBusy(u)' <=> TickBusy(u)) /\ CandUids' = CandUids
  BY DEF TickBusy, CandUids, GroupUids
<1>2. \A m \in MatchIDs : InFlight(m)' <=> InFlight(m)
  BY DEF InFlight
<1>3. QED
  BY <1>1, <1>2 DEF Flying

\* A handler works for somebody else.
LEMMA HandlerFrame ==
    ASSUME TypeOK, NEW u \in UIDs, PlayerInv(u), Same(u), SameHands(u),
           UNCHANGED <<tVars, mstate, members>>
    PROVE  PlayerInv(u)'
<1>1. TickBusy(u)' <=> TickBusy(u)
  BY DEF TickBusy, GroupUids, tVars
<1>2. St(u)' = St(u)
  BY SameSt
<1>3. QED
  BY <1>1, <1>2, RequestsFrame, StaleFrame, GroupedFrame, FoundFrame, FlyingFrame
  DEF PlayerInv, tVars
-----------------------------------------------------------------------------
(* Handlers                                                                *)

\* The ticket a handler has in hand.
LEMMA InHand ==
    ASSUME TypeOK, NEW h \in Handlers, hpc[h] # "idle"
    PROVE  /\ hreq[h] \in TicketIds /\ UidOf(hreq[h]) \in UIDs
           /\ Works(h, UidOf(hreq[h]))
           /\ \A u : Works(h, u) <=> u = UidOf(hreq[h])
<1>1. hreq[h] \in TicketIds /\ hreq[h] # NoTicket
  BY DEF TypeOK
<1>2. QED
  BY <1>1 DEF Works, TicketIds, UidOf

\* A candidate with u in it is a reason to call the tick goroutine busy with u.
LEMMA BusyIs ==
    ASSUME TypeOK, Resting, NEW u \in UIDs
    PROVE  TickBusy(u) <=> \E i \in DOMAIN cands : u \in GroupUids(cands[i])
BY DEF TickBusy, Resting

\* Without such a candidate nothing is said of u.
LEMMA NotGrouped ==
    ASSUME TypeOK, Resting, NEW u \in UIDs, ~TickBusy(u), UNCHANGED cands
    PROVE  Grouped(u)'
<1>1. \A i \in DOMAIN cands : u \notin GroupUids(cands[i])
  BY BusyIs
<1>2. \A i \in DOMAIN cands, j \in 1..Needed : UidOf(cands[i][j]) # u
  BY <1>1 DEF GroupUids
<1>3. QED
  BY <1>2 DEF Grouped

\* Handler h moves on, everything else that concerns u stays.
LEMMA HandStep ==
    ASSUME TypeOK, NEW u \in UIDs, PlayerInv(u), Same(u), NEW h \in Handlers,
           UNCHANGED <<tVars, mstate, members>>,
           \A g \in Handlers \ {h} : hpc'[g] = hpc[g] /\ hreq'[g] = hreq[g],
           hreq'[h] \in {hreq[h], NoTicket, tickets[u]},
           Works(h, u)' => RequestOf(h, u)',
           Works(h, u)' /\ hpc'[h] \in Entering \cup Leaving =>
               Works(h, u) /\ hpc[h] \in Entering \cup Leaving,
           Works(h, u) /\ hpc[h] \in Entering => Works(h, u)' /\ hpc'[h] \in Entering
    PROVE  PlayerInv(u)'
<1>1. TickBusy(u)' <=> TickBusy(u)
  BY DEF TickBusy, GroupUids, tVars
<1>2. St(u)' = St(u) /\ (InPool(u)' <=> InPool(u)) /\ tickets'[u] = tickets[u]
  BY SameSt DEF Same
<1>3. \A g \in Handlers \ {h} : Works(g, u)' <=> Works(g, u)
  BY DEF Works
<1>4. ASSUME NEW g \in Handlers \ {h}, Works(g, u) PROVE RequestOf(g, u)'
  <2>1. RequestOf(g, u) /\ hpc'[g] = hpc[g] /\ hreq'[g] = hreq[g]
    BY <1>4 DEF PlayerInv, Requests
  <2>2. hreq[g] \in TicketIds /\ UidOf(hreq[g]) = u /\ hreq[g] # NoTicket
    BY <1>4 DEF Works, TypeOK
  <2>3. pool'[hreq[g]] = pool[hreq[g]]
    BY <2>2 DEF Same
  <2>4. hpc[g] \in {"e_check", "e_put"} => \A k \in Handlers \ {g} : hreq'[k] # hreq[g]
    BY <2>1, <2>2 DEF RequestOf
  <2>5. hpc[g] \in Entering \cup Leaving =>
           \A k \in Handlers \ {g} : Works(k, u)' => hpc'[k] \notin Entering \cup Leaving
    <3> SUFFICES ASSUME hpc[g] \in Entering \cup Leaving, NEW k \in Handlers \ {g}, Works(k, u)'
                 PROVE  hpc'[k] \notin Entering \cup Leaving
      OBVIOUS
    <3>1. Works(k, u) => hpc[k] \notin Entering \cup Leaving
      BY <2>1 DEF RequestOf
    <3>2. QED
      BY <1>3, <3>1
  <2>6. QED
    BY <1>1, <1>2, <2>1, <2>3, <2>4, <2>5 DEF RequestOf
<1>5. Requests(u)'
  BY <1>3, <1>4 DEF Requests
<1>6. Found(u)'
  BY <1>1, <1>2, <1>3 DEF PlayerInv, Found
<1>7. QED
  BY <1>2, <1>5, <1>6, StaleFrame, GroupedFrame, FlyingFrame DEF PlayerInv, tVars

\* A MatchReq of u: the cell was nobody's.
LEMMA MatchReqKeeps ==
    ASSUME TypeOK, QueueInv, NEW h \in Handlers, NEW u \in UIDs, NEW r \in RatingsOf[u],
           u \notin raced, MatchReq(h, u, r)
    PROVE  PlayerInv(u)'
<1>1. PICK n \in 1..Cells :
         /\ <<u, n>> \in Unreferenced
         /\ heap' = [heap EXCEPT ![<<u, n>>] = [mmr |-> r, state |-> "idle"]]
         /\ hreq' = [hreq EXCEPT ![h] = <<u, n>>]
  BY DEF MatchReq
<1> DEFINE new == <<u, n>>
<1>2. new \in TicketIds /\ UidOf(new) = u /\ new # NoTicket
  BY NoneAssumption DEF TicketIds, UidOf
<1>3. /\ hpc[h] = "idle" /\ hpc' = [hpc EXCEPT ![h] = "e_check"]
      /\ UNCHANGED <<tickets, pool, tpc, cands, ti, cur, mstate, members>>
  BY DEF MatchReq, Goto, tVars, mVars
<1>4. /\ \A v \in UIDs : tickets[v] # new
      /\ pool[new] = 0 /\ \A g \in Handlers : hreq[g] # new
  BY <1>1 DEF Unreferenced
<1> HIDE DEF new
<1>5. PlayerInv(u) /\ hreq[h] = NoTicket
  BY <1>3 DEF QueueInv, Resting
<1>6. St(u)' = St(u) /\ (InPool(u)' <=> InPool(u)) /\ (Pooled(u)' <=> Pooled(u))
  <2>1. tickets[u] # NoTicket => heap'[tickets[u]] = heap[tickets[u]]
    BY <1>1, <1>2, <1>4 DEF TypeOK, new
  <2>2. QED
    BY <1>3, <2>1 DEF St, InPool, Pooled
<1>7. TickBusy(u)' <=> TickBusy(u)
  BY <1>3 DEF TickBusy, GroupUids
<1>8. /\ hreq'[h] = new /\ hpc'[h] = "e_check" /\ ~Works(h, u)
      /\ \A g \in Handlers \ {h} : hpc'[g] = hpc[g] /\ hreq'[g] = hreq[g]
  BY <1>1, <1>3, <1>5 DEF TypeOK, Works, new
<1>9. \A g \in Handlers \ {h} : Works(g, u)' <=> Works(g, u)
  BY <1>8 DEF Works
<1>10. Requests(u)'
  <2>1. RequestOf(h, u)'
    BY <1>3, <1>4, <1>8 DEF RequestOf, Entering, Leaving
  <2>2. ASSUME NEW g \in Handlers \ {h}, Works(g, u) PROVE RequestOf(g, u)'
    <3>1. RequestOf(g, u)
      BY <1>5, <2>2 DEF PlayerInv, Requests
    <3>2. hpc'[h] \notin Entering \cup Leaving
      BY <1>8 DEF Entering, Leaving
    <3>3. QED
      BY <1>3, <1>4, <1>6, <1>7, <1>8, <1>9, <3>1, <3>2 DEF RequestOf
  <2>3. QED
    BY <1>9, <2>1, <2>2 DEF Requests
<1>11. Stale(u)'
  <2>1. \A t \in TicketIds : t # new => heap'[t] = heap[t]
    BY <1>1 DEF TypeOK, new
  <2>2. QED
    BY <1>3, <1>4, <1>5, <2>1 DEF PlayerInv, Stale
<1>12. Grouped(u)'
  <2>1. \A j \in 1..Needed : Staged(u, j)' <=> Staged(u, j)
    BY <1>3, <1>6 DEF Staged
  <2>2. QED
    BY <1>3, <1>5, <1>6, <2>1 DEF PlayerInv, Grouped
<1>13. Found(u)'
  <2>1. hpc'[h] \notin Entering
    BY <1>8 DEF Entering
  <2>2. QED
    BY <1>5, <1>6, <1>7, <1>8, <1>9 DEF PlayerInv, Found
<1>14. Flying(u)'
  BY <1>3, <1>5, <1>6, FlyingFrame DEF PlayerInv
<1>15. QED
  BY <1>10, <1>11, <1>12, <1>13, <1>14 DEF PlayerInv

\* PutTicket, where nobody else is at u.
LEMMA PutKeeps ==
    ASSUME TypeOK, QueueInv, NEW h \in Handlers, NEW u \in UIDs, u = UidOf(hreq[h]),
           EnqueuePut(h), u \notin raced'
    PROVE  PlayerInv(u)'
<1> DEFINE t == hreq[h]
<1>1. /\ hpc[h] = "e_put" /\ heap' = [heap EXCEPT ![t].state = "queuing"]
      /\ tickets' = [tickets EXCEPT ![u] = t] /\ hpc' = [hpc EXCEPT ![h] = "e_route"]
      /\ UNCHANGED <<pool, hreq, tpc, cands, ti, cur, mstate, members>>
  BY DEF EnqueuePut, Goto, tVars, mVars
<1>2. t \in TicketIds /\ Works(h, u)
  BY <1>1, InHand
<1>3. u \notin raced /\ ~TickBusy(u) /\ ~HandlerBusy(u, Handlers \ {h})
  BY DEF EnqueuePut, Race
<1>4. PlayerInv(u) /\ RequestOf(h, u)
  BY <1>2, <1>3 DEF QueueInv, PlayerInv, Requests
<1>5. t # tickets[u] /\ pool[t] = 0 /\ St(u) \notin {"queuing", "matching"}
  BY <1>1, <1>4 DEF RequestOf
<1>6. \A g \in Handlers \ {h} : ~Works(g, u)
  BY <1>3 DEF HandlerBusy, Works
<1> HIDE DEF t
<1>7. St(u)' = "queuing" /\ tickets'[u] = t
  <2>1. tickets'[u] = t /\ t # NoTicket /\ heap[t] \in Ticket
    BY <1>1, <1>2, NoneAssumption DEF TypeOK
  <2>2. heap'[t].state = "queuing"
    BY <1>1, <1>2, <2>1 DEF TypeOK, Ticket
  <2>3. QED
    BY <2>1, <2>2 DEF St
<1>8. ~TickBusy(u)'
  BY <1>1, <1>3 DEF TickBusy, GroupUids
<1>9. /\ \A g \in Handlers \ {h} : ~Works(g, u)'
      /\ hpc'[h] = "e_route" /\ Works(h, u)' /\ hreq'[h] = t
  BY <1>1, <1>2, <1>6 DEF Works, TypeOK, t
<1>10. Requests(u)'
  <2>1. RequestOf(h, u)'
    BY <1>1, <1>5, <1>7, <1>8, <1>9 DEF RequestOf, Entering, Leaving
  <2>2. QED
    BY <1>9, <2>1 DEF Requests
<1>11. Stale(u)'
  <2>1. \A x \in TicketIds : x # t => heap'[x] = heap[x]
    BY <1>1 DEF TypeOK
  <2>2. \A x \in TicketIds : x = tickets[u] => heap[x].state # "queuing"
    BY <1>5, CurrentTicket DEF St
  <2>3. QED
    BY <1>1, <1>4, <1>7, <2>1, <2>2 DEF PlayerInv, Stale
<1>12. Grouped(u)'
  BY <1>1, <1>3, NotGrouped DEF QueueInv
<1>13. Found(u)'
  BY <1>9 DEF Found, Entering
<1>14. Flying(u)'
  <2>1. \A m \in MatchIDs : ~(InFlight(m) /\ u \in members[m])
    BY <1>4, <1>5 DEF PlayerInv, Flying
  <2>2. QED
    BY <1>1, <2>1 DEF Flying, InFlight
<1>15. QED
  BY <1>10, <1>11, <1>12, <1>13, <1>14 DEF PlayerInv

\* The ticket enters its bucket.
LEMMA PoolKeeps ==
    ASSUME TypeOK, QueueInv, NEW h \in Handlers, NEW u \in UIDs, u = UidOf(hreq[h]),
           EnqueuePool(h), u \notin raced
    PROVE  PlayerInv(u)'
<1> DEFINE t == hreq[h]
<1>1. /\ hpc[h] = "e_pool" /\ pool' = [pool EXCEPT ![t] = @ + 1]
      /\ hpc' = [hpc EXCEPT ![h] = "idle"] /\ hreq' = [hreq EXCEPT ![h] = NoTicket]
      /\ UNCHANGED <<heap, tickets, tpc, cands, ti, cur, mstate, members>>
  BY DEF EnqueuePool, PoolEnqueue, Return, Goto, tVars, mVars
<1>2. t \in TicketIds /\ Works(h, u)
  BY <1>1, InHand
<1>3. PlayerInv(u) /\ RequestOf(h, u)
  BY <1>2 DEF QueueInv, PlayerInv, Requests
<1>4. /\ tickets[u] = t /\ St(u) = "queuing" /\ ~TickBusy(u)
      /\ \A g \in Handlers \ {h} : Works(g, u) => hpc[g] \notin Entering \cup Leaving
  BY <1>1, <1>3 DEF RequestOf, Entering
<1> HIDE DEF t
<1>5. St(u)' = "queuing" /\ InPool(u)'
  <2>1. pool[t] \in Nat /\ pool'[t] = pool[t] + 1 /\ t # NoTicket
    BY <1>1, <1>2, NoneAssumption DEF TypeOK
  <2>2. QED
    BY <1>1, <1>4, <2>1 DEF St, InPool
<1>6. /\ ~Works(h, u)'
      /\ \A g \in Handlers \ {h} : /\ Works(g, u)' <=> Works(g, u)
                                   /\ hpc'[g] = hpc[g] /\ hreq'[g] = hreq[g]
  BY <1>1 DEF Works, TypeOK
<1>7. Requests(u)'
  <2> SUFFICES ASSUME NEW g \in Handlers \ {h}, Works(g, u) PROVE RequestOf(g, u)'
    BY <1>6 DEF Requests
  <2>1. RequestOf(g, u) /\ hpc[g] \notin Entering \cup Leaving
    BY <1>3, <1>4 DEF PlayerInv, Requests
  <2>2. hpc[g] \in {"e_check", "e_put"} => pool'[hreq[g]] = 0 /\ hpc[g] # "e_put"
    <3>1. hreq[g] \in TicketIds
      BY DEF Works, TypeOK
    <3>2. QED
      BY <1>1, <1>4, <2>1, <3>1 DEF RequestOf, TypeOK
  <2>3. hreq[g] # NoTicket
    BY DEF Works
  <2>4. hreq'[h] = NoTicket
    BY <1>1 DEF TypeOK
  <2>5. QED
    BY <1>1, <1>6, <2>1, <2>2, <2>3, <2>4 DEF RequestOf
<1>8. Stale(u)'
  BY <1>1, <1>3, <1>4 DEF PlayerInv, Stale, TypeOK
<1>9. Grouped(u)'
  BY <1>1, <1>4, NotGrouped DEF QueueInv
<1>10. Found(u)'
  BY <1>5 DEF Found
<1>11. Flying(u)'
  BY <1>1, <1>3, <1>4, <1>5, FlyingFrame DEF PlayerInv
<1>12. QED
  BY <1>7, <1>8, <1>9, <1>10, <1>11 DEF PlayerInv

\* UpdateTicketState(uid, IDLE) of Dequeue, where nobody else is at u.
LEMMA IdleKeeps ==
    ASSUME TypeOK, QueueInv, NEW h \in Handlers, NEW u \in UIDs, u = UidOf(hreq[h]),
           DequeueState(h), CanUpdate(u, "idle"), u \notin raced'
    PROVE  PlayerInv(u)'
<1> DEFINE t == tickets[u]
<1>1. /\ hpc[h] = "d_state" /\ heap' = [heap EXCEPT ![t].state = "idle"]
      /\ hpc' = [hpc EXCEPT ![h] = "d_pool"]
      /\ UNCHANGED <<tickets, pool, hreq, tpc, cands, ti, cur, mstate, members>>
  BY DEF DequeueState, Updated, Goto, tVars, mVars
<1>2. t \in TicketIds /\ t # NoTicket /\ UidOf(t) = u /\ Works(h, u) /\ St(u) = heap[t].state
  BY <1>1, InHand DEF CanUpdate, TypeOK, St
<1>3. u \notin raced /\ ~TickBusy(u) /\ ~HandlerBusy(u, Handlers \ {h})
  BY DEF DequeueState, Race
<1>4. PlayerInv(u)
  BY <1>3 DEF QueueInv
<1>5. St(u) # "matching"
  BY <1>2 DEF CanUpdate, CanTransitionTo, ticketTransitions
<1>6. \A g \in Handlers \ {h} : ~Works(g, u)
  BY <1>3 DEF HandlerBusy, Works
<1> HIDE DEF t
<1>7. St(u)' = "idle" /\ tickets'[u] = t
  <2>1. heap[t] \in Ticket
    BY <1>2 DEF TypeOK
  <2>2. heap'[t].state = "idle"
    BY <1>1, <1>2, <2>1 DEF TypeOK, Ticket
  <2>3. QED
    BY <1>1, <1>2, <2>2 DEF St, t
<1>8. ~TickBusy(u)'
  BY <1>1, <1>3 DEF TickBusy, GroupUids
<1>9. /\ \A g \in Handlers \ {h} : ~Works(g, u)'
      /\ hpc'[h] = "d_pool"
  BY <1>1, <1>2, <1>6 DEF Works, TypeOK
<1>10. Requests(u)'
  <2>1. RequestOf(h, u)'
    BY <1>7, <1>8, <1>9 DEF RequestOf, Entering, Leaving
  <2>2. QED
    BY <1>9, <2>1 DEF Requests
<1>11. Stale(u)'
  <2>1. \A x \in TicketIds : x # t => heap'[x] = heap[x]
    BY <1>1 DEF TypeOK
  <2>2. QED
    BY <1>1, <1>4, <1>7, <2>1 DEF PlayerInv, Stale, t
<1>12. Grouped(u)'
  BY <1>1, <1>3, NotGrouped DEF QueueInv
<1>13. Found(u)'
  BY <1>7 DEF Found
<1>14. Flying(u)'
  <2>1. \A m \in MatchIDs : ~(InFlight(m) /\ u \in members[m])
    BY <1>4, <1>5 DEF PlayerInv, Flying
  <2>2. QED
    BY <1>1, <2>1 DEF Flying, InFlight
<1>15. QED
  BY <1>10, <1>11, <1>12, <1>13, <1>14 DEF PlayerInv

\* BucketPool.Dequeue takes one entry at most.
LEMMA DequeueLess ==
    ASSUME TypeOK, NEW x \in TicketIds, PoolDequeue(x), NEW t \in TicketIds
    PROVE  pool'[t] <= pool[t]
<1>1. pool' = pool \/ \E y \in TicketIds : pool' = [pool EXCEPT ![y] = @ - 1]
  BY DEF PoolDequeue, Entries
<1>2. pool \in [TicketIds -> Nat] /\ pool[t] \in Nat
  BY DEF TypeOK
<1>3. ASSUME NEW y \in TicketIds, pool' = [pool EXCEPT ![y] = @ - 1]
      PROVE  pool'[t] = pool[t] \/ pool'[t] = pool[t] - 1
  BY <1>2, <1>3
<1>4. QED
  BY <1>1, <1>2, <1>3

\* Dequeue takes an entry of u and then u's ticket: u is neither queuing nor
\* matching, and no tick has it.
LEMMA LeaveKeeps ==
    ASSUME TypeOK, QueueInv, NEW h \in Handlers, NEW u \in UIDs, u = UidOf(hreq[h]),
           DequeuePool(h) \/ DeleteTicket(h), u \notin raced
    PROVE  PlayerInv(u)'
<1>1. /\ hpc[h] \in {"d_pool", "d_del"}
      /\ \E pc \in {"d_del", "d_route"} : hpc' = [hpc EXCEPT ![h] = pc]
      /\ UNCHANGED <<heap, hreq, tpc, cands, ti, cur, mstate, members>>
  BY DEF DequeuePool, DeleteTicket, Goto, tVars, mVars
<1>2. hreq[h] \in TicketIds /\ Works(h, u)
  BY <1>1, InHand
<1>3. PlayerInv(u) /\ RequestOf(h, u)
  BY <1>2 DEF QueueInv, PlayerInv, Requests
<1>4. /\ St(u) \notin {"queuing", "matching"} /\ ~TickBusy(u)
      /\ \A g \in Handlers \ {h} : Works(g, u) => hpc[g] \notin Entering \cup Leaving
  BY <1>1, <1>3 DEF RequestOf, Leaving
<1>5. /\ tickets'[u] \in {tickets[u], NoTicket}
      /\ pool' \in [TicketIds -> Nat] /\ \A t \in TicketIds : pool'[t] <= pool[t]
  <2>1. CASE DeleteTicket(h)
    BY <2>1 DEF DeleteTicket, TypeOK
  <2>2. CASE DequeuePool(h)
    <3>1. PoolDequeue(hreq[h]) /\ UNCHANGED tickets
      BY <2>2 DEF DequeuePool
    <3>2. pool' \in [TicketIds -> Nat]
      BY <1>2, <3>1, PoolDequeueType
    <3>3. \A t \in TicketIds : pool'[t] <= pool[t]
      BY <1>2, <3>1, DequeueLess
    <3>4. QED
      BY <3>1, <3>2, <3>3
  <2>3. QED
    BY <2>1, <2>2
<1>6. St(u)' \notin {"queuing", "matching"}
  BY <1>1, <1>4, <1>5 DEF St
<1>7. ~TickBusy(u)'
  BY <1>1, <1>4 DEF TickBusy, GroupUids
<1>8. /\ \A g \in Handlers : Works(g, u)' <=> Works(g, u)
      /\ \A g \in Handlers \ {h} : hpc'[g] = hpc[g]
      /\ hpc'[h] \in {"d_del", "d_route"}
  BY <1>1 DEF Works, TypeOK
<1>9. Requests(u)'
  <2>1. RequestOf(h, u)'
    BY <1>4, <1>6, <1>7, <1>8 DEF RequestOf, Entering, Leaving
  <2>2. ASSUME NEW g \in Handlers \ {h}, Works(g, u) PROVE RequestOf(g, u)'
    <3>1. RequestOf(g, u) /\ hpc[g] \notin Entering \cup Leaving /\ hreq[g] \in TicketIds
          /\ hreq[g] # NoTicket
      BY <1>3, <1>4, <2>2 DEF PlayerInv, Requests, Works, TypeOK
    <3>2. pool[hreq[g]] = 0 => pool'[hreq[g]] = 0
      BY <1>5, <3>1
    <3>3. QED
      BY <1>1, <1>5, <1>6, <1>8, <3>1, <3>2 DEF RequestOf
  <2>3. QED
    BY <1>8, <2>1, <2>2 DEF Requests
<1>10. Stale(u)'
  <2>1. \A t \in TicketIds : t = tickets[u] => heap[t].state # "queuing"
    BY <1>4, CurrentTicket DEF St
  <2>2. \A t \in TicketIds : pool'[t] > 0 => pool[t] > 0
    BY <1>5 DEF TypeOK
  <2>3. QED
    BY <1>1, <1>3, <1>5, <2>1, <2>2 DEF PlayerInv, Stale
<1>11. Grouped(u)'
  BY <1>1, <1>4, NotGrouped DEF QueueInv
<1>12. Found(u)'
  BY <1>6 DEF Found
<1>13. Flying(u)'
  <2>1. \A m \in MatchIDs : ~(InFlight(m) /\ u \in members[m])
    BY <1>3, <1>4 DEF PlayerInv, Flying
  <2>2. QED
    BY <1>1, <2>1 DEF Flying, InFlight
<1>14. QED
  BY <1>9, <1>10, <1>11, <1>12, <1>13 DEF PlayerInv

\* A request that ends, all its changes made.
LEMMA ReturnStep ==
    ASSUME TypeOK, NEW u \in UIDs, PlayerInv(u), Same(u), NEW h \in Handlers,
           Return(h), hpc[h] \notin Entering, UNCHANGED <<tVars, mstate, members>>
    PROVE  PlayerInv(u)'
<1>1. /\ \A g \in Handlers \ {h} : hpc'[g] = hpc[g] /\ hreq'[g] = hreq[g]
      /\ hreq'[h] = NoTicket
  BY DEF Return, Goto, TypeOK
<1>2. ~Works(h, u)'
  BY <1>1 DEF Works
<1>3. QED
  BY <1>1, <1>2, HandStep

\* What every handler step leaves alone.
LEMMA HandlerShape ==
    ASSUME TypeOK, Resting, NEW h \in Handlers, Request(h) \/ HandlerStep(h)
    PROVE  /\ UNCHANGED <<tVars, mVars>> /\ raced \subseteq raced'
           /\ \A g \in Handlers \ {h} : hpc'[g] = hpc[g] /\ hreq'[g] = hreq[g]
           /\ hpc'[h] = "idle" => hreq'[h] = NoTicket
<1> USE DEF Goto, Return, TypeOK
<1>1. ASSUME NEW u \in UIDs, NEW r \in RatingsOf[u], MatchReq(h, u, r)
      PROVE  /\ UNCHANGED <<tVars, mVars, raced>>
             /\ \A g \in Handlers \ {h} : hpc'[g] = hpc[g] /\ hreq'[g] = hreq[g]
             /\ hpc'[h] = "idle" => hreq'[h] = NoTicket
  BY <1>1 DEF MatchReq
<1>2. ASSUME NEW u \in UIDs, MatchCancelReq(h, u)
      PROVE  /\ UNCHANGED <<tVars, mVars, raced>>
             /\ \A g \in Handlers \ {h} : hpc'[g] = hpc[g] /\ hreq'[g] = hreq[g]
             /\ hpc'[h] = "idle" => hreq'[h] = NoTicket
  BY <1>2 DEF MatchCancelReq
<1>3. HandlerStep(h) => UNCHANGED <<tVars, mVars>>
  BY DEF HandlerStep, EnqueueCheck, EnqueuePut, BindRoute, EnqueuePool, DequeueState,
         DequeuePool, DequeuePanic, DeleteTicket, DeleteRoute
<1>4. HandlerStep(h) => raced \subseteq raced'
  BY DEF HandlerStep, EnqueueCheck, EnqueuePut, BindRoute, EnqueuePool, DequeueState,
         DequeuePool, DequeuePanic, DeleteTicket, DeleteRoute, Race
<1>5. HandlerStep(h) =>
        /\ \A g \in Handlers \ {h} : hpc'[g] = hpc[g] /\ hreq'[g] = hreq[g]
        /\ hpc'[h] = "idle" => hreq'[h] = NoTicket
  BY DEF HandlerStep, EnqueueCheck, EnqueuePut, BindRoute, EnqueuePool, DequeueState,
         DequeuePool, DequeuePanic, DeleteTicket, DeleteRoute
<1>6. QED
  BY <1>1, <1>2, <1>3, <1>4, <1>5 DEF Request

\* UpdateTicketState of one player leaves the tickets of the others alone.
LEMMA UpdatedElse ==
    ASSUME TypeOK, NEW u \in UIDs, NEW v \in UIDs \ {u}, NEW st, NEW t \in TicketIds, UidOf(t) = u
    PROVE  Updated(v, st)[t] = heap[t]
<1>1. tickets[v] # NoTicket => tickets[v] # t
  BY DEF TypeOK
<1>2. QED
  BY <1>1 DEF Updated, CanUpdate, TypeOK

\* BucketPool.Dequeue takes entries of the ticket's own player only.
LEMMA DequeueElse ==
    ASSUME TypeOK, NEW t \in TicketIds, PoolDequeue(t), NEW x \in TicketIds, UidOf(x) # UidOf(t)
    PROVE  pool'[x] = pool[x]
<1>1. pool' = pool \/ \E y \in TicketIds : UidOf(y) = UidOf(t) /\ pool' = [pool EXCEPT ![y] = @ - 1]
  BY DEF PoolDequeue, Entries
<1>2. QED
  BY <1>1 DEF TypeOK

\* A handler that works for others does not touch what u has.
LEMMA HandlerElse ==
    ASSUME TypeOK, Resting, NEW h \in Handlers, Request(h) \/ HandlerStep(h),
           NEW u \in UIDs, ~Works(h, u), ~Works(h, u)'
    PROVE  Same(u) /\ SameHands(u)
<1>1. SameHands(u)
  BY HandlerShape DEF SameHands, Works
<1>2. ASSUME NEW v \in UIDs, NEW r \in RatingsOf[v], MatchReq(h, v, r) PROVE Same(u)
  <2>1. PICK n \in 1..Cells :
            /\ heap' = [heap EXCEPT ![<<v, n>>] = [mmr |-> r, state |-> "idle"]]
            /\ hreq' = [hreq EXCEPT ![h] = <<v, n>>]
    BY <1>2 DEF MatchReq
  <2>2. <<v, n>> \in TicketIds /\ UidOf(<<v, n>>) = v
    BY DEF TicketIds, UidOf
  <2>3. hreq'[h] = <<v, n>>
    BY <2>1 DEF TypeOK
  <2>4. u # v
    BY <2>2, <2>3, NoneAssumption DEF Works
  <2>5. \A t \in TicketIds : UidOf(t) = u => heap'[t] = heap[t]
    BY <2>1, <2>2, <2>4 DEF TypeOK
  <2>6. QED
    BY <1>2, <2>5 DEF MatchReq, Same
<1>3. ASSUME NEW v \in UIDs, MatchCancelReq(h, v) PROVE Same(u)
  BY <1>3 DEF MatchCancelReq, Same, memVars
<1>4. ASSUME HandlerStep(h) PROVE Same(u)
  <2> DEFINE v == UidOf(hreq[h])
  <2>1. hpc[h] # "idle"
    BY <1>4 DEF HandlerStep, EnqueueCheck, EnqueuePut, BindRoute, EnqueuePool, DequeueState,
         DequeuePool, DequeuePanic, DeleteTicket, DeleteRoute
  <2>2. v \in UIDs /\ hreq[h] \in TicketIds /\ u # v
    BY <2>1, InHand
  <2>3. CASE EnqueueCheck(h) \/ BindRoute(h) \/ DequeuePanic(h) \/ DeleteRoute(h)
    BY <2>3 DEF EnqueueCheck, BindRoute, DequeuePanic, DeleteRoute, Same, memVars
  <2>4. CASE EnqueuePut(h)
    <3>1. \A t \in TicketIds : UidOf(t) = u => heap'[t] = heap[t]
      BY <2>2, <2>4 DEF EnqueuePut, TypeOK
    <3>2. tickets'[u] = tickets[u]
      BY <2>2, <2>4 DEF EnqueuePut, TypeOK
    <3>3. QED
      BY <2>4, <3>1, <3>2 DEF EnqueuePut, Same
  <2>5. CASE EnqueuePool(h)
    <3>1. \A t \in TicketIds : UidOf(t) = u => pool'[t] = pool[t]
      BY <2>2, <2>5 DEF EnqueuePool, PoolEnqueue, TypeOK
    <3>2. QED
      BY <2>5, <3>1 DEF EnqueuePool, Same
  <2>6. CASE DequeueState(h)
    <3>1. \A t \in TicketIds : UidOf(t) = u => heap'[t] = heap[t]
      BY <2>2, <2>6, UpdatedElse DEF DequeueState
    <3>2. QED
      BY <2>6, <3>1 DEF DequeueState, Same
  <2>7. CASE DequeuePool(h)
    <3>1. \A t \in TicketIds : UidOf(t) = u => pool'[t] = pool[t]
      BY <2>2, <2>7, DequeueElse DEF DequeuePool
    <3>2. QED
      BY <2>7, <3>1 DEF DequeuePool, Same
  <2>8. CASE DeleteTicket(h)
    <3>1. tickets'[u] = tickets[u]
      BY <2>2, <2>8 DEF DeleteTicket, TypeOK
    <3>2. QED
      BY <2>8, <3>1 DEF DeleteTicket, Same
  <2>9. QED
    BY <1>4, <2>3, <2>4, <2>5, <2>6, <2>7, <2>8 DEF HandlerStep
<1>5. QED
  BY <1>1, <1>2, <1>3, <1>4 DEF Request

\* A request for a cancellation, and the checks of Enqueue and Dequeue.
LEMMA CancelReqKeeps ==
    ASSUME TypeOK, QueueInv, NEW h \in Handlers, NEW u \in UIDs, u \notin raced, MatchCancelReq(h, u)
    PROVE  PlayerInv(u)'
<1>1. Same(u) /\ UNCHANGED <<tVars, mstate, members>>
  BY DEF MatchCancelReq, Same, memVars, mVars
<1>2. /\ \A g \in Handlers \ {h} : hpc'[g] = hpc[g] /\ hreq'[g] = hreq[g]
      /\ hreq'[h] = tickets[u] /\ hpc'[h] = "d_state"
  BY DEF MatchCancelReq, Goto, TypeOK
<1>3. ~Works(h, u)
  BY DEF QueueInv, Resting, MatchCancelReq, Works
<1>4. RequestOf(h, u)' /\ hpc'[h] \notin Entering \cup Leaving
  BY <1>2 DEF RequestOf, Entering, Leaving
<1>5. QED
  BY <1>1, <1>2, <1>3, <1>4, HandStep DEF QueueInv

LEMMA CheckKeeps ==
    ASSUME TypeOK, QueueInv, NEW h \in Handlers, NEW u \in UIDs, u = UidOf(hreq[h]),
           u \notin raced, EnqueueCheck(h)
    PROVE  PlayerInv(u)'
<1>1. /\ Same(u) /\ UNCHANGED <<tVars, mstate, members>> /\ hpc[h] = "e_check"
      /\ PlayerInv(u) /\ hpc[h] \notin Entering
  BY DEF EnqueueCheck, Same, memVars, mVars, QueueInv, Entering
<1>2. CASE AlreadyQueued(u)
  BY <1>1, <1>2, ReturnStep DEF EnqueueCheck
<1>3. CASE ~AlreadyQueued(u)
  <2>1. /\ \A g \in Handlers \ {h} : hpc'[g] = hpc[g] /\ hreq'[g] = hreq[g]
        /\ hreq'[h] = hreq[h] /\ hpc'[h] = "e_put"
    BY <1>3 DEF EnqueueCheck, Goto, TypeOK
  <2>2. Works(h, u) /\ hreq[h] \in TicketIds
    BY <1>1, InHand
  <2>3. RequestOf(h, u)
    BY <1>1, <2>2 DEF PlayerInv, Requests
  <2>4. St(u)' = St(u) /\ St(u) \notin {"queuing", "matching"}
    BY <1>1, <1>3, SameSt DEF AlreadyQueued, HasState, St
  <2>5. tickets'[u] = tickets[u] /\ pool'[hreq[h]] = pool[hreq[h]]
    BY <1>1, <2>2 DEF Same
  <2>6. RequestOf(h, u)'
    BY <1>1, <2>1, <2>3, <2>4, <2>5 DEF RequestOf, Entering, Leaving
  <2>7. hpc'[h] \notin Entering \cup Leaving
    BY <2>1 DEF Entering, Leaving
  <2>8. QED
    BY <1>1, <2>1, <2>6, <2>7, HandStep
<1>4. QED
  BY <1>2, <1>3

LEMMA BindKeeps ==
    ASSUME TypeOK, QueueInv, NEW h \in Handlers, NEW u \in UIDs, u = UidOf(hreq[h]),
           u \notin raced, BindRoute(h)
    PROVE  PlayerInv(u)'
<1>1. /\ Same(u) /\ UNCHANGED <<tVars, mstate, members>> /\ hpc[h] = "e_route" /\ PlayerInv(u)
  BY DEF BindRoute, Same, mVars, QueueInv
<1>2. /\ \A g \in Handlers \ {h} : hpc'[g] = hpc[g] /\ hreq'[g] = hreq[g]
      /\ hreq'[h] = hreq[h] /\ hpc'[h] = "e_pool"
  BY DEF BindRoute, Goto, TypeOK
<1>3. Works(h, u) /\ Works(h, u)' /\ hreq[h] \in TicketIds
  BY <1>1, <1>2, InHand DEF Works
<1>4. RequestOf(h, u)
  BY <1>1, <1>3 DEF PlayerInv, Requests
<1>5. St(u)' = St(u) /\ tickets'[u] = tickets[u] /\ pool'[hreq[h]] = pool[hreq[h]]
  BY <1>1, <1>3, SameSt DEF Same
<1>6. TickBusy(u)' <=> TickBusy(u)
  BY <1>1 DEF TickBusy, GroupUids, tVars
<1>7. \A g \in Handlers \ {h} : Works(g, u)' <=> Works(g, u)
  BY <1>2 DEF Works
<1>8. RequestOf(h, u)'
  BY <1>1, <1>2, <1>4, <1>5, <1>6, <1>7 DEF RequestOf, Entering, Leaving
<1>9. hpc[h] \in Entering /\ hpc'[h] \in Entering
  BY <1>1, <1>2 DEF Entering
<1>10. QED
  BY <1>1, <1>2, <1>3, <1>8, <1>9, HandStep

\* Every step of a handler keeps the invariant.
LEMMA HandlerKeepsQueue ==
    ASSUME TypeOK, QueueInv, NEW h \in Handlers, Request(h) \/ HandlerStep(h)
    PROVE  QueueInv'
<1>0. Resting
  BY DEF QueueInv
<1>1. /\ UNCHANGED <<tVars, mVars>> /\ raced \subseteq raced'
      /\ \A g \in Handlers \ {h} : hpc'[g] = hpc[g] /\ hreq'[g] = hreq[g]
      /\ hpc'[h] = "idle" => hreq'[h] = NoTicket
  BY <1>0, HandlerShape
<1>2. Resting'
  <2>1. \A i \in DOMAIN cands : GroupUids(cands[i])' = GroupUids(cands[i])
    BY <1>1 DEF tVars, GroupUids
  <2>2. \A g \in Handlers : hpc'[g] = "idle" => hreq'[g] = NoTicket
    BY <1>0, <1>1 DEF Resting
  <2>3. QED
    BY <1>0, <1>1, <2>1, <2>2 DEF Resting, tVars
<1>3. Flights'
  BY <1>1 DEF QueueInv, Flights, tVars, mVars, InFlight
<1>4. ASSUME NEW u \in UIDs, u \notin raced' PROVE PlayerInv(u)'
  <2>1. u \notin raced /\ PlayerInv(u) /\ UNCHANGED <<tVars, mstate, members>>
    BY <1>1, <1>4 DEF QueueInv, mVars
  <2>2. CASE ~Works(h, u) /\ ~Works(h, u)'
    BY <1>0, <2>1, <2>2, HandlerElse, HandlerFrame
  <2>3. CASE Works(h, u) \/ Works(h, u)'
    <3>1. ASSUME NEW v \in UIDs, NEW r \in RatingsOf[v], MatchReq(h, v, r) PROVE PlayerInv(u)'
      <4>1. hreq[h] = NoTicket
        BY <1>0, <3>1 DEF MatchReq, Resting
      <4>2. \E n \in 1..Cells : hreq'[h] = <<v, n>>
        BY <3>1 DEF MatchReq, TypeOK
      <4>3. u = v
        BY <2>3, <4>1, <4>2 DEF Works, UidOf
      <4>4. QED
        BY <2>1, <3>1, <4>3, MatchReqKeeps
    <3>2. ASSUME NEW v \in UIDs, MatchCancelReq(h, v) PROVE PlayerInv(u)'
      <4>1. hreq[h] = NoTicket /\ hreq'[h] = tickets[v] /\ tickets[v] # NoTicket
        BY <1>0, <3>2 DEF MatchCancelReq, Resting, TypeOK, HasState
      <4>2. u = v
        BY <2>3, <4>1 DEF Works, TypeOK
      <4>3. QED
        BY <2>1, <3>2, <4>2, CancelReqKeeps
    <3>3. ASSUME HandlerStep(h) PROVE PlayerInv(u)'
      <4>1. hpc[h] # "idle" /\ hreq'[h] \in {hreq[h], NoTicket}
        BY <3>3 DEF HandlerStep, EnqueueCheck, EnqueuePut, BindRoute, EnqueuePool, DequeueState,
           DequeuePool, DequeuePanic, DeleteTicket, DeleteRoute, Return, TypeOK
      <4>2. u = UidOf(hreq[h])
        BY <2>3, <4>1 DEF Works
      <4>3. CASE EnqueueCheck(h) \/ EnqueuePut(h) \/ BindRoute(h) \/ EnqueuePool(h)
        BY <1>4, <2>1, <4>2, <4>3, CheckKeeps, PutKeeps, BindKeeps, PoolKeeps
      <4>4. CASE DequeuePool(h) \/ DeleteTicket(h)
        BY <2>1, <4>2, <4>4, LeaveKeeps
      <4>5. CASE DequeueState(h)
        <5>1. CASE CanUpdate(u, "idle")
          BY <1>4, <4>2, <4>5, <5>1, IdleKeeps
        <5>2. CASE ~CanUpdate(u, "idle")
          <6>1. Return(h) /\ Same(u) /\ hpc[h] \notin Entering
            BY <4>2, <4>5, <5>2 DEF DequeueState, Same, Updated, Entering
          <6>2. QED
            BY <2>1, <6>1, ReturnStep
        <5>3. QED
          BY <5>1, <5>2
      <4>6. CASE DequeuePanic(h) \/ DeleteRoute(h)
        <5>1. Return(h) /\ Same(u) /\ hpc[h] \notin Entering
          BY <4>6 DEF DequeuePanic, DeleteRoute, Same, Entering
        <5>2. QED
          BY <2>1, <5>1, ReturnStep
      <4>7. QED
        BY <3>3, <4>3, <4>4, <4>5, <4>6 DEF HandlerStep
    <3>4. QED
      BY <3>1, <3>2, <3>3 DEF Request
  <2>4. QED
    BY <2>2, <2>3
<1>5. QED
  BY <1>2, <1>3, <1>4 DEF QueueInv
-----------------------------------------------------------------------------
(* The tick goroutine                                                      *)

\* The candidate in hand, its ticket and that ticket's player.
LEMMA AtHand ==
    ASSUME TypeOK, Resting, tpc # "idle"
    PROVE  /\ Needed \in Nat /\ Needed >= 2 /\ ti \in 1..Needed
           /\ Len(cands) \in Nat /\ Len(cands) >= 1 /\ DOMAIN cands = 1..Len(cands)
           /\ Head(cands) = cands[1] /\ CandTicket = cands[1][ti] /\ CandUids = GroupUids(cands[1])
           /\ \A i \in DOMAIN cands, j \in 1..Needed : cands[i][j] \in TicketIds
           /\ CandTicket \in TicketIds /\ UidOf(CandTicket) \in UIDs
           /\ UidOf(CandTicket) \in CandUids
           /\ \A u \in CandUids : TickBusy(u) /\ \A i \in DOMAIN cands : i # 1 => u \notin GroupUids(cands[i])
<1>1. Needed \in Nat /\ Needed >= 2 /\ ti \in 1..Needed
  BY SizesAssumption DEF Needed, TypeOK
<1>2. cands \in Seq([1..Needed -> TicketIds]) /\ cands # <<>>
  BY DEF TypeOK
<1>3. /\ Len(cands) \in Nat /\ Len(cands) >= 1 /\ DOMAIN cands = 1..Len(cands)
      /\ Head(cands) = cands[1]
  BY <1>2
<1>4. CandTicket = cands[1][ti] /\ CandUids = GroupUids(cands[1])
  BY <1>3 DEF CandTicket, CandUids
<1>5. ASSUME NEW i \in DOMAIN cands, NEW j \in 1..Needed PROVE cands[i][j] \in TicketIds
  <2>1. cands[i] \in [1..Needed -> TicketIds]
    BY <1>2
  <2>2. QED
    BY <2>1
<1>6. CandTicket \in TicketIds /\ UidOf(CandTicket) \in UIDs
  BY CandType
<1>7. UidOf(CandTicket) \in CandUids
  BY <1>1, <1>4 DEF GroupUids
<1>8. ASSUME NEW u \in CandUids
      PROVE  TickBusy(u) /\ \A i \in DOMAIN cands : i # 1 => u \notin GroupUids(cands[i])
  BY <1>3, <1>4, <1>8 DEF TickBusy, Resting
<1>9. QED
  BY <1>1, <1>3, <1>4, <1>5, <1>6, <1>7, <1>8

\* While the tick goroutine has u in hand no request of u is halfway.
LEMMA BusyCalm ==
    ASSUME TypeOK, NEW u \in UIDs, Requests(u), TickBusy(u), St(u) \in {"queuing", "matching"},
           NEW h \in Handlers, Works(h, u)
    PROVE  hpc[h] \notin Entering \cup Leaving /\ hpc[h] # "e_put"
BY DEF Requests, RequestOf

\* Requests that are not halfway do not mind what happens to the ticket of u.
LEMMA CalmRequests ==
    ASSUME TypeOK, NEW u \in UIDs, Requests(u), UNCHANGED hVars, tickets'[u] = tickets[u],
           \A h \in Handlers : Works(h, u) => hpc[h] \notin Entering \cup Leaving /\ hpc[h] # "e_put",
           \A t \in TicketIds : UidOf(t) = u /\ t # tickets[u] /\ pool[t] = 0 => pool'[t] = 0
    PROVE  Requests(u)'
<1> SUFFICES ASSUME NEW h \in Handlers, Works(h, u)' PROVE RequestOf(h, u)'
  BY DEF Requests
<1>1. Works(h, u) /\ hpc' = hpc /\ hreq' = hreq
  BY DEF Works, hVars
<1>2. RequestOf(h, u) /\ hpc[h] \notin Entering \cup Leaving /\ hpc[h] # "e_put"
  BY <1>1 DEF Requests
<1>3. hreq[h] \in TicketIds /\ UidOf(hreq[h]) = u
  BY <1>1 DEF Works, TypeOK
<1>4. QED
  BY <1>1, <1>2, <1>3 DEF RequestOf

\* Outside push, no player of a candidate is in flight.
LEMMA CalmFlying ==
    ASSUME TypeOK, NEW u \in UIDs, Flying(u), tpc # "push", TickBusy(u)' => TickBusy(u),
           St(u)' = St(u) \/ TickBusy(u), UNCHANGED <<mstate, members>>
    PROVE  Flying(u)'
<1>1. \A m \in MatchIDs : InFlight(m)' <=> InFlight(m)
  BY DEF InFlight
<1>2. TickBusy(u) => \A m \in MatchIDs : ~(InFlight(m) /\ u \in members[m])
  BY DEF Flying
<1>3. CASE TickBusy(u)
  BY <1>1, <1>2, <1>3 DEF Flying
<1>4. CASE ~TickBusy(u)
  BY <1>1, <1>4 DEF Flying
<1>5. QED
  BY <1>3, <1>4

\* A step for another player.
LEMMA TickFrame ==
    ASSUME TypeOK, NEW u \in UIDs, PlayerInv(u), Same(u), UNCHANGED <<hVars, mstate, members>>,
           tpc # "push", TickBusy(u)' <=> TickBusy(u), Grouped(u)'
    PROVE  PlayerInv(u)'
<1>1. SameHands(u)
  BY DEF SameHands, hVars, Works
<1>2. St(u)' = St(u)
  BY SameSt
<1>3. Requests(u)' /\ Stale(u)' /\ Found(u)'
  BY <1>1, RequestsFrame, StaleFrame, FoundFrame DEF PlayerInv
<1>4. Flying(u)'
  BY <1>2, CalmFlying DEF PlayerInv
<1>5. QED
  BY <1>3, <1>4 DEF PlayerInv

\* A step for the player of the candidate's ticket: only that ticket changes,
\* and entries of earlier ones may go.
LEMMA TickOwn ==
    ASSUME TypeOK, NEW u \in UIDs, PlayerInv(u), UNCHANGED <<hVars, mstate, members>>,
           tpc # "push", TickBusy(u), St(u) \in {"queuing", "matching"}, tickets'[u] = tickets[u],
           \A t \in TicketIds : UidOf(t) = u /\ t # tickets[u] =>
               heap'[t].state = heap[t].state /\ pool'[t] \in Nat /\ pool'[t] <= pool[t],
           Grouped(u)', Found(u)'
    PROVE  PlayerInv(u)'
<1>1. \A t \in TicketIds : pool[t] \in Nat
  BY CurrentTicket
<1>2. \A t \in TicketIds : UidOf(t) = u /\ t # tickets[u] /\ pool[t] = 0 => pool'[t] = 0
  BY <1>1
<1>3. Requests(u)'
  BY <1>2, BusyCalm, CalmRequests DEF PlayerInv
<1>4. Stale(u)'
  <2>1. \A t \in TicketIds : UidOf(t) = u /\ t # tickets[u] /\ pool'[t] > 0 => pool[t] > 0
    BY <1>1
  <2>2. QED
    BY <2>1 DEF PlayerInv, Stale
<1>5. Flying(u)'
  BY CalmFlying DEF PlayerInv
<1>6. QED
  BY <1>3, <1>4, <1>5 DEF PlayerInv

\* What is known of a player of the candidate in hand.
LEMMA InStage ==
    ASSUME TypeOK, Resting, tpc # "idle", NEW u \in UIDs, Grouped(u), NEW j \in 1..Needed,
           UidOf(cands[1][j]) = u
    PROVE  Staged(u, j) /\ cands[1][j] = tickets[u] /\ u \in CandUids /\ tickets[u] # NoTicket
<1>1. 1 \in DOMAIN cands /\ CandUids = GroupUids(cands[1]) /\ cands[1][j] \in TicketIds
  BY AtHand
<1>2. Staged(u, j) /\ cands[1][j] = tickets[u]
  BY <1>1 DEF Grouped
<1>3. QED
  BY <1>1, <1>2, NoneAssumption DEF GroupUids

\* The goroutine stays at its candidate.
LEMMA GroupedStep ==
    ASSUME TypeOK, Resting, tpc # "idle", NEW u \in UIDs, Grouped(u), UNCHANGED cands,
           tickets'[u] = tickets[u], u \notin CandUids => Same(u),
           \A j \in 1..Needed : UidOf(cands[1][j]) = u => Staged(u, j)'
    PROVE  Grouped(u)'
<1> SUFFICES ASSUME NEW i \in DOMAIN cands, NEW j \in 1..Needed, UidOf(cands[i][j]) = u
             PROVE  /\ cands[i][j] = tickets[u]
                    /\ IF i = 1 THEN Staged(u, j)' ELSE Pooled(u)'
  BY DEF Grouped
<1>1. cands[i][j] = tickets[u] /\ (i # 1 => Pooled(u))
  BY DEF Grouped
<1>2. CASE i = 1
  BY <1>1, <1>2
<1>3. CASE i # 1
  <2>1. u \in GroupUids(cands[i])
    BY DEF GroupUids
  <2>2. u \notin CandUids
    BY <1>3, <2>1, AtHand
  <2>3. Pooled(u)'
    BY <1>1, <1>3, <2>2, SameSt
  <2>4. QED
    BY <1>1, <1>3, <2>3
<1>4. QED
  BY <1>2, <1>3

\* The goroutine goes on to the next candidate.
LEMMA GroupedNext ==
    ASSUME TypeOK, Resting, tpc # "idle", NEW u \in UIDs, Grouped(u), cands' = Tail(cands),
           tpc' = IF Len(cands) = 1 THEN "idle" ELSE "next", u \notin CandUids => Same(u)
    PROVE  Grouped(u)' /\ (TickBusy(u)' <=> TickBusy(u) /\ u \notin CandUids)
<1>1. /\ Len(cands) \in Nat /\ Len(cands) >= 1 /\ DOMAIN cands = 1..Len(cands)
      /\ CandUids = GroupUids(cands[1])
  BY AtHand
<1>2. DOMAIN cands' = 1..(Len(cands) - 1) /\ \A i \in DOMAIN cands' : cands'[i] = cands[i + 1]
  BY <1>1 DEF TypeOK
<1>3. \A i \in DOMAIN cands' : i + 1 \in DOMAIN cands /\ i + 1 # 1
  BY <1>1, <1>2
<1>4. Grouped(u)'
  <2> SUFFICES ASSUME NEW i \in DOMAIN cands', NEW j \in 1..Needed, UidOf(cands'[i][j]) = u
               PROVE  /\ cands'[i][j] = tickets'[u]
                      /\ IF i = 1 THEN Staged(u, j)' ELSE Pooled(u)'
    BY DEF Grouped
  <2>1. i + 1 \in DOMAIN cands /\ i + 1 # 1 /\ cands'[i] = cands[i + 1] /\ UidOf(cands[i + 1][j]) = u
    BY <1>2, <1>3
  <2>2. cands[i + 1][j] = tickets[u] /\ Pooled(u)
    BY <2>1 DEF Grouped
  <2>3. u \in GroupUids(cands[i + 1])
    BY <2>1 DEF GroupUids
  <2>4. u \notin CandUids
    BY <2>1, <2>3, AtHand
  <2>5. Pooled(u)' /\ tickets'[u] = tickets[u]
    BY <2>2, <2>4, SameSt DEF Same
  <2>6. Staged(u, j)'
    BY <2>5 DEF Staged
  <2>7. QED
    BY <2>1, <2>2, <2>5, <2>6
<1>5. ASSUME TickBusy(u)' PROVE TickBusy(u) /\ u \notin CandUids
  <2>1. PICK i \in DOMAIN cands' : u \in GroupUids(cands'[i])
    BY <1>5 DEF TickBusy, GroupUids
  <2>2. u \in GroupUids(cands[i + 1]) /\ i + 1 \in DOMAIN cands /\ i + 1 # 1
    BY <1>2, <1>3, <2>1
  <2>3. QED
    BY <2>2, AtHand DEF TickBusy
<1>6. ASSUME TickBusy(u), u \notin CandUids PROVE TickBusy(u)'
  <2>1. PICK i \in DOMAIN cands : u \in GroupUids(cands[i])
    BY <1>6 DEF TickBusy
  <2>2. i \in 2..Len(cands)
    BY <1>1, <1>6, <2>1
  <2>3. i - 1 \in DOMAIN cands' /\ cands'[i - 1] = cands[i] /\ Len(cands) # 1
    BY <1>1, <1>2, <2>2
  <2>4. \E k \in DOMAIN cands' : u \in GroupUids(cands'[k])
    BY <2>1, <2>3
  <2>5. QED
    BY <2>3, <2>4 DEF TickBusy, GroupUids
<1>7. QED
  BY <1>4, <1>5, <1>6

\* A tick finds tickets that are current and in the pool.
LEMMA TickKeeps ==
    ASSUME TypeOK, QueueInv, Tick, NEW u \in UIDs, u \notin raced
    PROVE  PlayerInv(u)'
<1>1. PlayerInv(u) /\ Resting /\ tpc = "idle" /\ ~TickBusy(u)
  BY DEF QueueInv, Tick, TickBusy
<1>2. Same(u) /\ UNCHANGED <<hVars, mstate, members>> /\ tpc' = "next"
  BY DEF Tick, Same, memVars, mVars
<1>3. St(u)' = St(u) /\ (Pooled(u)' <=> Pooled(u)) /\ tickets'[u] = tickets[u]
  BY <1>2, SameSt DEF Same
<1>4. \A i \in DOMAIN cands', j \in 1..Needed : cands'[i][j] \in Searchable
  <2>1. cands' \in TickResults
    BY DEF Tick
  <2>2. CASE \E c \in Groups : cands' = <<c>>
    <3>1. PICK c \in Groups : cands' = <<c>>
      BY <2>2
    <3>2. \A i \in DOMAIN cands' : cands'[i] = c
      BY <3>1
    <3>3. QED
      BY <3>2 DEF Groups
  <2>3. CASE \E p \in Groups \X Groups : cands' = <<p[1], p[2]>>
    <3>1. PICK p \in Groups \X Groups : cands' = <<p[1], p[2]>>
      BY <2>3
    <3>2. \A i \in DOMAIN cands' : cands'[i] = p[1] \/ cands'[i] = p[2]
      BY <3>1
    <3>3. p[1] \in [1..Needed -> Searchable] /\ p[2] \in [1..Needed -> Searchable]
      BY DEF Groups
    <3>4. QED
      BY <3>2, <3>3
  <2>4. QED
    BY <2>1, <2>2, <2>3 DEF TickResults
<1>5. ASSUME NEW t \in Searchable, UidOf(t) = u PROVE t = tickets[u] /\ Pooled(u)
  <2>1. t \in TicketIds /\ pool[t] > 0 /\ heap[t].state = "queuing"
    BY DEF Searchable
  <2>2. t = tickets[u] /\ t # NoTicket
    BY <1>1, <1>5, <2>1, NoneAssumption DEF PlayerInv, Stale
  <2>3. QED
    BY <2>1, <2>2 DEF Pooled, St, InPool
<1>6. Grouped(u)'
  <2>1. \A j \in 1..Needed : Pooled(u)' => Staged(u, j)'
    BY <1>2 DEF Staged
  <2>2. QED
    BY <1>3, <1>4, <1>5, <2>1 DEF Grouped
<1>7. CASE ~TickBusy(u)'
  BY <1>1, <1>2, <1>6, <1>7, TickFrame
<1>8. CASE TickBusy(u)'
  <2>1. \E i \in DOMAIN cands', j \in 1..Needed : UidOf(cands'[i][j]) = u
    BY <1>8 DEF TickBusy, GroupUids
  <2>2. Pooled(u)
    BY <1>4, <1>5, <2>1
  <2>3. ASSUME NEW h \in Handlers, Works(h, u)
        PROVE  hpc[h] \notin Entering \cup Leaving /\ hpc[h] # "e_put"
    <3>1. RequestOf(h, u)
      BY <1>1, <2>3 DEF PlayerInv, Requests
    <3>2. hpc[h] \notin Leaving /\ hpc[h] # "e_put"
      BY <2>2, <3>1 DEF RequestOf, Pooled
    <3>3. hpc[h] \notin Entering
      BY <2>2, <3>1 DEF RequestOf, Pooled, InPool
    <3>4. QED
      BY <3>2, <3>3
  <2>4. Requests(u)'
    BY <1>1, <1>2, <2>3, CalmRequests DEF PlayerInv, Same
  <2>5. Found(u)'
    BY <1>8 DEF Found
  <2>6. Flying(u)'
    <3>1. \A m \in MatchIDs : ~(InFlight(m) /\ u \in members[m])
      BY <1>1, <2>2 DEF PlayerInv, Flying, Pooled
    <3>2. QED
      BY <1>2, <3>1 DEF Flying, InFlight
  <2>7. QED
    BY <1>1, <1>2, <1>6, <2>4, <2>5, <2>6, StaleFrame DEF PlayerInv
<1>9. QED
  BY <1>7, <1>8

\* Steps that only change what is done with the candidate next.
LEMMA TurnKeeps ==
    ASSUME TypeOK, QueueInv, NEW u \in UIDs, u \notin raced,
           NextMatchID \/ NextMatchIDFails \/ CASConfirmFails \/ CASConfirmLost
    PROVE  PlayerInv(u)'
<1>1. PlayerInv(u) /\ Resting
  BY DEF QueueInv
<1>2. /\ tpc \in {"next", "cas"} /\ tpc' \in {"mark", "r_state"} /\ ti' = 1
      /\ (tpc = "cas" => tpc' = "r_state")
  BY <1>1 DEF NextMatchID, NextMatchIDFails, CASConfirmFails, CASConfirmLost, Resting
<1>3. UNCHANGED <<memVars, hVars, cands, mstate, members>>
  BY DEF NextMatchID, NextMatchIDFails, CASConfirmFails, CASConfirmLost, mVars
<1>4. Same(u)
  BY <1>3 DEF Same, memVars
<1>5. St(u)' = St(u) /\ (Pooled(u)' <=> Pooled(u)) /\ tickets'[u] = tickets[u]
  BY <1>4, SameSt DEF Same
<1>6. TickBusy(u)' <=> TickBusy(u)
  BY <1>2, <1>3 DEF TickBusy, GroupUids
<1>7. ASSUME NEW j \in 1..Needed, UidOf(cands[1][j]) = u PROVE Staged(u, j)'
  <2>1. Staged(u, j)
    BY <1>1, <1>2, <1>7, InStage DEF PlayerInv
  <2>2. j \in Nat /\ j >= 1
    BY CurrentTicket
  <2>3. ~(j < ti')
    BY <1>2, <2>2
  <2>4. QED
    BY <1>2, <1>5, <2>1, <2>3 DEF Staged
<1>8. Grouped(u)'
  BY <1>1, <1>2, <1>3, <1>4, <1>5, <1>7, GroupedStep DEF PlayerInv
<1>9. QED
  BY <1>1, <1>2, <1>3, <1>4, <1>6, <1>8, TickFrame

\* The loop over the candidate's tickets changes those of their own player only.
LEMMA LoopElse ==
    ASSUME TypeOK, Resting, NEW u \in UIDs, u # UidOf(CandTicket),
           MarkTicket \/ UnpoolTicket \/ ReleaseState \/ ReleaseForce \/ ReleasePool
    PROVE  Same(u)
<1>1. tpc # "idle" /\ tickets' = tickets
  BY DEF MarkTicket, UnpoolTicket, ReleaseState, ReleaseForce, ReleasePool
<1>2. CandTicket \in TicketIds /\ UidOf(CandTicket) \in UIDs
  BY <1>1, AtHand
<1>3. CASE MarkTicket \/ ReleaseState
  <2>1. \A t \in TicketIds : UidOf(t) = u => heap'[t] = heap[t]
    BY <1>2, <1>3, UpdatedElse DEF MarkTicket, ReleaseState
  <2>2. QED
    BY <1>1, <1>3, <2>1 DEF MarkTicket, ReleaseState, Same
<1>4. CASE ReleaseForce
  <2>1. \A t \in TicketIds : UidOf(t) = u => heap'[t] = heap[t]
    BY <1>2, <1>4 DEF ReleaseForce, TypeOK
  <2>2. QED
    BY <1>1, <1>4, <2>1 DEF ReleaseForce, Same
<1>5. CASE UnpoolTicket
  <2>1. \A t \in TicketIds : UidOf(t) = u => pool'[t] = pool[t]
    BY <1>2, <1>5, DequeueElse DEF UnpoolTicket
  <2>2. QED
    BY <1>1, <1>5, <2>1 DEF UnpoolTicket, Same
<1>6. CASE ReleasePool
  <2>1. \A t \in TicketIds : UidOf(t) = u => pool'[t] = pool[t]
    BY <1>2, <1>6 DEF ReleasePool, PoolEnqueue, TypeOK
  <2>2. QED
    BY <1>1, <1>6, <2>1 DEF ReleasePool, Same
<1>7. QED
  BY <1>3, <1>4, <1>5, <1>6

\* UpdateTicketState(uid, MATCHING) of the candidate's ticket.
LEMMA MarkKeeps ==
    ASSUME TypeOK, QueueInv, MarkTicket, NEW u \in UIDs, u \notin raced
    PROVE  PlayerInv(u)'
<1>1. PlayerInv(u) /\ Resting /\ tpc = "mark" /\ tpc' = "unpool"
  BY DEF QueueInv, MarkTicket
<1>2. UNCHANGED <<tickets, pool, hVars, cands, ti, mstate, members>>
  BY DEF MarkTicket, mVars
<1>3. /\ ti \in 1..Needed /\ Needed \in Nat /\ CandTicket = cands[1][ti] /\ CandTicket \in TicketIds
      /\ UidOf(CandTicket) \in CandUids
  BY <1>1, AtHand
<1>4. TickBusy(u)' <=> TickBusy(u)
  BY <1>1, <1>2 DEF TickBusy, GroupUids
<1>5. CASE u # UidOf(CandTicket)
  <2>1. Same(u)
    BY <1>1, <1>5, LoopElse
  <2>2. St(u)' = St(u) /\ (Pooled(u)' <=> Pooled(u)) /\ tickets'[u] = tickets[u]
    BY <2>1, SameSt DEF Same
  <2>3. ASSUME NEW j \in 1..Needed, UidOf(cands[1][j]) = u PROVE Staged(u, j)'
    <3>1. Staged(u, j) /\ j # ti
      BY <1>1, <1>3, <1>5, <2>3, InStage DEF PlayerInv
    <3>2. QED
      BY <1>1, <1>2, <2>2, <3>1 DEF Staged
  <2>4. Grouped(u)'
    BY <1>1, <1>2, <2>1, <2>3, GroupedStep DEF PlayerInv
  <2>5. QED
    BY <1>1, <1>2, <1>4, <2>1, <2>4, TickFrame
<1>6. CASE u = UidOf(CandTicket)
  <2>1. Staged(u, ti) /\ CandTicket = tickets[u] /\ u \in CandUids /\ TickBusy(u)
    BY <1>1, <1>3, <1>6, InStage, AtHand DEF PlayerInv
  <2>2. St(u) \in {"queuing", "matching"}
    BY <1>1, <1>3, <2>1 DEF Staged, Pooled
  <2>3. tickets[u] \in TicketIds /\ tickets[u] # NoTicket /\ heap[tickets[u]] \in Ticket
        /\ St(u) = heap[tickets[u]].state
    BY <1>3, <2>1, NoneAssumption DEF TypeOK, St
  <2>4. CanUpdate(u, "matching") <=> St(u) = "queuing"
    BY <2>2, <2>3 DEF CanUpdate, CanTransitionTo, ticketTransitions
  <2>5. /\ heap'[tickets[u]].state = "matching"
        /\ \A t \in TicketIds : t # tickets[u] => heap'[t] = heap[t]
    <3>1. heap' = IF CanUpdate(u, "matching") THEN [heap EXCEPT ![tickets[u]].state = "matching"] ELSE heap
      BY <1>6 DEF MarkTicket, Updated
    <3>2. QED
      BY <2>2, <2>3, <2>4, <3>1 DEF TypeOK, Ticket
  <2>6. St(u)' = "matching"
    BY <1>2, <2>3, <2>5 DEF St
  <2>7. \A j \in 1..Needed : Staged(u, j)'
    BY <1>1, <2>6 DEF Staged
  <2>8. Grouped(u)'
    BY <1>1, <1>2, <2>1, <2>7, GroupedStep DEF PlayerInv
  <2>9. Found(u)'
    BY <2>6 DEF Found
  <2>10. \A t \in TicketIds : UidOf(t) = u /\ t # tickets[u] =>
               heap'[t].state = heap[t].state /\ pool'[t] \in Nat /\ pool'[t] <= pool[t]
    BY <1>2, <2>5, CurrentTicket
  <2>11. QED
    BY <1>1, <1>2, <2>1, <2>2, <2>8, <2>9, <2>10, TickOwn
<1>7. QED
  BY <1>5, <1>6

\* pool.Dequeue of the candidate's ticket.
LEMMA UnpoolKeeps ==
    ASSUME TypeOK, QueueInv, UnpoolTicket, NEW u \in UIDs, u \notin raced
    PROVE  PlayerInv(u)'
<1>1. PlayerInv(u) /\ Resting /\ tpc = "unpool"
  BY DEF QueueInv, UnpoolTicket
<1>2. UNCHANGED <<heap, tickets, hVars, cands, mstate, members>>
  BY DEF UnpoolTicket, mVars
<1>3. /\ ti \in 1..Needed /\ Needed \in Nat /\ CandTicket = cands[1][ti] /\ CandTicket \in TicketIds
      /\ UidOf(CandTicket) \in CandUids
  BY <1>1, AtHand
<1>4. (ti < Needed /\ ti' = ti + 1 /\ tpc' = "mark") \/ (ti = Needed /\ tpc' = "cas")
  BY <1>3 DEF UnpoolTicket, LoopTo
<1>5. TickBusy(u)' <=> TickBusy(u)
  BY <1>1, <1>2, <1>4 DEF TickBusy, GroupUids
<1>6. CASE u # UidOf(CandTicket)
  <2>1. Same(u)
    BY <1>1, <1>6, LoopElse
  <2>2. St(u)' = St(u) /\ (Pooled(u)' <=> Pooled(u)) /\ tickets'[u] = tickets[u]
    BY <2>1, SameSt DEF Same
  <2>3. ASSUME NEW j \in 1..Needed, UidOf(cands[1][j]) = u PROVE Staged(u, j)'
    <3>1. Staged(u, j) /\ j # ti
      BY <1>1, <1>3, <1>6, <2>3, InStage DEF PlayerInv
    <3>2. CASE tpc' = "mark"
      <4>1. j < ti' <=> j < ti
        BY <1>3, <1>4, <3>1, <3>2
      <4>2. j < ti => St(u) = "matching"
        BY <1>1, <3>1 DEF Staged
      <4>3. ~(j < ti) => St(u) = "matching" \/ Pooled(u)
        BY <1>1, <3>1 DEF Staged
      <4>4. QED
        BY <2>2, <3>2, <4>1, <4>2, <4>3 DEF Staged
    <3>3. CASE tpc' = "cas"
      <4>1. j < ti
        BY <1>3, <1>4, <3>1, <3>3
      <4>2. St(u) = "matching"
        BY <1>1, <3>1, <4>1 DEF Staged
      <4>3. QED
        BY <2>2, <3>3, <4>2 DEF Staged
    <3>4. QED
      BY <1>4, <3>2, <3>3
  <2>4. Grouped(u)'
    BY <1>1, <1>2, <2>1, <2>3, GroupedStep DEF PlayerInv
  <2>5. QED
    BY <1>1, <1>2, <1>5, <2>1, <2>4, TickFrame
<1>7. CASE u = UidOf(CandTicket)
  <2>1. Staged(u, ti) /\ CandTicket = tickets[u] /\ u \in CandUids /\ TickBusy(u)
    BY <1>1, <1>3, <1>7, InStage, AtHand DEF PlayerInv
  <2>2. St(u) = "matching"
    BY <1>1, <2>1 DEF Staged
  <2>3. St(u)' = "matching"
    BY <1>2, <2>2 DEF St
  <2>4. \A j \in 1..Needed : Staged(u, j)'
    BY <1>4, <2>3 DEF Staged
  <2>5. Grouped(u)' /\ Found(u)'
    BY <1>1, <1>2, <2>1, <2>3, <2>4, GroupedStep DEF PlayerInv, Found
  <2>6. PoolDequeue(CandTicket)
    BY DEF UnpoolTicket
  <2>7. pool' \in [TicketIds -> Nat]
    BY <1>3, <2>6, PoolDequeueType
  <2>8. ASSUME NEW t \in TicketIds PROVE pool'[t] \in Nat /\ pool'[t] <= pool[t]
    BY <1>3, <2>6, <2>7, DequeueLess
  <2>9. \A t \in TicketIds : heap'[t].state = heap[t].state
    BY <1>2
  <2>10. QED
    BY <1>1, <1>2, <2>1, <2>2, <2>5, <2>8, <2>9, TickOwn
<1>8. QED
  BY <1>6, <1>7

\* CASConfirm: the candidate's players were in no match in flight.
LEMMA ConfirmKeeps ==
    ASSUME TypeOK, QueueInv, Confirm, NEW u \in UIDs, u \notin raced
    PROVE  PlayerInv(u)'
<1>1. PlayerInv(u) /\ Resting /\ Flights /\ tpc = "cas" /\ tpc' = "push" /\ cur \in MatchIDs
  BY DEF QueueInv, Confirm, TypeOK
<1>2. /\ UNCHANGED <<memVars, hVars, cands, ti, cur>>
      /\ mstate' = [mstate EXCEPT ![cur] = "confirmed"] /\ members' = [members EXCEPT ![cur] = CandUids]
  BY DEF Confirm
<1>3. Same(u) /\ SameHands(u)
  BY <1>2 DEF Same, memVars, SameHands, hVars, Works
<1>4. St(u)' = St(u) /\ (Pooled(u)' <=> Pooled(u)) /\ tickets'[u] = tickets[u]
  BY <1>3, SameSt DEF Same
<1>5. /\ TickBusy(u)' <=> TickBusy(u)
      /\ CandUids' = CandUids
  BY <1>1, <1>2 DEF TickBusy, GroupUids, CandUids
<1>6. ASSUME NEW j \in 1..Needed, UidOf(cands[1][j]) = u PROVE St(u) = "matching"
  BY <1>1, <1>6, InStage DEF PlayerInv, Staged
<1>7. \A j \in 1..Needed : UidOf(cands[1][j]) = u => Staged(u, j)'
  BY <1>1, <1>4, <1>6 DEF Staged
<1>8. Grouped(u)'
  BY <1>1, <1>2, <1>3, <1>4, <1>7, GroupedStep DEF PlayerInv
<1>9. Requests(u)' /\ Stale(u)' /\ Found(u)'
  BY <1>1, <1>3, <1>5, RequestsFrame, StaleFrame, FoundFrame DEF PlayerInv
<1>10. u \in CandUids => St(u) = "matching" /\ TickBusy(u)
  BY <1>1, <1>6, AtHand DEF GroupUids
<1>11. Flying(u)'
  <2>1. \A m \in MatchIDs : m # cur => (InFlight(m)' <=> InFlight(m)) /\ members'[m] = members[m]
    BY <1>2 DEF InFlight, TypeOK
  <2>2. members'[cur] = CandUids
    BY <1>1, <1>2 DEF TypeOK
  <2>3. u \in CandUids => \A m \in MatchIDs : ~(InFlight(m) /\ u \in members[m])
    BY <1>1, <1>10 DEF PlayerInv, Flying
  <2>4. ASSUME NEW m \in MatchIDs, InFlight(m)', u \in members'[m]
        PROVE  /\ St(u)' = "matching"
               /\ TickBusy(u)' => tpc' = "push" /\ m = cur' /\ u \in CandUids'
               /\ \A n \in MatchIDs \ {m} : ~(InFlight(n)' /\ u \in members'[n])
    <3>1. CASE m = cur
      <4>1. u \in CandUids
        BY <2>2, <2>4, <3>1
      <4>2. QED
        BY <1>1, <1>2, <1>4, <1>5, <1>10, <2>1, <2>3, <3>1, <4>1
    <3>2. CASE m # cur
      <4>1. InFlight(m) /\ u \in members[m] /\ u \notin CandUids
        BY <2>1, <2>3, <2>4, <3>2
      <4>2. /\ St(u) = "matching" /\ ~TickBusy(u)
            /\ \A n \in MatchIDs \ {m} : ~(InFlight(n) /\ u \in members[n])
        BY <1>1, <4>1 DEF PlayerInv, Flying
      <4>3. \A n \in MatchIDs \ {m} : ~(InFlight(n)' /\ u \in members'[n])
        BY <2>1, <2>2, <4>1, <4>2
      <4>4. QED
        BY <1>4, <1>5, <4>2, <4>3
    <3>3. QED
      BY <3>1, <3>2
  <2>5. QED
    BY <2>4 DEF Flying
<1>12. QED
  BY <1>8, <1>9, <1>11 DEF PlayerInv

\* The match is in the channel: the goroutine has nothing more to do with it.
LEMMA PushKeeps ==
    ASSUME TypeOK, QueueInv, Push, NEW u \in UIDs, u \notin raced
    PROVE  PlayerInv(u)'
<1>1. PlayerInv(u) /\ Resting /\ tpc = "push" /\ cands' = Tail(cands)
      /\ tpc' = IF Len(cands) = 1 THEN "idle" ELSE "next"
  BY DEF QueueInv, Push, NextCandidate
<1>2. UNCHANGED <<memVars, hVars, mstate, members>>
  BY DEF Push
<1>3. Same(u) /\ SameHands(u)
  BY <1>2 DEF Same, memVars, SameHands, hVars, Works
<1>4. St(u)' = St(u)
  BY <1>3, SameSt
<1>5. Grouped(u)' /\ (TickBusy(u)' <=> TickBusy(u) /\ u \notin CandUids)
  BY <1>1, <1>3, GroupedNext DEF PlayerInv
<1>6. ASSUME u \in CandUids PROVE St(u) = "matching"
  <2>1. \E j \in 1..Needed : UidOf(cands[1][j]) = u
    BY <1>1, <1>6, AtHand DEF GroupUids
  <2>2. QED
    BY <1>1, <2>1, InStage DEF PlayerInv, Staged
<1>7. Requests(u)' /\ Stale(u)'
  BY <1>1, <1>3, <1>5, RequestsFrame, StaleFrame DEF PlayerInv
<1>8. Found(u)'
  <2>1. CASE u \in CandUids
    BY <1>4, <1>6, <2>1 DEF Found
  <2>2. CASE u \notin CandUids
    BY <1>1, <1>3, <1>5, <2>2, FoundFrame DEF PlayerInv
  <2>3. QED
    BY <2>1, <2>2
<1>9. Flying(u)'
  <2>1. \A m \in MatchIDs : InFlight(m)' <=> InFlight(m)
    BY <1>2 DEF InFlight
  <2>2. \A m \in MatchIDs : InFlight(m) /\ u \in members[m] => ~TickBusy(u)'
    BY <1>1, <1>5 DEF PlayerInv, Flying
  <2>3. QED
    BY <1>1, <1>2, <1>4, <2>1, <2>2 DEF PlayerInv, Flying
<1>10. QED
  BY <1>5, <1>7, <1>8, <1>9 DEF PlayerInv

\* UpdateTicketState(uid, QUEUING) of releaseCandidate.
LEMMA ReleaseStateKeeps ==
    ASSUME TypeOK, QueueInv, ReleaseState, NEW u \in UIDs, u \notin raced
    PROVE  PlayerInv(u)'
<1>1. PlayerInv(u) /\ Resting /\ tpc = "r_state" /\ tpc' = "r_force"
  BY DEF QueueInv, ReleaseState
<1>2. UNCHANGED <<tickets, pool, hVars, cands, ti, mstate, members>>
  BY DEF ReleaseState, mVars
<1>3. /\ ti \in 1..Needed /\ Needed \in Nat /\ CandTicket = cands[1][ti] /\ CandTicket \in TicketIds
      /\ UidOf(CandTicket) \in CandUids /\ Head(cands) = cands[1]
  BY <1>1, AtHand
<1>4. TickBusy(u)' <=> TickBusy(u)
  BY <1>1, <1>2 DEF TickBusy, GroupUids
<1>5. CASE u # UidOf(CandTicket)
  <2>1. Same(u)
    BY <1>1, <1>5, LoopElse
  <2>2. St(u)' = St(u) /\ (Pooled(u)' <=> Pooled(u)) /\ tickets'[u] = tickets[u]
    BY <2>1, SameSt DEF Same
  <2>3. ASSUME NEW j \in 1..Needed, UidOf(cands[1][j]) = u PROVE Staged(u, j)'
    <3>1. Staged(u, j) /\ j # ti
      BY <1>1, <1>3, <1>5, <2>3, InStage DEF PlayerInv
    <3>2. QED
      BY <1>1, <1>2, <2>2, <3>1 DEF Staged
  <2>4. Grouped(u)'
    BY <1>1, <1>2, <2>1, <2>3, GroupedStep DEF PlayerInv
  <2>5. QED
    BY <1>1, <1>2, <1>4, <2>1, <2>4, TickFrame
<1>6. CASE u = UidOf(CandTicket)
  <2>1. Staged(u, ti) /\ CandTicket = tickets[u] /\ u \in CandUids /\ TickBusy(u)
    BY <1>1, <1>3, <1>6, InStage, AtHand DEF PlayerInv
  <2>2. St(u) \in {"queuing", "matching"}
    BY <1>1, <2>1 DEF Staged, Pooled
  <2>3. tickets[u] \in TicketIds /\ tickets[u] # NoTicket /\ heap[tickets[u]] \in Ticket
        /\ St(u) = heap[tickets[u]].state
    BY <1>3, <2>1, NoneAssumption DEF TypeOK, St
  <2>4. CanUpdate(u, "queuing") <=> St(u) = "matching"
    BY <2>2, <2>3 DEF CanUpdate, CanTransitionTo, ticketTransitions
  <2>5. /\ heap'[tickets[u]].state = "queuing"
        /\ \A t \in TicketIds : t # tickets[u] => heap'[t] = heap[t]
    <3>1. heap' = IF CanUpdate(u, "queuing") THEN [heap EXCEPT ![tickets[u]].state = "queuing"] ELSE heap
      BY <1>6 DEF ReleaseState, Updated
    <3>2. QED
      BY <2>2, <2>3, <2>4, <3>1 DEF TypeOK, Ticket
  <2>6. St(u)' = "queuing" /\ (InPool(u)' <=> InPool(u))
    BY <1>2, <2>3, <2>5 DEF St, InPool
  <2>7. ASSUME NEW j \in 1..Needed, UidOf(cands[1][j]) = u PROVE Staged(u, j)'
    <3>1. Staged(u, j)
      BY <1>1, <2>7, InStage DEF PlayerInv
    <3>2. j < ti => Pooled(u)'
      BY <1>1, <2>6, <3>1 DEF Staged, Pooled
    <3>3. UidOf(Head(cands)[ti]) = u
      BY <1>3, <1>6
    <3>4. QED
      BY <1>1, <1>2, <2>6, <3>2, <3>3 DEF Staged
  <2>8. Grouped(u)'
    BY <1>1, <1>2, <2>1, <2>7, GroupedStep DEF PlayerInv
  <2>9. Found(u)'
    BY <1>4, <2>1 DEF Found
  <2>10. \A t \in TicketIds : UidOf(t) = u /\ t # tickets[u] =>
               heap'[t].state = heap[t].state /\ pool'[t] \in Nat /\ pool'[t] <= pool[t]
    BY <1>2, <2>5, CurrentTicket
  <2>11. QED
    BY <1>1, <1>2, <2>1, <2>2, <2>8, <2>9, <2>10, TickOwn
<1>7. QED
  BY <1>5, <1>6

\* t.State = QUEUING: it already was, the ticket being the player's own.
LEMMA ReleaseForceKeeps ==
    ASSUME TypeOK, QueueInv, ReleaseForce, NEW u \in UIDs, u \notin raced
    PROVE  PlayerInv(u)'
<1>1. PlayerInv(u) /\ Resting /\ tpc = "r_force" /\ tpc' = "r_pool"
  BY DEF QueueInv, ReleaseForce
<1>2. UNCHANGED <<tickets, pool, hVars, cands, ti, mstate, members>>
  BY DEF ReleaseForce, mVars
<1>3. /\ ti \in 1..Needed /\ Needed \in Nat /\ CandTicket = cands[1][ti] /\ CandTicket \in TicketIds
      /\ UidOf(CandTicket) \in CandUids
  BY <1>1, AtHand
<1>4. TickBusy(u)' <=> TickBusy(u)
  BY <1>1, <1>2 DEF TickBusy, GroupUids
<1>5. Same(u)
  <2>1. CASE u # UidOf(CandTicket)
    BY <1>1, <2>1, LoopElse
  <2>2. CASE u = UidOf(CandTicket)
    <3>1. Staged(u, ti) /\ CandTicket = tickets[u] /\ tickets[u] # NoTicket
      BY <1>1, <1>3, <2>2, InStage DEF PlayerInv
    <3>2. heap[CandTicket].state = "queuing" /\ heap[CandTicket] \in Ticket
      BY <1>1, <1>3, <3>1 DEF Staged, St, TypeOK
    <3>3. \A t \in TicketIds : heap'[t].state = heap[t].state
      BY <1>3, <3>2 DEF ReleaseForce, TypeOK, Ticket
    <3>4. QED
      BY <1>2, <3>3 DEF Same
  <2>3. QED
    BY <2>1, <2>2
<1>6. St(u)' = St(u) /\ (Pooled(u)' <=> Pooled(u)) /\ tickets'[u] = tickets[u]
  BY <1>5, SameSt DEF Same
<1>7. ASSUME NEW j \in 1..Needed, UidOf(cands[1][j]) = u PROVE Staged(u, j)'
  <2>1. Staged(u, j)
    BY <1>1, <1>7, InStage DEF PlayerInv
  <2>2. QED
    BY <1>1, <1>2, <1>6, <2>1 DEF Staged
<1>8. Grouped(u)'
  BY <1>1, <1>2, <1>5, <1>7, GroupedStep DEF PlayerInv
<1>9. QED
  BY <1>1, <1>2, <1>4, <1>5, <1>8, TickFrame

\* The candidate's ticket is back in its bucket.
LEMMA ReleasePoolKeeps ==
    ASSUME TypeOK, QueueInv, ReleasePool, NEW u \in UIDs, u \notin raced
    PROVE  PlayerInv(u)'
<1>1. PlayerInv(u) /\ Resting /\ tpc = "r_pool" /\ tpc # "push" /\ tpc # "idle"
  BY DEF QueueInv, ReleasePool
<1>2. UNCHANGED <<heap, tickets, hVars, mstate, members>> /\ tickets'[u] = tickets[u]
  BY DEF ReleasePool, mVars
<1>3. /\ ti \in 1..Needed /\ Needed \in Nat /\ CandTicket = cands[1][ti] /\ CandTicket \in TicketIds
      /\ UidOf(CandTicket) \in CandUids /\ CandUids = GroupUids(cands[1]) /\ Head(cands) = cands[1]
  BY <1>1, AtHand
<1>4. \/ ti < Needed /\ ti' = ti + 1 /\ tpc' = "r_state" /\ UNCHANGED cands
      \/ ti = Needed /\ cands' = Tail(cands) /\ tpc' = IF Len(cands) = 1 THEN "idle" ELSE "next"
  BY <1>3 DEF ReleasePool, LoopTo, NextCandidate
<1>5. ASSUME u = UidOf(CandTicket)
      PROVE  /\ CandTicket = tickets[u] /\ u \in CandUids /\ TickBusy(u) /\ St(u) = "queuing"
             /\ Pooled(u)'
             /\ \A t \in TicketIds : UidOf(t) = u /\ t # tickets[u] =>
                  heap'[t].state = heap[t].state /\ pool'[t] \in Nat /\ pool'[t] <= pool[t]
  <2>1. Staged(u, ti) /\ CandTicket = tickets[u] /\ u \in CandUids /\ TickBusy(u) /\ tickets[u] # NoTicket
    BY <1>1, <1>3, <1>5, InStage, AtHand DEF PlayerInv
  <2>2. St(u) = "queuing"
    BY <1>1, <2>1 DEF Staged
  <2>3. pool \in [TicketIds -> Nat] /\ pool' = [pool EXCEPT ![tickets[u]] = @ + 1]
    BY <2>1 DEF ReleasePool, PoolEnqueue, TypeOK
  <2>4. tickets[u] \in TicketIds /\ pool'[tickets[u]] > 0
    BY <1>3, <2>1, <2>3
  <2>5. Pooled(u)'
    BY <1>2, <2>1, <2>2, <2>4 DEF Pooled, St, InPool
  <2>6. \A t \in TicketIds : t # tickets[u] => pool'[t] = pool[t] /\ pool[t] \in Nat
    BY <2>3
  <2>7. \A t \in TicketIds : UidOf(t) = u /\ t # tickets[u] =>
            heap'[t].state = heap[t].state /\ pool'[t] \in Nat /\ pool'[t] <= pool[t]
    BY <1>2, <2>6
  <2>8. QED
    BY <2>1, <2>2, <2>5, <2>7
<1>6. ASSUME u # UidOf(CandTicket)
      PROVE  Same(u) /\ St(u)' = St(u) /\ (Pooled(u)' <=> Pooled(u))
  BY <1>1, <1>6, LoopElse, SameSt
<1>7. ASSUME ti < Needed PROVE PlayerInv(u)'
  <2>1. ti' = ti + 1 /\ tpc' = "r_state" /\ UNCHANGED cands
    BY <1>3, <1>4, <1>7
  <2>2. TickBusy(u)' <=> TickBusy(u)
    BY <1>1, <2>1 DEF TickBusy, GroupUids
  <2>3. CASE u = UidOf(CandTicket)
    <3>1. \A j \in 1..Needed : Staged(u, j)'
      BY <1>5, <2>1, <2>3 DEF Staged
    <3>2. Grouped(u)'
      BY <1>1, <1>2, <1>5, <2>1, <2>3, <3>1, GroupedStep DEF PlayerInv
    <3>3. Found(u)'
      BY <1>5, <2>3 DEF Found, Pooled
    <3>4. QED
      BY <1>1, <1>2, <1>5, <2>3, <3>2, <3>3, TickOwn
  <2>4. CASE u # UidOf(CandTicket)
    <3>1. ASSUME NEW j \in 1..Needed, UidOf(cands[1][j]) = u PROVE Staged(u, j)'
      <4>1. Staged(u, j) /\ j # ti
        BY <1>1, <1>3, <2>4, <3>1, InStage DEF PlayerInv
      <4>2. j < ti' <=> j < ti
        BY <1>3, <2>1, <4>1
      <4>3. UidOf(Head(cands)[ti]) # u
        BY <1>3, <2>4
      <4>4. (j < ti => Pooled(u)) /\ (St(u) = "matching" \/ Pooled(u))
        BY <1>1, <4>1, <4>3 DEF Staged
      <4>5. QED
        BY <1>6, <2>1, <2>4, <4>2, <4>4 DEF Staged
    <3>2. Grouped(u)'
      BY <1>1, <1>2, <1>6, <2>1, <2>4, <3>1, GroupedStep DEF PlayerInv
    <3>3. QED
      BY <1>1, <1>2, <1>6, <2>2, <2>4, <3>2, TickFrame
  <2>5. QED
    BY <2>3, <2>4
<1>8. ASSUME ti = Needed PROVE PlayerInv(u)'
  <2>1. cands' = Tail(cands) /\ tpc' = IF Len(cands) = 1 THEN "idle" ELSE "next"
    BY <1>3, <1>4, <1>8
  <2>2. u \notin CandUids => Same(u)
    BY <1>3, <1>6
  <2>3. Grouped(u)' /\ (TickBusy(u)' <=> TickBusy(u) /\ u \notin CandUids)
    BY <1>1, <2>1, <2>2, GroupedNext DEF PlayerInv
  <2>4. ASSUME u \in CandUids PROVE Pooled(u)' /\ TickBusy(u) /\ St(u) \in {"queuing", "matching"}
    <3>1. CASE u = UidOf(CandTicket)
      BY <1>5, <3>1
    <3>2. CASE u # UidOf(CandTicket)
      <4>1. PICK j \in 1..Needed : UidOf(cands[1][j]) = u
        BY <1>3, <2>4 DEF GroupUids
      <4>2. Staged(u, j) /\ j # ti
        BY <1>1, <1>3, <3>2, <4>1, InStage DEF PlayerInv
      <4>3. j < ti
        BY <1>3, <1>8, <4>2
      <4>4. Pooled(u)
        BY <1>1, <4>2, <4>3 DEF Staged
      <4>5. QED
        BY <1>1, <1>6, <2>4, <3>2, <4>4, AtHand DEF Pooled
    <3>3. QED
      BY <3>1, <3>2
  <2>5. CASE u \in CandUids
    <3>1. Found(u)'
      BY <2>4, <2>5 DEF Found, Pooled
    <3>2. ASSUME NEW t \in TicketIds, UidOf(t) = u, t # tickets[u]
          PROVE  heap'[t].state = heap[t].state /\ pool'[t] \in Nat /\ pool'[t] <= pool[t]
      <4>1. CASE u = UidOf(CandTicket)
        BY <1>5, <3>2, <4>1
      <4>2. CASE u # UidOf(CandTicket)
        <5>1. heap'[t].state = heap[t].state /\ pool'[t] = pool[t] /\ pool[t] \in Nat
          BY <1>6, <3>2, <4>2, CurrentTicket DEF Same
        <5>2. QED
          BY <5>1
      <4>3. QED
        BY <4>1, <4>2
    <3>3. QED
      BY <1>1, <1>2, <2>3, <2>4, <2>5, <3>1, <3>2, TickOwn
  <2>6. CASE u \notin CandUids
    BY <1>1, <1>2, <2>2, <2>3, <2>6, TickFrame
  <2>7. QED
    BY <2>5, <2>6
<1>9. QED
  BY <1>3, <1>4, <1>7, <1>8

\* Candidates stay apart, a goroutine that goes to rest has none.
LEMMA TailRests ==
    ASSUME TypeOK, Resting, tpc # "idle", cands' = Tail(cands), UNCHANGED hVars,
           tpc' = IF Len(cands) = 1 THEN "idle" ELSE "next"
    PROVE  Resting'
<1>1. Len(cands) \in Nat /\ Len(cands) >= 1 /\ DOMAIN cands = 1..Len(cands)
  BY AtHand
<1>2. DOMAIN cands' = 1..(Len(cands) - 1) /\ \A i \in DOMAIN cands' : cands'[i] = cands[i + 1]
  BY <1>1 DEF TypeOK
<1>3. Len(cands) = 1 => cands' = <<>>
  BY <1>1 DEF TypeOK
<1>4. ASSUME NEW i \in DOMAIN cands', NEW j \in DOMAIN cands', i # j
      PROVE  GroupUids(cands'[i]) \cap GroupUids(cands'[j]) = {}
  <2>1. i + 1 \in DOMAIN cands /\ j + 1 \in DOMAIN cands /\ i + 1 # j + 1
    BY <1>1, <1>2, <1>4
  <2>2. QED
    BY <1>2, <2>1 DEF Resting
<1>5. \A i, j \in DOMAIN cands' : i # j => (GroupUids(cands[i]) \cap GroupUids(cands[j]))' = {}
  BY <1>4 DEF GroupUids
<1>6. QED
  BY <1>3, <1>5 DEF Resting, hVars

LEMMA StepRests ==
    ASSUME TypeOK, Resting, UNCHANGED <<hVars, cands>>, tpc' # "idle" \/ UNCHANGED tpc,
           tpc' = "cas" => ti' = 1
    PROVE  Resting'
<1>1. \A i \in DOMAIN cands : GroupUids(cands[i])' = GroupUids(cands[i])
  BY DEF GroupUids
<1>2. QED
  BY <1>1 DEF Resting, hVars

LEMMA TickRests ==
    ASSUME TypeOK, Resting, Tick
    PROVE  Resting'
<1>1. tpc' = "next" /\ cands' \in TickResults /\ UNCHANGED hVars
  BY DEF Tick
<1>2. ASSUME NEW i \in DOMAIN cands', NEW j \in DOMAIN cands', i # j
      PROVE  GroupUids(cands'[i]) \cap GroupUids(cands'[j]) = {}
  <2>1. CASE \E c \in Groups : cands' = <<c>>
    <3>1. \A k \in DOMAIN cands' : k = 1
      BY <2>1
    <3>2. QED
      BY <1>2, <3>1
  <2>2. CASE \E p \in Groups \X Groups : /\ GroupUids(p[1]) \cap GroupUids(p[2]) = {}
                                         /\ cands' = <<p[1], p[2]>>
    <3>1. PICK p \in Groups \X Groups : /\ GroupUids(p[1]) \cap GroupUids(p[2]) = {}
                                        /\ cands' = <<p[1], p[2]>>
      BY <2>2
    <3>2. DOMAIN cands' = {1, 2} /\ cands'[1] = p[1] /\ cands'[2] = p[2]
      BY <3>1
    <3>3. (i = 1 /\ j = 2) \/ (i = 2 /\ j = 1)
      BY <1>2, <3>2
    <3>4. QED
      BY <3>1, <3>2, <3>3
  <2>3. QED
    BY <1>1, <2>1, <2>2 DEF TickResults
<1>3. \A i, j \in DOMAIN cands' : i # j => (GroupUids(cands[i]) \cap GroupUids(cands[j]))' = {}
  BY <1>2 DEF GroupUids
<1>4. QED
  BY <1>1, <1>3 DEF Resting, hVars

\* Every step of the tick goroutine keeps the invariant.
LEMMA TickKeepsQueue ==
    ASSUME TypeOK, QueueInv, TickStep
    PROVE  QueueInv'
<1>1. Resting /\ Flights /\ UNCHANGED <<hVars, raced, settle>>
  BY DEF QueueInv, TickStep, Tick, NextMatchID, NextMatchIDFails, MarkTicket, UnpoolTicket, Confirm,
         CASConfirmFails, CASConfirmLost, Push, ReleaseState, ReleaseForce, ReleasePool, mVars
<1>2. ASSUME NEW u \in UIDs \ raced PROVE PlayerInv(u)'
  BY TickKeeps, TurnKeeps, MarkKeeps, UnpoolKeeps, ConfirmKeeps, PushKeeps, ReleaseStateKeeps,
     ReleaseForceKeeps, ReleasePoolKeeps DEF TickStep
<1>3. Resting'
  <2>1. CASE Tick
    BY <1>1, <2>1, TickRests
  <2>2. CASE NextMatchID \/ NextMatchIDFails \/ MarkTicket \/ Confirm \/ CASConfirmFails
             \/ CASConfirmLost \/ ReleaseState \/ ReleaseForce
    <3>1. UNCHANGED cands /\ tpc' \notin {"idle", "cas"}
      BY <2>2 DEF NextMatchID, NextMatchIDFails, MarkTicket, Confirm, CASConfirmFails, CASConfirmLost,
         ReleaseState, ReleaseForce
    <3>2. QED
      BY <1>1, <3>1, StepRests
  <2>3. CASE UnpoolTicket
    <3>1. UNCHANGED cands /\ tpc' # "idle" /\ (tpc' = "cas" => ti' = 1)
      BY <2>3 DEF UnpoolTicket, LoopTo
    <3>2. QED
      BY <1>1, <3>1, StepRests
  <2>4. CASE Push
    BY <1>1, <2>4, TailRests DEF Push, NextCandidate
  <2>5. CASE ReleasePool
    <3>1. tpc = "r_pool"
      BY <2>5 DEF ReleasePool
    <3>2. CASE ti < Needed
      <4>1. UNCHANGED cands /\ tpc' = "r_state"
        BY <2>5, <3>2 DEF ReleasePool, LoopTo
      <4>2. QED
        BY <1>1, <4>1, StepRests
    <3>3. CASE ~(ti < Needed)
      BY <1>1, <2>5, <3>1, <3>3, TailRests DEF ReleasePool, LoopTo, NextCandidate
    <3>4. QED
      BY <3>2, <3>3
  <2>6. QED
    BY <2>1, <2>2, <2>3, <2>4, <2>5 DEF TickStep
<1>4. Flights'
  <2>1. CASE Tick \/ NextMatchIDFails \/ CASConfirmFails \/ CASConfirmLost
             \/ ReleaseState \/ ReleaseForce \/ ReleasePool
    <3>1. UNCHANGED <<notifyCh, mstate>>
      BY <2>1 DEF Tick, NextMatchIDFails, CASConfirmFails, CASConfirmLost,
         ReleaseState, ReleaseForce, ReleasePool, mVars
    <3>2. tpc' \notin {"mark", "unpool", "cas", "push"}
      BY <2>1 DEF Tick, NextMatchIDFails, CASConfirmFails, CASConfirmLost,
         ReleaseState, ReleaseForce, ReleasePool, LoopTo
    <3>3. QED
      BY <1>1, <3>1, <3>2 DEF Flights
  <2>2. CASE MarkTicket \/ UnpoolTicket
    <3>1. UNCHANGED <<notifyCh, mstate, cur>>
      BY <2>2 DEF MarkTicket, UnpoolTicket, mVars
    <3>2. tpc \in {"mark", "unpool"} /\ tpc' \in {"mark", "unpool", "cas"}
      BY <2>2 DEF MarkTicket, UnpoolTicket, LoopTo
    <3>3. QED
      BY <1>1, <3>1, <3>2 DEF Flights, InFlight
  <2>3. CASE NextMatchID
    <3>1. cur' \in FreshIDs /\ UNCHANGED <<notifyCh, mstate>> /\ tpc' = "mark"
      BY <2>3 DEF NextMatchID, NewestIDs, mVars
    <3>2. ~InFlight(cur)'
      BY <3>1 DEF FreshIDs, InFlight
    <3>3. QED
      BY <1>1, <3>1, <3>2 DEF Flights
  <2>4. CASE Confirm
    <3>1. /\ tpc = "cas" /\ tpc' = "push" /\ UNCHANGED <<notifyCh, cur>> /\ cur \in MatchIDs
          /\ mstate' = [mstate EXCEPT ![cur] = "confirmed"] /\ cur # NoMatch
      BY <2>4 DEF Confirm, TypeOK
    <3>2. ~InFlight(cur)
      BY <1>1, <3>1 DEF Flights
    <3>3. settle # cur /\ \A i \in DOMAIN notifyCh : notifyCh[i] # cur
      BY <1>1, <3>1, <3>2 DEF Flights, InFlight
    <3>4. mstate'[cur] = "confirmed" /\ \A m \in MatchIDs : m # cur => mstate'[m] = mstate[m]
      BY <3>1 DEF TypeOK
    <3>5. (\A i \in DOMAIN notifyCh : notifyCh[i] \in MatchIDs) /\ (settle # NoMatch => settle \in MatchIDs)
      BY DEF TypeOK
    <3>6. QED
      BY <1>1, <3>1, <3>3, <3>4, <3>5 DEF Flights
  <2>5. CASE Push
    <3>1. /\ tpc = "push" /\ notifyCh' = Append(notifyCh, cur) /\ UNCHANGED mstate
          /\ tpc' \notin {"mark", "unpool", "cas", "push"} /\ cur \in MatchIDs
      BY <2>5 DEF Push, TypeOK
    <3>2. /\ notifyCh \in Seq(MatchIDs) /\ DOMAIN notifyCh = 1..Len(notifyCh) /\ Len(notifyCh) \in Nat
          /\ DOMAIN notifyCh' = 1..(Len(notifyCh) + 1)
          /\ notifyCh'[Len(notifyCh) + 1] = cur
          /\ \A i \in DOMAIN notifyCh : notifyCh'[i] = notifyCh[i]
      BY <3>1 DEF TypeOK
    <3>3. \A i \in DOMAIN notifyCh' : i \in DOMAIN notifyCh \/ i = Len(notifyCh) + 1
      BY <3>2
    <3>4. \A i \in DOMAIN notifyCh' : mstate[notifyCh'[i]] = "confirmed"
      BY <1>1, <3>1, <3>2, <3>3 DEF Flights
    <3>5. \A i, j \in DOMAIN notifyCh' : i # j => notifyCh'[i] # notifyCh'[j]
      BY <1>1, <3>1, <3>2, <3>3 DEF Flights
    <3>6. QED
      BY <1>1, <3>1, <3>4, <3>5 DEF Flights
  <2>6. QED
    BY <2>1, <2>2, <2>3, <2>4, <2>5 DEF TickStep
<1>5. QED
  BY <1>1, <1>2, <1>3, <1>4 DEF QueueInv

-----------------------------------------------------------------------------
(* Settlement                                                              *)

\* A match is received and prepared: it stays in flight.
LEMMA SettleRoomKeeps ==
    ASSUME TypeOK, QueueInv, SettleRoom
    PROVE  QueueInv'
<1>1. /\ Resting /\ Flights /\ UNCHANGED <<memVars, hVars, tVars, members, raced>>
      /\ settle = NoMatch /\ notifyCh # <<>> /\ settle' = Head(notifyCh) /\ notifyCh' = Tail(notifyCh)
      /\ mstate' = [mstate EXCEPT ![Head(notifyCh)] = "notifying"]
  BY DEF QueueInv, SettleRoom
<1> DEFINE m == notifyCh[1]
<1>2. /\ Len(notifyCh) \in Nat /\ Len(notifyCh) >= 1 /\ DOMAIN notifyCh = 1..Len(notifyCh)
      /\ Head(notifyCh) = m /\ m \in MatchIDs
      /\ \A i \in DOMAIN notifyCh : notifyCh[i] \in MatchIDs
  BY <1>1 DEF TypeOK
<1>3. /\ DOMAIN notifyCh' = 1..(Len(notifyCh) - 1)
      /\ \A i \in DOMAIN notifyCh' : notifyCh'[i] = notifyCh[i + 1]
  BY <1>1, <1>2 DEF TypeOK
<1>4. \A i \in DOMAIN notifyCh' : i + 1 \in DOMAIN notifyCh /\ i + 1 # 1
  BY <1>2, <1>3
<1>5. 1 \in DOMAIN notifyCh /\ mstate[m] = "confirmed"
  BY <1>1, <1>2 DEF Flights
<1> HIDE DEF m
<1>6. mstate'[m] = "notifying" /\ \A n \in MatchIDs : n # m => mstate'[n] = mstate[n]
  BY <1>1, <1>2 DEF TypeOK
<1>7. \A n \in MatchIDs : InFlight(n)' <=> InFlight(n)
  BY <1>2, <1>5, <1>6 DEF InFlight
<1>8. Resting'
  BY <1>1, StepRests DEF tVars, Resting
<1>9. Flights'
  <2>1. \A i \in DOMAIN notifyCh : i # 1 => notifyCh[i] # m
    BY <1>1, <1>5 DEF Flights, m
  <2>2. \A i \in DOMAIN notifyCh' : mstate'[notifyCh'[i]] = "confirmed"
    BY <1>1, <1>2, <1>3, <1>4, <1>6, <2>1 DEF Flights
  <2>3. \A i, j \in DOMAIN notifyCh' : i # j => notifyCh'[i] # notifyCh'[j]
    <3> SUFFICES ASSUME NEW i \in DOMAIN notifyCh', NEW j \in DOMAIN notifyCh', i # j
                 PROVE  notifyCh'[i] # notifyCh'[j]
      OBVIOUS
    <3>1. i \in Int /\ j \in Int
      BY <1>2, <1>3
    <3>2. i + 1 # j + 1
      BY <3>1
    <3>3. QED
      BY <1>1, <1>3, <1>4, <3>2 DEF Flights
  <2>4. tpc = "push" => cur # m /\ cur \in MatchIDs
    BY <1>1, <1>5 DEF Flights, m, TypeOK
  <2>5. tpc \in {"mark", "unpool", "cas"} => cur \in MatchIDs
    BY DEF TypeOK
  <2>6. \A i \in DOMAIN notifyCh' : \E k \in DOMAIN notifyCh : notifyCh'[i] = notifyCh[k]
    BY <1>3, <1>4
  <2>7. tpc' = tpc /\ cur' = cur /\ settle' = m
    BY <1>1, <1>2 DEF tVars
  <2>8. tpc' = "push" => /\ mstate'[cur'] = "confirmed" /\ cur' # settle'
                         /\ \A i \in DOMAIN notifyCh' : notifyCh'[i] # cur'
    BY <1>1, <1>6, <2>4, <2>6, <2>7 DEF Flights
  <2>9. tpc' \in {"mark", "unpool", "cas"} => ~InFlight(cur)'
    <3> SUFFICES ASSUME tpc \in {"mark", "unpool", "cas"} PROVE ~InFlight(cur)'
      BY <2>7
    <3>1. cur \in MatchIDs /\ ~InFlight(cur)
      BY <1>1, <2>5 DEF Flights
    <3>2. mstate'[cur] = mstate[cur]
      BY <1>5, <1>6, <3>1 DEF InFlight
    <3>3. QED
      BY <2>7, <3>1, <3>2 DEF InFlight
  <2>10. QED
    BY <1>6, <2>2, <2>3, <2>7, <2>8, <2>9 DEF Flights
<1>10. ASSUME NEW u \in UIDs \ raced PROVE PlayerInv(u)'
  <2>1. PlayerInv(u) /\ Same(u) /\ SameHands(u)
    BY <1>1 DEF QueueInv, Same, memVars, SameHands, hVars, Works
  <2>2. (TickBusy(u)' <=> TickBusy(u)) /\ CandUids' = CandUids
    BY <1>1 DEF TickBusy, GroupUids, CandUids, tVars
  <2>3. Flying(u)'
    BY <1>1, <1>7, <2>1, <2>2, SameSt DEF PlayerInv, Flying, tVars
  <2>4. QED
    BY <1>1, <2>1, <2>2, <2>3, RequestsFrame, StaleFrame, GroupedFrame, FoundFrame DEF PlayerInv, tVars
<1>11. QED
  BY <1>1, <1>8, <1>9, <1>10 DEF QueueInv

\* The members' tickets go to SETTLING: none of them was in another candidate.
LEMMA SettleCompleteKeeps ==
    ASSUME TypeOK, QueueInv, SettleComplete
    PROVE  QueueInv'
<1>1. /\ Resting /\ Flights /\ UNCHANGED <<tickets, pool, hVars, tVars, notifyCh, raced>>
      /\ settle \in MatchIDs /\ mstate[settle] = "notifying" /\ settle' = NoMatch
      /\ mstate' = [mstate EXCEPT ![settle] = "complete"] /\ heap' = Settled(members[settle])
      /\ members' = [members EXCEPT ![settle] = {}]
  BY DEF QueueInv, SettleComplete, TypeOK, Flights
<1>2. mstate'[settle] = "complete" /\ \A n \in MatchIDs : n # settle => mstate'[n] = mstate[n]
  BY <1>1 DEF TypeOK
<1>3. \A n \in MatchIDs : InFlight(n)' <=> InFlight(n) /\ n # settle
  BY <1>1, <1>2 DEF InFlight
<1>8. \A n \in MatchIDs : InFlight(n)' => members'[n] = members[n]
  BY <1>1, <1>3 DEF TypeOK
<1>4. Resting'
  BY <1>1, StepRests DEF tVars, Resting
<1>5. Flights'
  <2>1. \A i \in DOMAIN notifyCh : notifyCh[i] \in MatchIDs /\ notifyCh[i] # settle
    BY <1>1 DEF Flights, TypeOK
  <2>2. \A i \in DOMAIN notifyCh : mstate'[notifyCh[i]] = "confirmed"
    BY <1>1, <1>2, <2>1 DEF Flights
  <2>3. tpc \in {"mark", "unpool", "cas", "push"} => cur \in MatchIDs
    BY DEF TypeOK
  <2>4. tpc \in {"mark", "unpool", "cas"} => mstate'[cur] \notin {"confirmed", "notifying"}
    BY <1>1, <1>2, <2>3 DEF Flights, InFlight
  <2>5. tpc = "push" => mstate'[cur] = "confirmed" /\ cur # NoMatch
    BY <1>1, <1>2, <2>3, NoneAssumption DEF Flights
  <2>6. tpc' = tpc /\ cur' = cur /\ notifyCh' = notifyCh
    BY <1>1 DEF tVars
  <2>7. tpc' \in {"mark", "unpool", "cas"} => ~InFlight(cur)'
    BY <2>4, <2>6 DEF InFlight
  <2>8. QED
    BY <1>1, <2>2, <2>5, <2>6, <2>7 DEF Flights
<1>6. ASSUME NEW u \in UIDs \ raced PROVE PlayerInv(u)'
  <2>1. PlayerInv(u) /\ SameHands(u) /\ tickets'[u] = tickets[u]
    BY <1>1 DEF QueueInv, SameHands, hVars, Works
  <2>2. (TickBusy(u)' <=> TickBusy(u)) /\ CandUids' = CandUids
    BY <1>1 DEF TickBusy, GroupUids, CandUids, tVars
  <2>3. CASE u \notin members[settle]
    <3>1. Same(u)
      BY <1>1, <2>3 DEF Same, Settled
    <3>2. Flying(u)'
      BY <1>1, <1>3, <1>8, <2>1, <2>2, <3>1, SameSt DEF PlayerInv, Flying, tVars
    <3>3. QED
      BY <1>1, <2>1, <2>2, <3>1, <3>2, RequestsFrame, StaleFrame, GroupedFrame, FoundFrame
         DEF PlayerInv, tVars
  <2>4. CASE u \in members[settle]
    <3>1. /\ St(u) = "matching"
          /\ TickBusy(u) => tpc = "push" /\ settle = cur
          /\ \A n \in MatchIDs \ {settle} : ~(InFlight(n) /\ u \in members[n])
      BY <1>1, <2>1, <2>4 DEF PlayerInv, Flying, InFlight
    <3>2. ~TickBusy(u)
      BY <1>1, <3>1 DEF Flights
    <3>3. tickets[u] \in TicketIds /\ tickets[u] # NoTicket /\ UidOf(tickets[u]) = u
          /\ heap[tickets[u]].state = "matching" /\ heap[tickets[u]] \in Ticket
      BY <3>1, CurrentTicket DEF St, TypeOK
    <3>4. CanTransitionTo("matching", "settling")
      BY DEF CanTransitionTo, ticketTransitions
    <3>5. heap'[tickets[u]] = [heap[tickets[u]] EXCEPT !.state = "settling"]
      BY <1>1, <2>4, <3>3, <3>4 DEF Settled
    <3>6. \A t \in TicketIds : UidOf(t) = u /\ t # tickets[u] => heap'[t] = heap[t]
      BY <1>1 DEF Settled
    <3>7. St(u)' = "settling"
      BY <2>1, <3>3, <3>5 DEF St, Ticket
    <3>8. \A h \in Handlers : Works(h, u) => hpc[h] \notin Entering \cup Leaving /\ hpc[h] # "e_put"
      BY <2>1, <3>1 DEF PlayerInv, Requests, RequestOf
    <3>9. Requests(u)'
      BY <1>1, <2>1, <3>8, CalmRequests DEF PlayerInv
    <3>10. Stale(u)'
      BY <1>1, <2>1, <3>6 DEF PlayerInv, Stale
    <3>11. Grouped(u)'
      BY <1>1, <3>2, NotGrouped DEF tVars
    <3>12. Found(u)'
      BY <3>7 DEF Found
    <3>13. Flying(u)'
      BY <1>1, <1>3, <1>8, <3>1 DEF Flying
    <3>14. QED
      BY <3>9, <3>10, <3>11, <3>12, <3>13 DEF PlayerInv
  <2>5. QED
    BY <2>3, <2>4
<1>7. QED
  BY <1>1, <1>4, <1>5, <1>6 DEF QueueInv

\* The expiry of a settling key concerns Redis only, and so does a stutter.
LEMMA AsideKeepsQueue ==
    ASSUME TypeOK, QueueInv, (\E u \in UIDs : ExpireKey(u)) \/ UNCHANGED vars
    PROVE  QueueInv'
<1>1. UNCHANGED <<memVars, hVars, tVars, mVars, raced>>
  BY DEF ExpireKey, vars, memVars, hVars, tVars, mVars
<1>2. Resting /\ Flights
  BY DEF QueueInv
<1>3. Resting'
  BY <1>1, <1>2, StepRests DEF tVars, Resting
<1>4. Flights'
  BY <1>1, <1>2 DEF Flights, InFlight, tVars, mVars
<1>5. ASSUME NEW u \in UIDs \ raced PROVE PlayerInv(u)'
  <2>1. PlayerInv(u) /\ Same(u) /\ SameHands(u) /\ UNCHANGED <<mstate, members>>
    BY <1>1 DEF QueueInv, Same, memVars, SameHands, hVars, Works, mVars
  <2>2. QED
    BY <1>1, <2>1, HandlerFrame
<1>6. QED
  BY <1>1, <1>3, <1>4, <1>5 DEF QueueInv

-----------------------------------------------------------------------------
(* The invariant and what follows                                          *)

LEMMA QueueInit == Init => QueueInv
<1> SUFFICES ASSUME Init PROVE QueueInv
  OBVIOUS
<1>1. /\ \A u \in UIDs : tickets[u] = NoTicket
      /\ \A t \in TicketIds : pool[t] = 0
      /\ \A h \in Handlers : hpc[h] = "idle" /\ hreq[h] = NoTicket
      /\ tpc = "idle" /\ cands = <<>> /\ notifyCh = <<>> /\ settle = NoMatch
      /\ \A m \in MatchIDs : mstate[m] = "complete"
  BY DEF Init
<1>2. DOMAIN cands = {} /\ DOMAIN notifyCh = {}
  BY <1>1
<1>3. Resting /\ Flights
  BY <1>1, <1>2 DEF Resting, Flights
<1>4. ASSUME NEW u \in UIDs PROVE PlayerInv(u)
  <2>1. St(u) = "none" /\ \A h \in Handlers : ~Works(h, u)
    BY <1>1 DEF St, Works
  <2>2. \A m \in MatchIDs : ~InFlight(m)
    BY <1>1 DEF InFlight
  <2>3. QED
    BY <1>1, <1>2, <2>1, <2>2 DEF PlayerInv, Requests, Stale, Grouped, Found, Flying
<1>5. QED
  BY <1>3, <1>4 DEF QueueInv

\* Every step keeps what is known of players that raced nothing.
LEMMA NextKeepsQueue == TypeOK /\ QueueInv /\ [Next]_vars => QueueInv'
BY HandlerKeepsQueue, TickKeepsQueue, SettleRoomKeeps, SettleCompleteKeeps, AsideKeepsQueue
   DEF Next, Expiry, SettleStep

LEMMA QueueInductive == Spec => []QueueInv
  BY QueueInit, NextKeepsQueue, TypeCorrect, PTL DEF Spec

\* A player that MemoryStore calls queuing, that no goroutine is at work on and
\* that raced nothing is found by the next ticks: Enqueue, Dequeue, the tick and
\* releaseCandidate, each under its own locks, lose no ticket between the two
\* structures.
THEOREM Findable == Spec => []QueuingReachable
<1>1. ASSUME TypeOK, QueueInv PROVE QueuingReachable
  <2> SUFFICES ASSUME NEW u \in UIDs \ raced, HasState(u, "queuing"), Idle(u)
               PROVE  \E t \in Searchable : UidOf(t) = u
    BY DEF QueuingReachable
  <2>1. St(u) = "queuing" /\ tickets[u] \in TicketIds /\ UidOf(tickets[u]) = u
        /\ heap[tickets[u]].state = "queuing"
    BY <1>1 DEF HasState, St, TypeOK
  <2>2. ~TickBusy(u) /\ \A h \in Handlers : ~Works(h, u)
    BY DEF Idle, HandlerBusy, Works
  <2>3. InPool(u)
    BY <1>1, <2>1, <2>2 DEF QueueInv, PlayerInv, Found
  <2>4. tickets[u] \in Searchable
    BY <2>1, <2>3 DEF Searchable, InPool
  <2>5. QED
    BY <2>1, <2>4
<1>2. QED
  BY <1>1, TypeCorrect, QueueInductive, PTL

\* The MATCHING state alone keeps a player that raced nothing out of a second
\* match in flight: with Redis or without, whatever key expires early and
\* whatever answer of CASConfirm is lost.
THEOREM OneFlight == Spec => []InFlightDisjoint
<1>1. ASSUME TypeOK, QueueInv PROVE InFlightDisjoint
  <2> SUFFICES ASSUME NEW m \in MatchIDs, NEW n \in MatchIDs, m # n, InFlight(m), InFlight(n),
                      NEW u \in members[m] \cap members[n], u \notin raced
               PROVE  FALSE
    BY DEF InFlightDisjoint
  <2>1. u \in UIDs
    BY <1>1 DEF TypeOK
  <2>2. QED
    BY <1>1, <2>1 DEF QueueInv, PlayerInv, Flying
<1>2. QED
  BY <1>1, TypeCorrect, QueueInductive, PTL

-----------------------------------------------------------------------------
(* Routes                                                                  *)

\* A route stays until its player has left the queue.
LEMMA RoutedFrame ==
    ASSUME NEW u \in UIDs, Routed(u),
           St(u)' \in {"queuing", "matching"} => St(u) \in {"queuing", "matching"},
           routes[u] # NoRoute => routes'[u] # NoRoute,
           \A h \in Handlers : Works(h, u) /\ hpc[h] = "e_route" => Works(h, u)' /\ hpc'[h] = "e_route"
    PROVE  Routed(u)'
BY DEF Routed

\* UpdateTicketState makes nobody queuing or matching who was neither, unless it
\* is releaseCandidate's.
LEMMA UpdatedSt ==
    ASSUME TypeOK, NEW u \in UIDs, NEW v \in UIDs, NEW st \in {"idle", "matching"},
           heap' = Updated(v, st), UNCHANGED tickets, St(u)' \in {"queuing", "matching"}
    PROVE  St(u) \in {"queuing", "matching"}
<1>1. tickets[u] \in TicketIds /\ tickets[u] # NoTicket /\ UidOf(tickets[u]) = u
      /\ heap[tickets[u]] \in Ticket
  BY NoneAssumption DEF St, TypeOK
<1>2. CASE u # v
  BY <1>1, <1>2, UpdatedElse DEF St
<1>3. CASE u = v /\ ~CanUpdate(v, st)
  BY <1>3 DEF Updated, St
<1>4. CASE u = v /\ CanUpdate(v, st)
  <2>1. heap'[tickets[u]].state = st
    BY <1>1, <1>4 DEF Updated, TypeOK, Ticket
  <2>2. st = "matching"
    BY <1>1, <2>1 DEF St
  <2>3. St(u) = heap[tickets[u]].state /\ heap[tickets[u]].state \in TicketState
    BY <1>1 DEF St, Ticket
  <2>4. CanTransitionTo(heap[tickets[u]].state, "matching")
    BY <1>4, <2>2 DEF CanUpdate
  <2>5. QED
    BY <2>3, <2>4 DEF CanTransitionTo, ticketTransitions, TicketState
<1>5. QED
  BY <1>2, <1>3, <1>4

\* A handler's step keeps the routes of those who wait or are matched.
LEMMA HandlerKeepsRoutes ==
    ASSUME TypeOK, QueueInv, RouteInv, NEW h \in Handlers, Request(h) \/ HandlerStep(h)
    PROVE  RouteInv'
<1>0. Resting
  BY DEF QueueInv
<1>1. /\ raced \subseteq raced'
      /\ \A g \in Handlers \ {h} : hpc'[g] = hpc[g] /\ hreq'[g] = hreq[g]
  BY <1>0, HandlerShape
<1> SUFFICES ASSUME NEW u \in UIDs, u \notin raced', u \notin Unbound PROVE Routed(u)'
  BY DEF RouteInv
<1>2. Routed(u) /\ PlayerInv(u)
  BY <1>1 DEF RouteInv, QueueInv
<1>3. \A g \in Handlers \ {h} : Works(g, u) /\ hpc[g] = "e_route" => Works(g, u)' /\ hpc'[g] = "e_route"
  BY <1>1 DEF Works
<1>4. ASSUME NEW v \in UIDs, NEW r \in RatingsOf[v], MatchReq(h, v, r) PROVE Routed(u)'
  <2>1. PICK n \in 1..Cells :
            /\ <<v, n>> \in Unreferenced
            /\ heap' = [heap EXCEPT ![<<v, n>>] = [mmr |-> r, state |-> "idle"]]
    BY <1>4 DEF MatchReq
  <2>2. tickets[u] # <<v, n>> /\ <<v, n>> \in TicketIds
    BY <2>1 DEF Unreferenced
  <2>3. UNCHANGED <<tickets, routes>> /\ hpc[h] = "idle"
    BY <1>4 DEF MatchReq
  <2>4. tickets[u] # NoTicket => heap'[tickets[u]] = heap[tickets[u]]
    BY <2>1, <2>2 DEF TypeOK
  <2>5. St(u)' = St(u)
    BY <2>3, <2>4 DEF St
  <2>6. QED
    BY <1>2, <1>3, <2>3, <2>5, RoutedFrame
<1>5. ASSUME NEW v \in UIDs, MatchCancelReq(h, v) PROVE Routed(u)'
  <2>1. UNCHANGED memVars /\ hpc[h] = "idle"
    BY <1>5 DEF MatchCancelReq
  <2>2. St(u)' = St(u) /\ routes' = routes
    BY <2>1 DEF St, memVars
  <2>3. QED
    BY <1>2, <1>3, <2>1, <2>2, RoutedFrame
<1>6. CASE EnqueueCheck(h) \/ EnqueuePool(h) \/ DequeuePool(h)
  <2>1. UNCHANGED <<heap, tickets, routes>> /\ hpc[h] # "e_route"
    BY <1>6 DEF EnqueueCheck, EnqueuePool, DequeuePool, memVars
  <2>2. St(u)' = St(u)
    BY <2>1 DEF St
  <2>3. QED
    BY <1>2, <1>3, <2>1, <2>2, RoutedFrame
<1>7. CASE EnqueuePut(h)
  <2>1. hpc[h] = "e_put" /\ UNCHANGED <<hreq, routes>> /\ hpc'[h] = "e_route"
    BY <1>7 DEF EnqueuePut, Goto, TypeOK
  <2>2. CASE Works(h, u)
    <3>1. Works(h, u)'
      BY <2>1, <2>2 DEF Works
    <3>2. QED
      BY <2>1, <3>1 DEF Routed
  <2>3. CASE ~Works(h, u)
    <3>1. ~Works(h, u)'
      BY <2>1, <2>3 DEF Works
    <3>2. St(u)' = St(u)
      BY <1>0, <1>7, <2>3, <3>1, HandlerElse, SameSt DEF HandlerStep
    <3>3. QED
      BY <1>2, <1>3, <2>1, <3>2, RoutedFrame
  <2>4. QED
    BY <2>2, <2>3
<1>8. CASE BindRoute(h)
  <2>1. hpc[h] = "e_route" /\ UNCHANGED <<heap, tickets, hreq>>
        /\ routes' = IF UidOf(hreq[h]) \in Unbound
                     THEN routes
                     ELSE [routes EXCEPT ![UidOf(hreq[h])] = h]
    BY <1>8 DEF BindRoute
  <2>2. CASE u = UidOf(hreq[h])
    <3>1. routes'[u] = h /\ h # NoRoute
      BY <2>1, <2>2, NoneAssumption DEF TypeOK
    <3>2. QED
      BY <3>1 DEF Routed
  <2>3. CASE u # UidOf(hreq[h])
    <3>1. routes'[u] = routes[u] /\ ~Works(h, u) /\ St(u)' = St(u)
      BY <2>1, <2>3 DEF TypeOK, Works, St
    <3>2. QED
      BY <1>2, <1>3, <3>1, RoutedFrame
  <2>4. QED
    BY <2>2, <2>3
<1>9. CASE DequeueState(h)
  <2>1. /\ hpc[h] = "d_state" /\ UNCHANGED <<tickets, routes>>
        /\ heap' = Updated(UidOf(hreq[h]), "idle") /\ UidOf(hreq[h]) \in UIDs
    BY <1>9, InHand DEF DequeueState
  <2>2. St(u)' \in {"queuing", "matching"} => St(u) \in {"queuing", "matching"}
    BY <2>1, UpdatedSt
  <2>3. QED
    BY <1>2, <1>3, <2>1, <2>2, RoutedFrame
<1>10. CASE DequeuePanic(h)
  <2>1. /\ hpc[h] = "d_pool" /\ UNCHANGED <<heap, tickets>>
        /\ routes' = [v \in UIDs |-> IF routes[v] = h THEN ClosedRoute ELSE routes[v]]
    BY <1>10 DEF DequeuePanic
  <2>2. St(u)' = St(u) /\ (routes[u] # NoRoute => routes'[u] # NoRoute)
    BY <2>1, NoneAssumption DEF St
  <2>3. QED
    BY <1>2, <1>3, <2>1, <2>2, RoutedFrame
<1>11. CASE DeleteTicket(h)
  <2>1. hpc[h] = "d_del" /\ UNCHANGED <<heap, routes>> /\ tickets'[u] \in {tickets[u], NoTicket}
    BY <1>11 DEF DeleteTicket, TypeOK
  <2>2. St(u)' \in {"queuing", "matching"} => St(u) \in {"queuing", "matching"}
    BY <2>1 DEF St
  <2>3. QED
    BY <1>2, <1>3, <2>1, <2>2, RoutedFrame
<1>12. CASE DeleteRoute(h)
  <2>1. hpc[h] = "d_route" /\ UNCHANGED <<heap, tickets>>
        /\ routes' = [routes EXCEPT ![UidOf(hreq[h])] = NoRoute]
    BY <1>12 DEF DeleteRoute
  <2>2. St(u)' = St(u)
    BY <2>1 DEF St
  <2>3. CASE u = UidOf(hreq[h])
    <3>1. Works(h, u)
      BY <2>1, <2>3, InHand
    <3>2. St(u) \notin {"queuing", "matching"}
      BY <1>2, <2>1, <3>1 DEF PlayerInv, Requests, RequestOf, Leaving
    <3>3. QED
      BY <2>2, <3>2 DEF Routed
  <2>4. CASE u # UidOf(hreq[h])
    <3>1. routes'[u] = routes[u]
      BY <2>1, <2>4 DEF TypeOK
    <3>2. QED
      BY <1>2, <1>3, <2>1, <2>2, <3>1, RoutedFrame
  <2>5. QED
    BY <2>3, <2>4
<1>13. QED
  BY <1>4, <1>5, <1>6, <1>7, <1>8, <1>9, <1>10, <1>11, <1>12 DEF Request, HandlerStep

\* So do the other goroutines, who never touch a route.
LEMMA OthersKeepRoutes ==
    ASSUME TypeOK, QueueInv, RouteInv,
           TickStep \/ SettleStep \/ (\E u \in UIDs : ExpireKey(u)) \/ UNCHANGED vars
    PROVE  RouteInv'
<1>1. UNCHANGED <<tickets, routes, hVars, raced>>
  BY DEF TickStep, Tick, NextMatchID, NextMatchIDFails, MarkTicket, UnpoolTicket, Confirm,
         CASConfirmFails, CASConfirmLost, Push, ReleaseState, ReleaseForce, ReleasePool,
         SettleStep, SettleRoom, SettleComplete, ExpireKey, vars, memVars, hVars
<1> SUFFICES ASSUME NEW u \in UIDs \ (raced \cup Unbound) PROVE Routed(u)'
  BY <1>1 DEF RouteInv
<1>2. Routed(u) /\ PlayerInv(u) /\ Resting
  BY DEF RouteInv, QueueInv
<1>3. ASSUME St(u)' \in {"queuing", "matching"} PROVE St(u) \in {"queuing", "matching"}
  <2>1. CASE UNCHANGED heap
    BY <1>1, <1>3, <2>1 DEF St
  <2>2. CASE MarkTicket
    <3>1. UidOf(CandTicket) \in UIDs /\ heap' = Updated(UidOf(CandTicket), "matching")
      BY <1>2, <2>2, AtHand DEF MarkTicket
    <3>2. QED
      BY <1>1, <1>3, <3>1, UpdatedSt
  <2>3. CASE ReleaseState \/ ReleaseForce
    <3>1. tpc \in {"r_state", "r_force"}
      BY <2>3 DEF ReleaseState, ReleaseForce
    <3>2. CASE u # UidOf(CandTicket)
      BY <1>2, <1>3, <2>3, <3>2, LoopElse, SameSt
    <3>3. CASE u = UidOf(CandTicket)
      <4>1. CandTicket = cands[1][ti] /\ ti \in 1..Needed
        BY <1>2, <3>1, AtHand
      <4>2. Staged(u, ti)
        BY <1>2, <3>1, <3>3, <4>1, InStage DEF PlayerInv
      <4>3. QED
        BY <3>1, <4>2 DEF Staged, Pooled
    <3>4. QED
      BY <3>2, <3>3
  <2>4. CASE SettleComplete
    <3>1. tickets[u] \in TicketIds /\ tickets[u] # NoTicket /\ heap[tickets[u]] \in Ticket
      BY <1>1, <1>3 DEF St, TypeOK
    <3>2. heap'[tickets[u]] \in {heap[tickets[u]], [heap[tickets[u]] EXCEPT !.state = "settling"]}
      BY <2>4, <3>1 DEF SettleComplete, Settled
    <3>3. heap'[tickets[u]].state \in {heap[tickets[u]].state, "settling"}
      BY <3>1, <3>2 DEF Ticket
    <3>4. QED
      BY <1>1, <1>3, <3>1, <3>3 DEF St
  <2>5. QED
    BY <2>1, <2>2, <2>3, <2>4
       DEF TickStep, Tick, NextMatchID, NextMatchIDFails, UnpoolTicket, Confirm, CASConfirmFails,
           CASConfirmLost, Push, ReleasePool, SettleStep, SettleRoom, ExpireKey, vars, memVars
<1>4. QED
  BY <1>1, <1>2, <1>3, RoutedFrame DEF hVars, Works

\* Whoever is in a match in flight and raced nothing still has a route when
\* notifyPlayers looks it up: bindRoute runs before the ticket can be found, and
\* deleteRoute only after UpdateTicketState(uid, IDLE) shut out the tick.
THEOREM RoutesKept == Spec => []MembersReachable
<1>1. Init => RouteInv
  <2> SUFFICES ASSUME Init, NEW u \in UIDs PROVE Routed(u)
    BY DEF RouteInv
  <2>1. St(u) = "none"
    BY DEF Init, St
  <2>2. QED
    BY <2>1 DEF Routed
<1>2. TypeOK /\ QueueInv /\ RouteInv /\ [Next]_vars => RouteInv'
  BY HandlerKeepsRoutes, OthersKeepRoutes DEF Next, Expiry
<1>3. ASSUME TypeOK, QueueInv, RouteInv PROVE MembersReachable
  <2> SUFFICES ASSUME NEW m \in MatchIDs, InFlight(m), NEW u \in members[m] \ (raced \cup Unbound)
               PROVE  routes[u] # NoRoute
    BY DEF MembersReachable
  <2>1. u \in UIDs \ (raced \cup Unbound)
    BY <1>3 DEF TypeOK
  <2>2. St(u) = "matching"
    BY <1>3, <2>1 DEF QueueInv, PlayerInv, Flying
  <2>3. \A h \in Handlers : Works(h, u) => hpc[h] # "e_route"
    BY <1>3, <2>1, <2>2 DEF QueueInv, PlayerInv, Requests, RequestOf, Entering
  <2>4. QED
    BY <1>3, <2>1, <2>2, <2>3 DEF RouteInv, Routed
<1>4. QED
  BY <1>1, <1>2, <1>3, TypeCorrect, QueueInductive, PTL DEF Spec
=============================================================================
