---------------------------- MODULE MatchService ----------------------------
(***************************************************************************)
(* The matchmaking queue of match-go: MatchService over MemoryStore,       *)
(* BucketPool, Engine and RedisStore, as the goroutines that share them.   *)
(*                                                                         *)
(*   - one handler goroutine per gateway connection runs Enqueue and       *)
(*     Dequeue; every call it makes on a locked structure is one step;     *)
(*   - the tick goroutine turns the pool into candidates and walks each    *)
(*     through onMatchCandidate;                                           *)
(*   - the settlement goroutine drives confirmed matches to completion;    *)
(*   - Redis keeps match:settling:<uid>, which expires on its own.         *)
(*                                                                         *)
(* A ticket is a heap object: MemoryStore and the buckets hold pointers to *)
(* it, and two tickets of one uid can be alive at once. A cell <<uid, n>>  *)
(* that nothing references is reused (the garbage collector), and so are   *)
(* the ids of finished matches, so no counter bounds a behaviour.          *)
(***************************************************************************)
EXTENDS MatchModel, FiniteSets, Sequences, Functions

CONSTANTS
    UIDs,          \* players
    Handlers,      \* connections from gateways, one goroutine each
    MMRs,          \* ratings a request may carry
    RatingsOf,     \* and those that the requests of each player carry
    Unbound,       \* players whose requests come with gateway_conn_id 0
    Cells,         \* tickets of one player alive at once
    MatchIDs,      \* ids NextMatchID may hand out
    TeamSize,      \* players per team (getTeamSize)
    MaxQueueSize,  \* AdmissionGate capacity
    NotifyCap,     \* capacity of notifyCh
    MaxEntries,    \* bound: requests pause while the pool has this many entries
    Sends,         \* bound: the kinds of request each connection carries
    AfterRace,     \* bound: what goes on once some player's requests raced
    RedisModes,    \* whether the process may start with and without a Redis client
    Faults,        \* Redis calls that may fail: subset of {"nextid", "cas"}
    NoTicket, NoRoute, NoMatch,
    ClosedRoute    \* a route to a connection that is closed

TicketIds == UIDs \X (1..Cells)

ASSUME NoneAssumption ==
    /\ NoTicket \notin TicketIds /\ NoMatch \notin MatchIDs
    /\ NoRoute \notin Handlers \cup {ClosedRoute}
ASSUME SizesAssumption ==
    /\ TeamSize \in Nat \ {0}
    /\ Cells \in Nat
    /\ MaxQueueSize \in Nat
    /\ NotifyCap \in Nat \ {0}
    /\ MaxEntries \in Nat
    /\ MMRs \subseteq Int /\ MMRs # {}
    /\ RatingsOf \in [UIDs -> SUBSET MMRs]
    /\ Unbound \subseteq UIDs
    /\ Sends \in [Handlers -> SUBSET {"match", "cancel"}]
    /\ AfterRace \subseteq {"requests", "others"}
    /\ RedisModes \subseteq BOOLEAN
    /\ Faults \subseteq {"nextid", "cas"}

VARIABLES
    heap,      \* ticket -> its rating and state
    tickets,   \* MemoryStore.tickets: uid -> ticket
    pool,      \* BucketPool: how many entries of its bucket are this ticket
    buckets,   \* the bucket indices getOrCreateBucket has created
    routes,    \* uid -> the connection that enqueued it
    hpc, hreq, \* handler goroutines: program counter, ticket in hand
    tpc, cands, ti, cur,  \* tick goroutine: step, candidates left, index, match
    notifyCh,  \* confirmed matches on their way to settlement
    settle,    \* the match the settlement goroutine drives, or NoMatch
    mstate,    \* match id -> state ("complete": over, or not handed out yet)
    members,   \* match id -> its players, while it is in flight
    redisUp,   \* FALSE: RedisStore without a client (degraded mode)
    settling,  \* Redis match:settling:<uid> -> match id
    claims,    \* history: match id -> members whose settling key it set and that
               \* has not expired since
    raced      \* history: players a request of whom overlapped another goroutine's
               \* work on them

memVars == <<heap, tickets, pool, buckets, routes>>
hVars   == <<hpc, hreq>>
tVars   == <<tpc, cands, ti, cur>>
mVars   == <<notifyCh, settle, mstate, members>>
rVars   == <<redisUp, settling, claims>>
vars    == <<heap, tickets, pool, buckets, routes, hpc, hreq, tpc, cands, ti,
             cur, notifyCh, settle, mstate, members, redisUp, settling, claims, raced>>

Needed == 2 * TeamSize

UidOf(t) == t[1]

Ticket == [mmr : MMRs, state : TicketState]

HandlerPC == {"idle", "e_check", "e_put", "e_route", "e_pool",
              "d_state", "d_pool", "d_del", "d_route"}

TickPC == {"idle", "next", "mark", "unpool", "cas", "push",
           "r_state", "r_force", "r_pool"}

-----------------------------------------------------------------------------
(* Stores                                                                  *)

\* MemoryStore.UpdateTicketState refuses a missing ticket and an illegal
\* transition; CanUpdate says whether it returns nil, Updated what it leaves.
CanUpdate(u, st) ==
    tickets[u] # NoTicket /\ CanTransitionTo(heap[tickets[u]].state, st)

Updated(u, st) ==
    IF CanUpdate(u, st) THEN [heap EXCEPT ![tickets[u]].state = st] ELSE heap

HasState(u, st) == tickets[u] # NoTicket /\ heap[tickets[u]].state = st

CountQueuing == Cardinality({u \in UIDs : HasState(u, "queuing")})

Bucket(t) == BucketIndex(heap[t].mmr)

\* The entries of t's bucket that Bucket.Remove(uid) may hit first: entries of
\* one uid differ in priority and rating only, and sort.Slice is not stable.
Entries(t) ==
    {x \in TicketIds : pool[x] > 0 /\ UidOf(x) = UidOf(t) /\ Bucket(x) = Bucket(t)}

\* BucketPool.Dequeue when the bucket exists, or when the mode has none yet.
PoolDequeue(t) ==
    IF Entries(t) = {}
    THEN UNCHANGED pool
    ELSE \E x \in Entries(t) : pool' = [pool EXCEPT ![x] = @ - 1]

\* BucketPool.Enqueue: getOrCreateBucket, then Push.
PoolEnqueue(t) ==
    /\ pool' = [pool EXCEPT ![t] = @ + 1]
    /\ buckets' = buckets \cup {Bucket(t)}

PoolSize == SumFunction(pool)

\* Cells nothing points to: the allocator may hand them out.
Unreferenced ==
    {t \in TicketIds :
        /\ \A u \in UIDs : tickets[u] # t
        /\ pool[t] = 0
        /\ \A h \in Handlers : hreq[h] # t
        /\ \A i \in DOMAIN cands : \A j \in 1..Needed : cands[i][j] # t}

-----------------------------------------------------------------------------
(* Handler goroutines: handleMatchReq / Enqueue                            *)

GroupUids(c) == {UidOf(c[i]) : i \in 1..Needed}

\* Another goroutine is between two calls on player u.
TickBusy(u) == tpc # "idle" /\ \E i \in DOMAIN cands : u \in GroupUids(cands[i])

HandlerBusy(u, hs) == \E h \in hs : hreq[h] # NoTicket /\ UidOf(hreq[h]) = u

Race(h, u) ==
    raced' = IF TickBusy(u) \/ HandlerBusy(u, Handlers \ {h})
             THEN raced \cup {u} ELSE raced

Goto(h, pc) == hpc' = [hpc EXCEPT ![h] = pc]

Return(h) == Goto(h, "idle") /\ hreq' = [hreq EXCEPT ![h] = NoTicket]

\* A MatchReq: the ticket is built and the admission gate passed. A request
\* the gate rejects changes nothing.
MatchReq(h, u, mmr) ==
    /\ hpc[h] = "idle"
    /\ CountQueuing < MaxQueueSize
    /\ PoolSize < MaxEntries
    /\ \E n \in 1..Cells :
          /\ <<u, n>> \in Unreferenced
          /\ \A k \in 1..(n - 1) : <<u, k>> \notin Unreferenced
          /\ heap' = [heap EXCEPT ![<<u, n>>] = [mmr |-> mmr, state |-> "idle"]]
          /\ hreq' = [hreq EXCEPT ![h] = <<u, n>>]
    /\ Goto(h, "e_check")
    /\ UNCHANGED <<tickets, pool, buckets, routes, tVars, mVars, rVars, raced>>

\* Mutant: forgets that a candidate is still in the queue's hands.
AlreadyQueuedOnly(u) == HasState(u, "queuing")

AlreadyQueued(u) == HasState(u, "queuing") \/ HasState(u, "matching")

EnqueueCheck(h) ==
    /\ hpc[h] = "e_check"
    /\ IF AlreadyQueued(UidOf(hreq[h]))
       THEN Return(h)
       ELSE Goto(h, "e_put") /\ UNCHANGED hreq
    /\ UNCHANGED <<memVars, tVars, mVars, rVars, raced>>

\* PutTicket: the ticket becomes the player's ticket.
EnqueuePut(h) ==
    /\ hpc[h] = "e_put"
    /\ heap' = [heap EXCEPT ![hreq[h]].state = "queuing"]
    /\ tickets' = [tickets EXCEPT ![UidOf(hreq[h])] = hreq[h]]
    /\ Race(h, UidOf(hreq[h]))
    /\ Goto(h, "e_route")
    /\ UNCHANGED <<pool, buckets, routes, hreq, tVars, mVars, rVars>>

\* Mutant: the early return of bindRoute, always taken.
BindRouteSkipped(h) ==
    /\ hpc[h] = "e_route"
    /\ Goto(h, "e_pool")
    /\ UNCHANGED <<memVars, hreq, tVars, mVars, rVars, raced>>

\* A request without a gateway's connection id leaves no route.
BindRoute(h) ==
    /\ hpc[h] = "e_route"
    /\ routes' = IF UidOf(hreq[h]) \in Unbound
                 THEN routes
                 ELSE [routes EXCEPT ![UidOf(hreq[h])] = h]
    /\ Goto(h, "e_pool")
    /\ UNCHANGED <<heap, tickets, pool, buckets, hreq, tVars, mVars, rVars, raced>>

EnqueuePool(h) ==
    /\ hpc[h] = "e_pool"
    /\ PoolEnqueue(hreq[h])
    /\ Return(h)
    /\ UNCHANGED <<heap, tickets, routes, tVars, mVars, rVars, raced>>

-----------------------------------------------------------------------------
(* Handler goroutines: handleMatchCancelReq / Dequeue                      *)

\* GetTicket and the state test; a player that is not queuing gets
\* ErrNotInQueue and nothing changes.
MatchCancelReq(h, u) ==
    /\ hpc[h] = "idle"
    /\ HasState(u, "queuing")
    /\ hreq' = [hreq EXCEPT ![h] = tickets[u]]
    /\ Goto(h, "d_state")
    /\ UNCHANGED <<memVars, tVars, mVars, rVars, raced>>

\* UpdateTicketState(uid, IDLE); its error ends the request.
DequeueState(h) ==
    /\ hpc[h] = "d_state"
    /\ heap' = Updated(UidOf(hreq[h]), "idle")
    /\ IF CanUpdate(UidOf(hreq[h]), "idle")
       THEN Goto(h, "d_pool") /\ Race(h, UidOf(hreq[h])) /\ UNCHANGED hreq
       ELSE Return(h) /\ UNCHANGED raced
    /\ UNCHANGED <<tickets, pool, buckets, routes, tVars, mVars, rVars>>

\* The ticket leaves its bucket.
DequeuePool(h) ==
    /\ hpc[h] = "d_pool"
    /\ buckets = {} \/ Bucket(hreq[h]) \in buckets
    /\ PoolDequeue(hreq[h])
    /\ Goto(h, "d_del")
    /\ UNCHANGED <<heap, tickets, buckets, routes, hreq, tVars, mVars, rVars, raced>>

\* The mode has buckets, but not this ticket's: modeBuckets[idx] is nil and
\* Remove dereferences it. readLoop recovers the panic and closes the
\* connection: the rest of Dequeue never runs. The gateway reconnects; routes
\* that point to the old connection stay in the map.
DequeuePanic(h) ==
    /\ hpc[h] = "d_pool"
    /\ buckets # {} /\ Bucket(hreq[h]) \notin buckets
    /\ Return(h)
    /\ routes' = [u \in UIDs |-> IF routes[u] = h THEN ClosedRoute ELSE routes[u]]
    /\ UNCHANGED <<heap, tickets, pool, buckets, tVars, mVars, rVars, raced>>

DeleteTicket(h) ==
    /\ hpc[h] = "d_del"
    /\ tickets' = [tickets EXCEPT ![UidOf(hreq[h])] = NoTicket]
    /\ Goto(h, "d_route")
    /\ UNCHANGED <<heap, pool, buckets, routes, hreq, tVars, mVars, rVars, raced>>

DeleteRoute(h) ==
    /\ hpc[h] = "d_route"
    /\ routes' = [routes EXCEPT ![UidOf(hreq[h])] = NoRoute]
    /\ Return(h)
    /\ UNCHANGED <<heap, tickets, pool, buckets, tVars, mVars, rVars, raced>>

-----------------------------------------------------------------------------
(* Tick goroutine: Engine.Tick and onMatchCandidate                        *)

\* What QueryRange sees: pool entries whose ticket is queuing.
Searchable == {t \in TicketIds : pool[t] > 0 /\ heap[t].state = "queuing"}

\* Groups doMatch may form around an anchor (the first element): distinct
\* entries, none but the anchor with the anchor's uid, all within the widest
\* radius. Which of them it forms depends on waiting times.
Groups ==
    {c \in [1..Needed -> Searchable] :
        /\ \A t \in Searchable : Cardinality({i \in 1..Needed : c[i] = t}) <= pool[t]
        /\ \A i \in 2..Needed :
              /\ UidOf(c[i]) # UidOf(c[1])
              /\ MatchQuality(heap[c[i]].mmr, heap[c[1]].mmr) <= MaxSearchRadius}

\* One Tick returns one candidate, or two whose uids the used map keeps apart;
\* a tick that finds none changes nothing.
TickResults ==
    {<<c>> : c \in Groups}
    \cup {<<p[1], p[2]>> : p \in {q \in Groups \X Groups :
                                    GroupUids(q[1]) \cap GroupUids(q[2]) = {}}}

Tick ==
    /\ tpc = "idle"
    /\ cands' \in TickResults
    /\ tpc' = "next"
    /\ UNCHANGED <<memVars, hVars, ti, cur, mVars, rVars, raced>>

\* The ticket onMatchCandidate or releaseCandidate is at, and the loop's end.
CandTicket == Head(cands)[ti]

CandUids == GroupUids(Head(cands))

LoopTo(again, done) ==
    IF ti < Needed THEN ti' = ti + 1 /\ tpc' = again ELSE ti' = 1 /\ tpc' = done

\* onMatchCandidate returns: the next candidate, or the next tick.
NextCandidate ==
    /\ cands' = Tail(cands)
    /\ cur' = NoMatch

\* Ids of no match in flight.
FreshIDs == {m \in MatchIDs : mstate[m] = "complete"}

\* And of those the ones no settling key carries, as long as there are any:
\* INCR waits for no key, and nobody reads what is in one.
NewestIDs ==
    LET unkeyed == {m \in FreshIDs : \A u \in UIDs : settling[u] # m}
    IN  IF unkeyed # {} THEN unkeyed ELSE FreshIDs

\* NextMatchID and the draft match.
NextMatchID ==
    /\ tpc = "next" /\ cands # <<>>
    /\ FreshIDs # {}
    /\ cur' = CHOOSE m \in NewestIDs : TRUE
    /\ tpc' = "mark" /\ ti' = 1
    /\ UNCHANGED <<memVars, hVars, cands, mVars, rVars, raced>>

\* INCR fails: the candidate is released though no ticket left the pool.
NextMatchIDFails ==
    /\ tpc = "next" /\ cands # <<>>
    /\ redisUp /\ "nextid" \in Faults
    /\ PoolSize < MaxEntries
    /\ tpc' = "r_state" /\ ti' = 1
    /\ UNCHANGED <<memVars, hVars, cands, cur, mVars, rVars, raced>>

\* UpdateTicketState(uid, MATCHING): the error is ignored.
MarkTicket ==
    /\ tpc = "mark"
    /\ heap' = Updated(UidOf(CandTicket), "matching")
    /\ tpc' = "unpool"
    /\ UNCHANGED <<tickets, pool, buckets, routes, hVars, cands, ti, cur, mVars, rVars, raced>>

\* pool.Dequeue: the bucket exists, the candidate was found in it.
UnpoolTicket ==
    /\ tpc = "unpool"
    /\ PoolDequeue(CandTicket)
    /\ LoopTo("mark", "cas")
    /\ UNCHANGED <<heap, tickets, buckets, routes, hVars, cands, cur, mVars, rVars, raced>>

\* Mutant: the Lua loop stops after KEYS[1].
AllFreeFirst == settling[UidOf(Head(cands)[1])] = NoMatch

AllFree == \A u \in CandUids : settling[u] = NoMatch

\* CASConfirm succeeds: the keys are set, the match is confirmed, stored,
\* and bound. Without Redis it always succeeds.
Confirm ==
    /\ tpc = "cas"
    /\ redisUp => AllFree
    /\ settling' = IF redisUp
                   THEN [u \in UIDs |-> IF u \in CandUids THEN cur ELSE settling[u]]
                   ELSE settling
    /\ claims' = [claims EXCEPT ![cur] = IF redisUp THEN CandUids ELSE {}]
    /\ mstate' = [mstate EXCEPT ![cur] = "confirmed"]
    /\ members' = [members EXCEPT ![cur] = CandUids]
    /\ tpc' = "push"
    /\ UNCHANGED <<memVars, hVars, cands, ti, cur, notifyCh, settle, redisUp, raced>>

\* Mutant: returns without releaseCandidate.
CASConfirmFailsDropped ==
    /\ tpc = "cas" /\ redisUp
    /\ "cas" \in Faults \/ ~AllFree
    /\ NextCandidate
    /\ tpc' = IF Len(cands) = 1 THEN "idle" ELSE "next"
    /\ UNCHANGED <<memVars, hVars, ti, mVars, rVars, raced>>

\* CASConfirm returns 0, or an error.
CASConfirmFails ==
    /\ tpc = "cas" /\ redisUp
    /\ "cas" \in Faults \/ ~AllFree
    /\ tpc' = "r_state"
    /\ UNCHANGED <<memVars, hVars, cands, ti, cur, mVars, rVars, raced>>

\* The script ran but its answer was lost, or the client's retry of it was
\* answered 0: the keys are set, for a match that will not exist.
CASConfirmLost ==
    /\ tpc = "cas" /\ redisUp
    /\ "cas" \in Faults /\ AllFree
    /\ settling' = [u \in UIDs |-> IF u \in CandUids THEN cur ELSE settling[u]]
    /\ claims' = [claims EXCEPT ![cur] = CandUids]
    /\ tpc' = "r_state"
    /\ UNCHANGED <<memVars, hVars, cands, ti, cur, mVars, redisUp, raced>>

\* notifyCh <- match blocks while the channel is full.
Push ==
    /\ tpc = "push"
    /\ Len(notifyCh) < NotifyCap
    /\ notifyCh' = Append(notifyCh, cur)
    /\ NextCandidate
    /\ tpc' = IF Len(cands) = 1 THEN "idle" ELSE "next"
    /\ UNCHANGED <<memVars, hVars, ti, settle, mstate, members, rVars, raced>>

\* releaseCandidate, per ticket: the player's current ticket goes back to
\* QUEUING through the table, then the candidate's own ticket does so
\* unconditionally, then that ticket enters the pool.
ReleaseState ==
    /\ tpc = "r_state"
    /\ heap' = Updated(UidOf(CandTicket), "queuing")
    /\ tpc' = "r_force"
    /\ UNCHANGED <<tickets, pool, buckets, routes, hVars, cands, ti, cur, mVars, rVars, raced>>

ReleaseForce ==
    /\ tpc = "r_force"
    /\ heap' = [heap EXCEPT ![CandTicket].state = "queuing"]
    /\ tpc' = "r_pool"
    /\ UNCHANGED <<tickets, pool, buckets, routes, hVars, cands, ti, cur, mVars, rVars, raced>>

\* Mutant: the ticket's state is restored, its place in the bucket is not.
ReleasePoolForgot ==
    /\ tpc = "r_pool"
    /\ LoopTo("r_state", IF Len(cands) = 1 THEN "idle" ELSE "next")
    /\ IF ti < Needed THEN UNCHANGED <<cands, cur>> ELSE NextCandidate
    /\ UNCHANGED <<memVars, hVars, mVars, rVars, raced>>

ReleasePool ==
    /\ tpc = "r_pool"
    /\ PoolEnqueue(CandTicket)
    /\ LoopTo("r_state", IF Len(cands) = 1 THEN "idle" ELSE "next")
    /\ IF ti < Needed THEN UNCHANGED <<cands, cur>> ELSE NextCandidate
    /\ UNCHANGED <<heap, tickets, routes, hVars, mVars, rVars, raced>>

-----------------------------------------------------------------------------
(* Settlement goroutine and Redis expiry                                   *)

\* Receive a match; driveForward takes it from CONFIRMED through ROOM_PREP to
\* NOTIFYING: createRoom never fails.
SettleRoom ==
    /\ settle = NoMatch /\ notifyCh # <<>>
    /\ settle' = Head(notifyCh)
    /\ notifyCh' = Tail(notifyCh)
    /\ mstate' = [mstate EXCEPT ![Head(notifyCh)] = "notifying"]
    /\ UNCHANGED <<memVars, hVars, tVars, members, rVars, raced>>

\* Mutant: assigns the state without asking the table.
SettledBlind(us) ==
    [t \in TicketIds |->
        IF UidOf(t) \in us /\ tickets[UidOf(t)] = t
        THEN [heap[t] EXCEPT !.state = "settling"]
        ELSE heap[t]]

\* Every member's current ticket goes to SETTLING where the table allows it.
Settled(us) ==
    [t \in TicketIds |->
        IF /\ UidOf(t) \in us /\ tickets[UidOf(t)] = t
           /\ CanTransitionTo(heap[t].state, "settling")
        THEN [heap[t] EXCEPT !.state = "settling"]
        ELSE heap[t]]

\* notifyPlayers, COMPLETE, and the members' tickets to SETTLING.
SettleComplete ==
    /\ settle # NoMatch
    /\ mstate' = [mstate EXCEPT ![settle] = "complete"]
    /\ heap' = Settled(members[settle])
    /\ members' = [members EXCEPT ![settle] = {}]
    /\ settle' = NoMatch
    /\ UNCHANGED <<tickets, pool, buckets, routes, hVars, tVars, notifyCh,
                   rVars, raced>>

\* match:settling:<uid> reaches its 60 s TTL.
ExpireKey(u) ==
    /\ settling[u] # NoMatch
    /\ settling' = [settling EXCEPT ![u] = NoMatch]
    /\ claims' = [claims EXCEPT ![settling[u]] = @ \ {u}]
    /\ UNCHANGED <<memVars, hVars, tVars, mVars, redisUp, raced>>

-----------------------------------------------------------------------------
Init ==
    /\ heap = [t \in TicketIds |-> [mmr |-> CHOOSE r \in MMRs : TRUE, state |-> "idle"]]
    /\ tickets = [u \in UIDs |-> NoTicket]
    /\ pool = [t \in TicketIds |-> 0]
    /\ buckets = {}
    /\ routes = [u \in UIDs |-> NoRoute]
    /\ hpc = [h \in Handlers |-> "idle"]
    /\ hreq = [h \in Handlers |-> NoTicket]
    /\ tpc = "idle" /\ cands = <<>> /\ ti = 1 /\ cur = NoMatch
    /\ notifyCh = <<>>
    /\ settle = NoMatch
    /\ mstate = [m \in MatchIDs |-> "complete"]
    /\ members = [m \in MatchIDs |-> {}]
    /\ redisUp \in RedisModes
    /\ settling = [u \in UIDs |-> NoMatch]
    /\ claims = [m \in MatchIDs |-> {}]
    /\ raced = {}

\* New requests, and the goroutines other than the handlers at work: the bound
\* AfterRace may stop them once some player is in raced.
Goes(part) == raced = {} \/ part \in AfterRace

Request(h) ==
    /\ Goes("requests")
    /\ \/ "match" \in Sends[h] /\ \E u \in UIDs : \E r \in RatingsOf[u] : MatchReq(h, u, r)
       \/ "cancel" \in Sends[h] /\ \E u \in UIDs : MatchCancelReq(h, u)

HandlerStep(h) ==
    \/ EnqueueCheck(h) \/ EnqueuePut(h) \/ BindRoute(h) \/ EnqueuePool(h)
    \/ DequeueState(h) \/ DequeuePool(h) \/ DequeuePanic(h)
    \/ DeleteTicket(h) \/ DeleteRoute(h)

TickStep ==
    /\ Goes("others")
    /\ \/ Tick \/ NextMatchID \/ NextMatchIDFails \/ MarkTicket \/ UnpoolTicket
       \/ Confirm \/ CASConfirmFails \/ CASConfirmLost \/ Push
       \/ ReleaseState \/ ReleaseForce \/ ReleasePool

SettleStep == Goes("others") /\ (SettleRoom \/ SettleComplete)

Expiry(u) == Goes("others") /\ ExpireKey(u)

Next ==
    \/ \E h \in Handlers : Request(h) \/ HandlerStep(h)
    \/ TickStep
    \/ SettleStep
    \/ \E u \in UIDs : Expiry(u)

Spec == Init /\ [][Next]_vars

\* The goroutines run, Redis expires keys, and a call that is made again and
\* again does not fail every time; players need not send requests.
Fairness ==
    /\ \A h \in Handlers : WF_vars(HandlerStep(h))
    /\ WF_vars(TickStep)
    /\ WF_vars(SettleStep)
    /\ \A u \in UIDs : WF_vars(Expiry(u))
    /\ SF_vars(TickStep /\ NextMatchID) /\ SF_vars(TickStep /\ Confirm)

FairSpec == Spec /\ Fairness

-----------------------------------------------------------------------------
(* Properties                                                              *)

\* Every variable keeps its type; a goroutine at work has its ticket, candidate
\* and match, a pool count is never negative, a ticket is filed under its uid.
TypeOK ==
    /\ heap \in [TicketIds -> Ticket]
    /\ tickets \in [UIDs -> TicketIds \cup {NoTicket}]
    /\ \A u \in UIDs : tickets[u] # NoTicket => UidOf(tickets[u]) = u
    /\ pool \in [TicketIds -> Nat]
    /\ buckets \subseteq Int
    /\ routes \in [UIDs -> Handlers \cup {NoRoute, ClosedRoute}]
    /\ hpc \in [Handlers -> HandlerPC]
    /\ hreq \in [Handlers -> TicketIds \cup {NoTicket}]
    /\ \A h \in Handlers : hpc[h] # "idle" => hreq[h] # NoTicket
    /\ tpc \in TickPC
    /\ cands \in Seq([1..Needed -> TicketIds])
    /\ tpc # "idle" => cands # <<>>
    /\ ti \in 1..Needed
    /\ cur \in MatchIDs \cup {NoMatch}
    /\ tpc \in {"mark", "unpool", "cas", "push"} => cur # NoMatch
    /\ notifyCh \in Seq(MatchIDs)
    /\ settle \in MatchIDs \cup {NoMatch}
    /\ mstate \in [MatchIDs -> MatchState]
    /\ members \in [MatchIDs -> SUBSET UIDs]
    /\ redisUp \in BOOLEAN
    /\ settling \in [UIDs -> MatchIDs \cup {NoMatch}]
    /\ claims \in [MatchIDs -> SUBSET UIDs]
    /\ raced \subseteq UIDs

InFlight(m) == mstate[m] \in {"confirmed", "notifying"}

\* What CASConfirm is for: whatever the queue's races put into two candidates,
\* a player is confirmed into a second match only after the settling key the
\* first one set has expired.
ConfirmedExclusive ==
    \A m, n \in MatchIDs : m # n => claims[m] \cap claims[n] = {}

\* The state of a ticket that something still points to moves only along
\* ticketTransitions, although releaseCandidate assigns t.State directly.
LegalTicketTransitions ==
    [][\A t \in TicketIds :
          \/ t \in Unreferenced
          \/ heap'[t].state = heap[t].state
          \/ CanTransitionTo(heap[t].state, heap'[t].state)]_vars

Idle(u) == ~TickBusy(u) /\ ~HandlerBusy(u, Handlers)

\* A player MemoryStore calls queuing can be found: some queuing entry of the
\* pool carries the uid, so the next ticks see it. Pointers, pool entries and
\* states are changed under different locks by different goroutines. Players
\* whose requests overlapped other work may really be lost (Bucket.Remove takes
\* the entry of whichever ticket has the uid), hence not for raced.
QueuingReachable ==
    \A u \in UIDs \ raced :
        HasState(u, "queuing") /\ Idle(u) => \E t \in Searchable : UidOf(t) = u

\* A match in flight can tell its players: their routes are still there when
\* notifyPlayers looks them up, if only as routes to a connection that closed.
\* Who came without a gateway connection never had one.
MembersReachable ==
    \A m \in MatchIDs : InFlight(m) =>
        \A u \in members[m] \ (raced \cup Unbound) : routes[u] # NoRoute

\* A player is in one match in flight only. Without Redis the MATCHING state of
\* the ticket is the only lock there is, with Redis a key may expire early: the
\* state alone has to keep out whoever raced nothing.
InFlightDisjoint ==
    \A m, n \in MatchIDs :
        m # n /\ InFlight(m) /\ InFlight(n)
            => members[m] \cap members[n] \subseteq raced

\* Players in the hands of the queue: waiting, or in a match in flight.
Waiting == {u \in UIDs : HasState(u, "queuing") \/ HasState(u, "matching")}

\* The queue keeps draining: again and again fewer players wait than a match
\* takes, whatever CASConfirm refuses and however often players come back.
QueueDrains == []<>(Cardinality(Waiting \ raced) < Needed)
=============================================================================
