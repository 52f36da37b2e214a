# TLA+ verification of gmaker

gmaker is a game backend: Go services (login, biz, chat, matchmaking, registry,
configuration), a C++ gateway and a C++ realtime battle server, over common Go
and C++ libraries. This directory models the parts that carry its own
concurrent logic, checks them with TLC on small instances and proves the most
important results with TLAPS for every value of the constants.

Paths below are relative to `src/`. `PROJECT.json` lists, for every definition,
the lines it models, and for every property a mutated definition that breaks it.

## Inventory

| Component | State | Operations | Talks to | What is hard | What makes it correct |
|---|---|---|---|---|---|
| match-go queue (`services/match-go/internal/service`, `store`, `engine`, `handler`) | tickets by uid, buckets of tickets, routes, matches, settling keys in Redis | Enqueue, Dequeue, tick (search, mark, CASConfirm, release), settlement | gateway connections, Redis | handler goroutines, tick and settlement goroutine share objects under different locks; Redis calls fail, lose answers, keys expire | nobody in two matches, nobody lost from the queue, legal state moves, the queue drains |
| match-go settlement | match objects, match records in Redis, `notifyCh`, leadership | driveForward, Recover, SetLeader, stopEngine | Redis, realtime rooms, etcd election | crash between any two steps, change of leader, bounded channel | a saved match is settled in the end and never forgotten |
| match-go engine | buckets of tickets; during a tick the snapshot, the used set and the candidates | QueryRange, matchMode, doMatch, team split | requests change the pool while a tick works on a snapshot of it | bucket boundaries, integer division, ties, old and live view of the pool side by side | exact search, disjoint, maximal, closest-first and level groups |
| registry-go | nodes, leases, heartbeats, subscriber channels, watchers per connection | Register, Heartbeat, Discover, Watch, Subscribe, sweep, shutdown | every service | one watchLoop and one cleanup goroutine per subscription, full queues, cancellation, reentrant lock | no event lost by interleaving, nothing closed twice, subscriptions released, expired nodes removed |
| battle room and lockstep engine (`common/cpp/realtime`) | players, teams, disconnect times, frame buffer | enter, leave, ready, reconnect, input, tick | gateway, compute thread | order of messages between ticks, timeouts in frames, two records of who is present | level teams, no waiting for the absent, inputs confirmed once and in order |
| realtime-cpp service (`services/realtime-cpp`), compute threads (`common/cpp/realtime/compute_*.cpp`) | message queues, rooms, routes from client ids to gateway connections | OnClientPacket, OnClientClose, CreateRoom, PushMessage, RunLoop, OnRoomBroadcast | gateway, battle rooms | event loops and compute threads under three mutexes, two of them nested; raw connection pointers; client ids of several gateways | messages handled once and in order, no use of a dead connection, broadcasts reach members only, no blocking |
| gateway-cpp (`services/gateway-cpp`) | clients, session keys, player bindings, pending binds, rooms | accept, handshake, bind, kick, room join and leave, close, expiry | clients, biz, chat | client loops, upstream loop and heartbeat thread under three mutexes; late, lost and garbled answers; takeover of a player | one device per player, only what biz confirmed, nobody kicked wrongly, nothing left of a closed connection |
| C++ networking (`common/cpp/net/async`) | write queue, flags, uv handle and task queue of a connection | Send, Close, CloseAfterWrite, SendCloseAndDrain, write and close callbacks | all C++ services | any thread sends and closes, the loop writes; back pressure; draining before a close | nothing stranded, one write at a time, drained before closed, closed and told once |
| discovery clients (`common/go/registry`, `common/go/discovery`, C++ twins) | watched types, node addresses, pools | Register, heartbeat, Discover, Watch, reconnect | registry-go | callback under a lock, gap between Discover and Watch, forgotten nodes | every live node known in the end, no deadlock |
| Go networking (`common/go/net`) | connections, pools | Send, shutdown, Pick, reconnect | all Go services | close races, zombie nodes | onClose once, Pick returns usable nodes |
| Go RPC client (`common/go/rpc`) | pending calls, recycled channels | Call, OnPacket | - | a late answer meets a recycled channel | an answer reaches its own call |
| Go cache (`common/go/cache`, `limiter`, `lock`) | Redis entries, lock, breaker counters | Get, GetBatch, Delete, Refresh | Redis, dbproxy | stale fill, lock taken over, half-open probes | no stale value outlives its TTL, bounded probes |
| login-go, chat-go, biz-go, config-go | tokens, rooms, versions | request handlers | each other, Redis, MySQL | stale caches, repeated requests | not modelled (below) |
| dbproxy-go, bot-go, logstats-go, crypto, logging, metrics, tracing, id generation, generated and vendored code | - | - | - | I/O or sequential | not modelled |

## Modules

| Module | Models | Runs |
|---|---|---|
| `MatchModel` | the state machines, constants and arithmetic of `model.go` | (used by the next three) |
| `MatchService`, `MCMatch` | the queue: handler, tick and settlement goroutines, settling keys | MatchQueue, MatchFaults |
| `MatchServiceProofs` | theorems about `MatchService` | - |
| `MatchSettlement`, `MCSettlement` | settlement, records, crash, Recover, leadership | SettleCrash |
| `MatchSettlementProofs` | theorems about `MatchSettlement` | - |
| `MatchEngine`, `MCEngine` | search, and grouping one anchor at a time while players come and go | Engine |
| `MatchEngineProofs` | theorems about `MatchEngine`'s search and grouping | - |
| `Registry`, `MCRegistry` | registry-go with the memory store | RegistryWatch, RegistrySweep |
| `RegistryProofs` | theorems about `Registry` | - |
| `BattleRoom`, `MCBattle` | a battle room and its lockstep engine | Battle, BattleInputs |
| `BattleRoomProofs` | theorems about `BattleRoom` | - |
| `Realtime`, `MCRealtime` | realtime-cpp around the rooms: event loops, routes, compute threads | Realtime |
| `RealtimeProofs` | theorems about `Realtime` | - |
| `Gateway`, `MCGateway` | player binding, takeover and rooms of gateway-cpp | Gateway |
| `GatewayProofs` | theorems about `Gateway` | - |
| `ConnLife` | the promise of `IConnection`, whatever transport is behind it | (refined by the next) |
| `Connection`, `MCConnection` | AsyncTCPConnection and WebSocketConnection with their event loop | Connection, ConnectionKick |
| `ConnectionProofs` | theorems about `Connection`, its refinement of `ConnLife` | - |

### MatchService

A ticket is a heap cell; `tickets` (MemoryStore), `pool` (the buckets) and the
goroutines hold pointers to it, because the code's races come from two tickets of
one uid being alive at once. One step is one call on a locked structure. Handlers
are at a program counter of `Enqueue` or `Dequeue`; the tick goroutine is inside
`onMatchCandidate` (`mark`, `unpool`, `cas`, `push`) or `releaseCandidate`. The
search of a tick over the pool is one step, any disjoint maximal grouping of the
searchable tickets may come out; which one it really is, is `MatchEngine`'s
subject. `claims` and `raced` are history: whose settling key a match has set, and
whose requests overlapped another goroutine's work on the same player. A cancel that
panics closes its connection but removes no route: the routes bound to it stay in the
map and lead to a closed connection (`ClosedRoute`). A request whose gateway_conn_id is 0
gets no route (`Unbound`, the early return of bindRoute). Ids come from INCR, which waits
for no key: `FreshIDs` are those whose match is over, preferably ones no key carries
(`NewestIDs`). A player who comes back after a match is refused by the key of that match
until its TTL has passed.

### MatchSettlement

`record` is Redis and survives `Crash`; `obj`, `matches`, `notifyCh` and the
goroutines do not. Recovered objects carry ID 0 (no `id` field is written), hence
the extra key 0. `Faults` lets saves and loads fail, `Stale` lets records be too
old. A driveForward loop iteration is one step up to its `SaveMatchRecord`.
SaveMatchRecord sets a TTL of 60 s on the record (`store.go:235`) and nothing renews it but
the next save, so `ExpireRecord` may take any record at any moment; `expired` is history.
LoadActiveMatches loses all records when SCAN fails, and single ones when their HGETALL
does (`store.go:262-265`). `LoseSession` ends the election session of a node; it steps down
and campaigns again with the dead session (`main.go:265-283`), so a node without one is
owed no further promotion. A hash that expires between SCAN and HGETALL reads as an empty
record, which Recover throws away; it is not modelled.
`lost` is history: matches whose record a restart did not bring back (unread, stale, or
replaced by another one of ID 0). `StuckStopping` names the one state from which
stepping down does not return, a full `notifyCh` that nobody reads any more.

### MatchEngine

`queued` is the pool of one mode: player -> ticket with rating, waiting time and
priority. A tick begins with `matchMode`, whose snapshot is `QueryRange(0, ScanRadius)`
with the literal 99999 of the code; its tickets are the `anchors`. Every turn of
doMatch's loop is a step, `SkipAnchor` or `GroupAnchor`, and queries the pool as it is
at that moment: players enter and leave between the turns (`Enqueue`, `Dequeue`), so the
snapshot and the pool drift apart. The three uses of `sort.Slice` are what they promise:
any anchor of the highest priority comes next (`NextAnchor`), any set of the closest is
picked (`Closest`), any order by descending rating is dealt to the teams (`Rankings`).
`Outcome` is onMatchCandidate for the candidates of the tick: refused ones come back
with a higher priority, also for players that cancelled meanwhile, whom MemoryStore no
longer knows (`known`) and who therefore cannot cancel again. `stayed` is history: who
has been in the queue since the tick began; only for them can a tick be asked to have
missed nobody. Three abstractions: no time passes during a tick (it takes far less than
the 50 ms that widen a radius by one), a player of whom the tick holds a ticket does not
queue again before the tick is over, and no ticket is listed twice; the last two are the
subject of MatchService.

### Registry

`m.mu` critical sections are single steps, sends of Register to the copied
channels are steps of their own. A subscription (channel, watchLoop, cleanup
goroutine) is named by connection, service type and context number. Closing a
closed channel and a nil context are faults that end the process; a send on a
closed channel is recovered by the registering connection's readLoop. A Subscribe reads
its types one Discover at a time, each under `m.mu` (`unread`, `found`), before it answers
and watches; the runs have one type, since a second one multiplies the states. `SweepLeave`
is what sweepExpired would do after broadcast: its guard is the lock its own
goroutine holds, so it is only part of the specification of RegistrySweep. LEAVE
events cannot be sent and are left out. The client's view is external and only
collects what it was sent.

### BattleRoom

One step is one message or one tick, as the compute thread runs them. Frames,
`active_players_`, the frame buffer and the room's own records are kept exactly;
combat is reduced to which crystals fall in a tick. The team lists are sets of
numbered entries: only how often a player is listed matters, never where. Frames
confirmed ahead (`CatchUp`) are kept; `TryAdvance` is the set of frames its loop
confirms, `InOrder` the order it does so. `reentered` and `overtaken` are history.

### Realtime

The layer around the rooms. Each gateway connection has an event loop that runs
OnClientPacket (`io`: bind the route, create the room, push the message) and
OnClientClose; each compute thread swaps its queue, handles the messages one by one
under `room_mtx_`, then ticks its rooms under it. A broadcast takes `conn_mtx_` while
`room_mtx_` is held, so `conn_mtx_` is a variable and `room_mtx_` a condition on
where the thread stands. A room is reduced to the client id of each player's seat;
what a message or tick does to it is any outcome BattleRoom allows. A client and the id
its gateway gave it are two things (`Clients`, `IdOf`): every gateway counts from 1, again
after a restart and separately for TCP and KCP, so clients of two gateways may share an
id, and the realtime server, which knows ids only, confuses them. `seen`, `done`, `asked`
(which client asked for which room) and `heard` are history. HandledInOrder counts the messages of each connection and
thread: local queue, `msg_queue_` and the event loop's hand together hold exactly the
numbers after `done` up to `seen`, one by one (`InTurn`).

### Gateway

One step is one critical section of `sessions_mtx_`, `player_mtx_` or `room_mtx_`.
A client's handlers run one after the other on its loop (`pc`), the upstream loop
carries a bind answer through BindPlayer, KickConnection and the answer to the client
(`up`). Biz is external and gives any verdict or none, in any order; chat (chat-go)
answers the room requests of clients that were bound when they sent one (`spoke`), also
when they are displaced, closing or gone by then. The number of a bind request is the
seq_id the client chose (`Requests`), and it may come back. A TCP connection is read
before its callbacks are set and before it is listed, three steps
(`tcp_server.cpp:198-215`): one that ends in between is in `early`.

The properties name what the code does not give. `reused` are the connections that gave a
request the number of one biz had not answered yet, for another player: the check of seq_id
(`main.cpp:856`) cannot tell the two answers apart, so such a connection may be bound to a
player biz never confirmed for it, and may displace its holder. `late` are the connections
an answer touched after their clean-up, `stray` those that ended in a room other than the
one noted, `broken` the WebSockets whose write failed after CloseAfterWrite. Assumed:
encryption and serialisation do not fail.

### Connection and ConnLife

One connection of either class, used by any threads. One step is one critical section
of `write_mtx_` or one access to an atomic; what only the loop touches is part of the
step around it. libuv is external: a write ends in success or failure, `uv_close`
cancels it and calls back. `queue`, `inflight` and `written` count messages;
MAX_WRITE_QUEUE_BYTES and the resume threshold are constants. Post runs a task at once
on the loop thread and queues it otherwise. `ConnLife` is the abstract view of
`IConnection`: accepted messages are written at most once and only before the end, a
connection that was asked to close does close, its owner is told exactly once.
`ImplementsLife` is that specification under the mapping `asked <- closed \/ closing`
(Close, CloseAfterWrite, SendCloseAndDrain, a failed read or write), `life <- handle`,
`accepted <- pushed`, `wire <- written`, fairness included. The promise that a close which
was asked for happens does not hold of every request, and the mapping says which ones the
classes lose (`lapsed <- Lapsed`): CloseAfterWrite of TCP, whose closing Close() takes
`closed_` for "already closed" (ConnectionKick), and on a WebSocket one after which a write
fails. All others are kept. The safety half, `Life!Safe`, is a theorem. Gateway
uses the result: its fairness lets a WebSocket that was asked to close end unless a write
fails.

## Runs

Twelve runs, all with `tlc -workers 2 -config <run>.cfg <module>`.

| Run | Bounds | Shows |
|---|---|---|
| MatchQueue | 3 players, 1 connection, 2 tickets per player, 2 match ids, 1v1, with and without Redis; no new requests after the first race | ConfirmedExclusive, MembersReachable, InFlightDisjoint, LegalTicketTransitions |
| MatchFaults | 2 players of different buckets, requests on one connection and cancels on another, 2 tickets per player, 3 match ids, one player without a route, failing NextMatchID and CASConfirm, keys that outlive their match, up to the first race, fairness | QueuingReachable, QueueDrains |
| SettleCrash | 2 matches, a channel of 2, 2 crashes, lost sessions, failing saves and loads, stale and expiring records, fairness | TypeOK, NothingForgotten, NoneDroppedAlone, LegalMatchTransitions, EveryMatchSettles, WaitsEnd (RecoverEnds and StopEnds) |
| Engine | up to 4 players, 2 ratings around a bucket boundary and the widest radius, waits of 0 and 14 s, 1 refusal per ticket, 1v1 and 2v2 | RangeExact, GroupingSound (OnceEach, GreedyMaximal, ClosestPicked, TeamsBalanced) |
| RegistryWatch | 1 connection with 2 contexts, 1 node, 3 registrations, queues of one, shutdown, fairness | TypeOK, NoJoinLost, ClosedOnce, WatchReleased, RegisterReturns |
| RegistrySweep | 1 node, 1 subscriber, fairness | violation of ExpiredLeaves (finding) |
| Battle | 2 players, 1v1, all waits of one frame, 6 frames | TypeOK, TeamsFit, ActivePresent, ConfirmedInOrder, KeepsPresent |
| BattleInputs | same | violation of InputsConfirmed (finding) |
| Realtime | 2 gateways with a connection each, 3 clients of which two share an id, 1 player, 3 packets of 7 shapes, rooms 0, 1, 2 on 2 compute threads, fairness | HandledInOrder, EnterFindsRoom, RoutesAlive, OnlyMembersReached, EveryMessageHandled |
| Gateway | a WebSocket client with 2 binds (the second under a new number or the first one's), a TCP client with 1, 2 players, 2 rooms, fairness | OneDevice, BoundVerified, ClosedForgotten, KickJustified, TakeoverEnds (DisplacedCloses and BoundTold) |
| Connection | TCP and WebSocket, 2 threads and the loop, 2 messages (a batch may add one more), queue limit 1, batches of 1, fairness | TypeOK, OneWriter, ReadingWhenAllowed, DrainedBeforeClose, ImplementsLife, DrainEnds |
| ConnectionKick | TCP, 1 thread, fairness | violation of ClosesAfterWrite (finding) |

The type invariants of MatchService, Gateway and Realtime are proved (below) and not
part of a run. A property in front of brackets is the conjunction of those in them.

Why the bounds are enough. A queue race needs two tickets of one player, a third
player to take the freed place and a second match to hold a claim: that is what
MatchQueue has. Ticket cells and finished match ids are reused, so no counter
bounds the length of a behaviour there; `MaxEntries` only pauses new requests
while stale entries fill the pool, `Sends` says which connection carries what, and
`AfterRace` what goes on once the requests of some player raced: in MatchQueue everything
but new requests, in MatchFaults nothing (with two players a raced one leaves fewer than a
match takes, and that case of QueueDrains is over). MatchFaults has the two players and two
connections that a race of requests and a bounced candidate need; their ratings lie on the
two sides of a bucket boundary and within a search radius, so a cancel can come before
its bucket exists. Its three ids let a match set keys, end, and its players come back and
be refused by the keys still there, or by those of a CASConfirm whose answer was lost,
while a free id is left for the match that succeeds after the TTL. Engine: four players are two candidates of one tick, or one candidate
and somebody left over; the two ratings are
in different buckets and within the radius only of a ticket that waited, whose search
begins below 0. Settlement: two recovered matches are needed for the shared ID, and a channel
of two to let both pass; it is overfull with the record that one of them was saved under
ID 0 (three records of two matches, found after a second crash), or with two recovered
matches and a fresh one. Registry: one
registration for a watchLoop to fail on, one to fill its channel, one to find it
full; two contexts because a second Watch replaces the first. Battle: six frames
are two to start, one to leave, two to let a wait of one frame run out and one to
come back after it; `MaxIdle` and `MaxListed` only bound waiting-room ticks and
repeated entries. Realtime: a player that enters through one gateway and comes back
through the other while the first breaks off needs three packets; the packets name
the room nobody creates (0), one that exists (1) and one an ENTER creates (2), on both
threads; a third client gives the second gateway one with the id of a client of the first
and one with an id of its own, so routes are overwritten by the right and by the wrong
client. Gateway: a takeover needs two clients of one player, a stale answer a second
request of one client for another player, under another number or the same; a membership
that is not the noted one needs two rooms. Connection: a message behind the one in
flight, a batch at the limit and a close between two senders; with a limit of one
every message can trip the back pressure. `CHECK_DEADLOCK FALSE` except in Realtime
(whose compute threads tick for ever) and Engine (a player can always come or go): clients may stop sending, a process may have
stopped, and the named bounds end a behaviour.

Symmetry is used for players and connections in runs without liveness; the VIEW of
MCMatch forgets what unreferenced cells and finished matches last held, which no
action or property reads.

### Fairness

- MatchFaults: weak fairness of each step of the handler, tick and settlement
  goroutines (they are runnable, the Go scheduler runs them) and of key expiration (a
  TTL of 60 s); strong fairness of NextMatchID and Confirm: Redis calls that are made
  again and again do not fail every time. Requests are not obliged to come.
- SettleCrash: weak fairness of the goroutines, of Recover, of restart (a supervisor) and
  of promotion while the session lives; a node with a dead session is owed nothing.
  Crashes, lost sessions, expirations and faults are not obliged; crashes are bounded.
- Connection, ConnectionKick: weak fairness of every call that was begun, of the loop's
  tasks, and of the end of a write, one way or the other. Nobody has to call anything.
- Gateway: weak fairness of the handlers that were begun and of the upstream loop;
  strong fairness of the end of a WebSocket that was asked to close, between two of its
  handlers, as long as no write fails (DrainEnds of Connection). Nothing of the kind is
  assumed of TCP, whose displaced client stays. Biz, chat and clients owe nothing.
- Realtime: strong fairness of each event loop's handler and of each compute thread:
  threads run, and a mutex that is free again and again is given to each waiter in the
  end. `std::mutex` does not promise it; the compute thread sleeps between frames, so
  it holds in practice, and deadlock, which the property is about, is not excluded by
  it. Gateways need not send.
- RegistryWatch, RegistrySweep: weak fairness of the goroutines of the process
  (sending, watchLoop, cleanup, the rest of a handler, the sweeper's ticker).
  Clients, time and the operator are not obliged.

## Findings

- **ConnectionKick** (`tcp_connection.cpp:192`): CloseAfterWrite sets `closed_`, and
  the Close() that is to follow the drained queue returns because of it: a TCP client
  that was kicked, refused or sent an error stays connected until it leaves by itself.
  `WebSocketConnection` calls DoClose in that place and closes.
- **RegistrySweep** (`memory_store.go:68`): the sweeper asks for `m.mu` inside
  `m.mu`; the first expired node freezes the registry.
- **BattleInputs** (`battle_room.cpp:190`): inputs are filed under a frame that is
  never looked at again; with an active player no input is ever confirmed, and the
  timeout never fires.

### Observations without a run

Behaviours met while modelling on which the repository's documents are silent, or
which a variation of a run shows:

- Bucket.Remove looks an entry up by uid (`service.go:264`): when a player cancels and
  queues again while its candidate is being processed, the entry of the new ticket is
  removed and the old object put back; the player stays QUEUING, cannot be found and
  cannot queue again. MatchFaults with `AfterRace = {"requests", "others"}` and
  QueuingReachable without its exception for `raced` shows it.
- Recovered matches all have ID 0 (`store.go:392`: no `id` field is written): two of
  them share a map entry and a key, completing one marks the other terminal and its
  players are never told. SettleCrash with the invariant NoneDropped shows it; `lost`
  is what EveryMatchSettles excepts.
- A record lives 60 s (`store.go:235`): a match that waits longer than that behind a full
  `notifyCh`, or for a restart, is forgotten by Redis although its players were confirmed.
  NothingForgotten without `expired` shows it.
- A node whose etcd session ended campaigns again with the same session (`main.go:283`)
  and gets an error every five seconds; it never leads again.
- `notifyCh` (capacity 256) is filled by Recover before anybody reads it
  (`service.go:433`), and onMatchCandidate sends on it without looking at `stopCh`
  (`service.go:292`): the exceptions in RecoverEnds and StopEnds are these two hangs.
- A player whose cancel was acknowledged may still be confirmed: onMatchCandidate
  ignores the error of UpdateTicketState (`service.go:263`). If its candidate is refused
  instead, releaseCandidate puts the ticket back although MemoryStore has none, and the
  player cannot cancel it any more.
- When NextMatchID fails (`service.go:238`) the candidate is released although its
  tickets never left the pool: they are listed twice from then on, and the used set of
  doMatch (`engine.go:297`), which is written after the picking, does not keep a ticket
  that is listed twice from being picked twice for one match of two or more a side.
  MatchService has these entries (`Groups`); its runs are one against one.
- RangeExact fails for negative ratings (`engine.go:119-125`: the range is clamped
  at bucket 0 while BucketIndex is not) and for ratings above 99999, which the snapshot
  of a tick (`engine.go:231`) leaves out for ever; nothing in match-go bounds the rating
  of a request. The hypothesis of the theorems RangeQueries and Grouping is this range.
- The route of a connection that was closed after a panic of its handler stays in
  `routes`, so notifyPlayers sends to a closed connection (`service.go:458`).
- Modes other than 1..3 are queued and never matched (`engine.go:213`); recovered
  matches have no routes, so nobody is told (`service.go:480`).
- Registry: a node registering between the snapshot of handleSubscribe and the
  watchLoop's subscription is in neither; a second Watch leaks the first
  subscription; Subscribe of another type after Watch ends the process (add a
  second service type to RegistryWatch: the fault `nilctx`); a watchLoop that ended
  on a full writeCh is never restarted, since Subscribe finds the type listed; the
  store's Watch with an initial snapshot (`memory_store.go:134`) is used by nobody.
- Battle: a player entering twice is listed twice; entering instead of reconnecting
  leaves the old wait running, and the connected player is removed; both crystals
  falling in one tick end nothing; a late reconnector who was not connected at the
  start of the battle never becomes active; the reconnect answer is serialised and
  not sent (`battle_room.cpp:739`); the three "seconds" of the countdown are three
  ticks of 16 ms; `OnClientClose` (`services/realtime-cpp/main.cpp:336`) never
  produces a PlayerDisconnectMsg.
- Realtime: client ids count from 1 in every gateway process and after every restart
  (`common/cpp/net/async/tcp_server.cpp:196`), so two gateways share ids and a client
  receives frames of a room it never entered (`main.cpp:351`): OnlyMembersReached without
  its condition `Alone` fails. No room hears of a lost gateway
  connection. An ENTER with room 0 goes to room 1, later packets with room 0 nowhere.
  A packet over an old connection of a gateway points the route back to it, and its end
  then leaves the client without a route until its next packet. LEAVE carries no
  connection, so a late one marks a returned player as gone. CMD_REALTIME_MOVE makes a
  PlayerMoveMsg that BattleRoom::OnMessage casts to HeroMoveInputMsg
  (`battle_room.cpp:77`), an unrelated type. `compute_thread.hpp:44` says CreateRoom
  returns false after Start; it does not, and dynamic rooms depend on it.
- Gateway: seq_id is the client's (`main.cpp:1088`). A client that sends BIND for a player
  whose token it has and BIND for another player under the same number is bound to the
  second by biz's answer to the first, and displaces its holder.
  `docs/single-device-login.md:202` ("重复 BIND 防串包", an old answer is not applied to a
  new request) and `:198` ("两步绑定防止误踢", nobody is displaced by a false player id) say
  this cannot happen; the run Gateway with BoundVerified or KickJustified without `reused`
  shows that it does, in nine steps.
- Gateway: BindPlayer does not look whether the connection still exists: an answer
  after CleanupPlayerState binds the player to a dead connection until somebody else
  binds it, although `docs/single-device-login.md:200` says a disconnect cleans up; a
  late JOIN does the same to a room. A second JOIN, or a LEAVE of another room, leaves
  a membership that the close handler does not find (`stray`), contrary to the same line.
  A displaced TCP client is told and stays connected (the finding of ConnectionKick), and so
  does a WebSocket whose write fails after CloseAfterWrite. A bind request whose send fails
  or that expires is dropped without an answer. Between the erasures from `ws_clients_`
  and `clients_` a response is queued in the coalescer with the adapter's raw pointer
  (`main.cpp:1000`). Kick notices and errors overtake responses still in the coalescer.
  KCP and TCP connection ids start from the same number. SendErrorAndClose inside the
  KCP server's callback takes `sessions_mtx_` around a close that calls back
  (`main.cpp:1324`). chat-go tells the gateway to LEAVE only for the member that closed
  the room (`services/chat-go/internal/chat/service.go:489` says all).
- Connection: when the loop resumes reading before the sender's uv_read_stop takes
  effect, the connection is never read again (`overtaken`). A WebSocket whose write
  fails after CloseAfterWrite is never closed (`closed_` again, `hard` in DrainEnds).
  TCP calls uv_read_stop from the sending thread, which libuv does not allow;
  `keep_alive_` is assigned without a lock; ProcessWriteQueue of TCP leaves `writing_`
  set when the handle is closing; `req->conn` keeps a closed connection alive.

### Hazards known, without a property

- match-go: an etcd error makes the node leader (`main.go`, runElection); `engine.go:114` reads a map without its lock.
- registry-go: the three cases above (gap before the subscription, second Watch,
  Subscribe after Watch).
- Go libraries: `common/go/net/upstream.go:225` calls back with `p.mu` held and the
  callback asks for it again; `common/go/discovery/registry_impl.go:61` ignores
  Ok = false, so a forgotten node never registers again;
  `common/go/discovery/upstream_manager.go:68` discovers first and subscribes later;
  `common/go/rpc/client.go:59` may deliver a late answer to a recycled channel;
  `common/go/limiter/circuit_breaker.go:73` does not count the first half-open probe;
  `common/go/cache/manager.go:340` and `:364` store a stale value and delete another
  loader's lock.

## Proofs

`MatchServiceProofs` proves, for any players, connections, ratings, cells, match
ids, team size and capacities that satisfy `NoneAssumption` and `SizesAssumption`:

- `TypeCorrect`: `Spec => []TypeOK`. The type invariant is inductive once it says
  that a goroutine at work holds a ticket, a candidate and a match, that a
  player's ticket carries its uid, and that pool counts are naturals (a removal
  only touches an entry that is there). It is split into five parts, each action
  disturbs one or two.
- `Exclusive`: `Spec => []ConfirmedExclusive`. The inductive strengthening is
  `ClaimsKept`: every claim of a match is backed by the settling key with its id.
  CASConfirm claims only where no key is set, and the expiration of a key takes the
  claim with it; a key has one value, hence two matches never claim one player.
- `Legal`: `Spec => LegalTicketTransitions`. It needs `NeverRoomed` (no ticket ever
  reaches the state ROOMED, from which QUEUING would be illegal), for the direct
  assignment of releaseCandidate; all other moves go through UpdateTicketState or
  start a ticket in an unreferenced cell.
- `Findable`: `Spec => []QueuingReachable`, and `OneFlight`: `Spec =>
  []InFlightDisjoint`, from one inductive invariant, `QueueInv`. It says of the
  goroutines that one at rest holds nothing and that the candidates of a tick share
  nobody (`Resting`), of a match in flight where it is (`Flights`: with the tick
  goroutine, in `notifyCh` or with the settlement goroutine, once), and of every player
  whose requests raced nothing (`PlayerInv`): what each program counter of a handler at
  work on it implies (`Requests`), that entries of its earlier tickets are never queuing
  (`Stale`), that candidates hold its current ticket and, place by place through
  onMatchCandidate and releaseCandidate, whether it is pooled or MATCHING (`Grouped`),
  that nobody who waits is missing in the pool (`Found`), and that a member of a match
  in flight is MATCHING and in no other (`Flying`). No part holds alone: that a
  candidate is marked before the next one is looked at needs `Grouped`, which needs
  that no request replaces a ticket meanwhile, which is `Requests`. TLC checked it as an
  invariant of both runs before it was proved.
- `RoutesKept`: `Spec => []MembersReachable`, from `QueueInv` and `RouteInv` (whoever is
  queuing or matching has a route once its Enqueue has passed bindRoute): Dequeue deletes
  a route only after it has shut out the tick with UpdateTicketState(uid, IDLE).

`MatchSettlementProofs` proves, for any matches, channel capacity, number of crashes and
changes of leader and any faults that satisfy `MatchIDsAssumption`, `BoundsAssumption`
and `NilAssumption` (nil is no object):

- `Typed`: `Spec => []TypeOK`.
- `Remembered`: `Spec => []NothingForgotten`: only its TTL takes the record of a match that
  was saved and is not settled. The record under a match's own key outlives its settlement
  or has expired (`Kept`): a recovered object is saved and deleted under key 0,
  never under its own, and a fresh one is deleted only after its players were told. This
  needs what an object's ID says about its match (`Objects`), what records there are
  (`Records`), that nobody holds a pointer to nothing (`Pointers`) and which goroutines
  run in which phase (`Phases`).
- `LegalTransitions`: `Spec => LegalMatchTransitions`, from the same invariant:
  driveForward assigns the state it has just asked UpdateMatchState for, and when that
  worked on another object of ID 0 the assigned move is still one of the table.
- `NoneLost`: `Spec => []NoneDroppedAlone`. Every object that counts is settled or in
  somebody's hands in a state that is not terminal (`Handled`), because as long as only
  one match was recovered no other object can be completed in its place (`Reached`).

`MatchEngineProofs` proves, for any finite set of players, team sizes, waiting times and
priorities (`IdsAssumption`, `ParamsAssumption`):

- `RangeQueries`: if all ratings are between 0 and 99999 then `Spec => []RangeExact`.
  The lemmas are about the arithmetic: truncating division is monotone (`DivMonotone`),
  a bound below 0 rounds to a bucket that the clamp replaces by 0 (`GoDivBelow`), hence
  whoever is within the radius is in a scanned bucket (`ScannedCovers`), and the filter
  by rating makes the result exact (`QueryExact`). The hypothesis is not an assumption of
  the model: outside this range the code does lose tickets (Observations).
- `Grouping`: for the same ratings `Spec => []GroupingSound`, whoever enters or leaves
  while the loop runs. The property is inductive together with `Typed`, which says that
  the pool, the anchors and the candidates hold tickets of players, and that whoever
  stayed still has the ticket the snapshot saw: that is what lets an answer of the live
  pool be compared with the snapshot. The steps of a tick only add candidates and only
  shrink what is left (`Kept`), so what held of a skipped anchor (`KeptFew`) or of a
  candidate (`KeptCandidate`) goes on to hold. An anchor is skipped only if exact search
  finds too few (`SkippedFew`). A new candidate takes the closest: who is left over came
  later in the order or is out of range (`PickedNear`). Its ranking has one place for
  each ticket (`TeamsSplit`: an injection between sets of one size), half of the places
  are odd (`Halves`), and those rated above any bound are the first places, among which
  odd ones are ahead of even ones by at most one (`Alternate`, `TeamsLevel`). No
  induction over the loop is needed because one turn of it is one step.

`RegistryProofs` proves, for any connections, nodes, service types, contexts and
queue capacities that satisfy `CapsAssumption`:

- `ChannelsClosedOnce`: `Spec => []ClosedOnce`. Two goroutines close a channel, its
  cleanup goroutine and MemoryStore.Close. The inductive invariant `ChanInv` says
  that a channel is open while it is in m.watches (`watching`), and while its
  cleanup goroutine waits unless the store was closed (`Open`); after Close the
  cleanup finds the map gone and closes nothing. It also needs that a watchLoop
  runs at most once per connection, type and context (`Fresh`): a context number is
  never used again, and a watcher lists every type its context has started.
- `Typed`: `Spec => []TypeOK`, capacities of channels and `writeCh` included; it needs
  that a Subscribe under way still has a context number to use (`Room`).
- `JoinsArrive`: `Spec => []NoJoinLost`. With `Idle` (a Register that has answered has
  sent to every channel it copied) and `Unowed` (nothing is owed to a channel before it
  is in m.watches) the invariant is inductive: each step moves an event one place on its
  way from the handler over the channel and `writeCh` to the client.

`GatewayProofs` proves, for any connections, players and rooms that satisfy
`GatewayAssumption`, with one inductive invariant:

- `Typed`: `Spec => []TypeOK`, the agreement of the two room maps included.
- `SingleDevice`: `Spec => []OneDevice`. BindPlayer and CleanupPlayerState are the only
  writers; each changes both maps in one critical section of `player_mtx_`.
- `OnlyVerified`: `Spec => []BoundVerified`. The request that is remembered and the
  answer that arrives carry the same number, hence the same player (`Traced`), unless the connection
  used the number of an open request again for another player (`reused`); between the
  answer and BindPlayer the pair is in the hands of the upstream loop (`UpOK`). Nothing is
  assumed of the numbers clients choose.
- `NoneDisplacedWrongly`: `Spec => KickJustified`, from the same invariant.
- `Forgotten`: `Spec => []ClosedForgotten`, members of rooms included. The close handler clears the tables one by
  one, so the invariant (`Cleared`) follows it: what it has cleared so far stays cleared,
  except for what a late answer brings back, and a connection that is not listed yet has
  run no handler and can only end early.

`RealtimeProofs` proves, for any gateways, connections, clients, players, rooms and
number of threads that satisfy `RealtimeAssumption`:

- `Typed`: `Spec => []TypeOK`.
- `NoDanglingRoute`: `Spec => []RoutesAlive`: a loop that is about to bind a route has
  not closed its connection (`Busy`).
- `EnterServed`: `Spec => []EnterFindsRoom`: an ENTER is pushed after its room was
  created, and rooms are never removed; the invariant follows it from the hands of the
  event loop through `msg_queue_` to the local queue (`Messages`).
- `MembersOnly`: `Spec => []OnlyMembersReached`: seats and broadcasts hold only ids under
  which somebody asked (`Seats`, `Outs`), and a route to an id belongs to the gateway of a
  client with that id that was heard of (`Owned`); if there is only one, it is that of the
  client that asked. Ids need not differ.
- `InOrder`: `Spec => []HandledInOrder`. For each connection and thread there are two
  numbers at which the local queue ends and `msg_queue_` begins, and at which that ends
  and the event loop's hand begins (`Turns`); a push, a swap and a handled message each
  move one of them. The swap needs the local queue to be empty (`Swapped`).

`BattleRoomProofs` proves, for any players, team size, countdown, timeouts, catch-up
window and number of ticks that satisfy `RoomAssumption`, with one inductive invariant:

- `Typed`: `Spec => []TypeOK`, and `WaitsForPresent`: `Spec => []ActivePresent`.
- `TeamsLevel`: `Spec => []TeamsFit`. As long as nobody has entered twice the two lists
  are exactly the players in the room, each once in its own team (`Seated`); a room that
  is not full then has a place in the smaller list (lemma `Counting`).
- `HistoryInOrder`: `Spec => []ConfirmedInOrder`. The history is strictly increasing and
  all in it is confirmed (`Ordered`); from the frame of the last tick on the confirmed
  frames have no gap (`Ahead`), so what TryAdvance adds lies above all of them.
- `PresentStay`: `Spec => KeepsPresent`: who is connected has no wait running unless it
  entered over it (`Waits`).

`ConnectionProofs` proves, for TCP and WebSocket, any threads, messages, queue limit,
resume threshold and batch size that satisfy `ConnectionAssumption`, with one inductive
invariant:

- `Typed`: `Spec => []TypeOK`; accepted messages are written, in flight, queued or given
  up by a failure, and counted once (`Counted`).
- `SingleWriter`: `Spec => []OneWriter`. `writing_` is the lock of the writer (`Locked`):
  who writes or is posted to write holds it, and who holds it is at work. Without a holder
  a queued message belongs to a sender that has yet to look at the flag (`Fed`).
- `ReadsWhenAllowed`: `Spec => []ReadingWhenAllowed` (`Paused`: only who paused reading
  has a stop under way).
- `Drained`: `Spec => DrainedBeforeClose`: a drain closes when it finds the queue empty
  and nobody writing, and then `Fed` says that what was due is written.
- `RefinesLife`: `Spec => Life!Safe`, the safety half of the refinement: the initial state
  maps to ConnLife's, each action to one of its actions or a stutter (`Announced`:
  `closing_` is set before the handle is closed, so Begin and Ask come in order).

Only model-checked: liveness under fairness, which is beyond the prover (QueueDrains,
EveryMatchSettles, WaitsEnd, WatchReleased, RegisterReturns, DrainEnds, TakeoverEnds,
EveryMessageHandled and the fairness half of ImplementsLife). All invariants and action
properties of the passing runs are proved.

## Plan

1. Proofs: every safety property of the runs has its theorem. Left: sharper provisos
   where a theorem excepts a history (`raced`, `overtaken`, `late`).
2. `Discovery`: the Go registry client and UpstreamManager composed with `Registry`
   (every live node is known to every manager in the end), and `UpstreamPool`, whose
   reconnect callback re-enters Pick.
3. `CacheManager` with breaker and stampede lock; `RpcClient` with its recycled
   channels.
4. login-go's tokens behind Gateway; chat rooms; configuration versions.

Runs are few and each asks one question of one component; a new component replaces the
smaller of two runs of an old one, and its question moves into the other.

## Not modelled

The table of the inventory and the components of `PROJECT.json` name every part left
out and why: I/O, codecs and framing, KCP and UDP transports, the Redis client and
dbproxy; geometry and fixed-point arithmetic of the realtime entities; etcd's own
guarantees; generated and vendored code (the greater part of the repository's C++
lines are protobuf output), tools, and the parts of steps 2 to 4 of the plan. Wall-clock
time appears only as nondeterministic expiry. Shutdown is modelled for registry-go and
match-go's leadership only; the C++ services have none that anything calls.
