------------------------------ MODULE Realtime ------------------------------
(***************************************************************************)
(* The realtime server (services/realtime-cpp/main.cpp over ComputePool    *)
(* and ComputeThread): packets of gateways come in on the event loops of   *)
(* their connections, are queued for the compute thread of their room, and *)
(* what the rooms broadcast goes back over the connection from which the   *)
(* client was last heard.                                                  *)
(*                                                                         *)
(* Threads: one event loop per gateway connection and ThreadCount compute  *)
(* threads.  A step is one critical section of conn_mtx_, msg_mtx_ or      *)
(* room_mtx_; a broadcast takes conn_mtx_ while room_mtx_ is held, so the  *)
(* two are explicit.  A room is reduced to whom it broadcasts to: what a   *)
(* message or a tick does in it is the subject of BattleRoom, here every   *)
(* outcome is possible.  conns_ is written and never read and is left out; *)
(* so is shutdown, which nothing calls (SignalStop has no caller).         *)
(***************************************************************************)
EXTENDS Naturals, Sequences, FiniteSets

CONSTANTS
  Conns,        \* connections of gateways
  Gateways, Of, \* which run of which gateway process a connection belongs to
  Clients, Home,  \* clients, and the run of a gateway each is connected to
  ClientIds, IdOf, \* client ids, and the one the gateway gave a client
  Players,
  Rooms,        \* room ids a packet may name
  FirstRooms,   \* the ones Start creates
  ThreadCount,
  MaxPackets,   \* bound: packets of each connection
  Sent,         \* bound: <<kind, room>> of the packets each connection brings
  None, Away    \* nobody; a player the room waits for

\* Packets by what they do: "play" are ready, move and cast, "bare" those that
\* are too short or unknown.
Kinds   == {"enter", "leave", "reconnect", "input", "play", "bare"}

\* Nothing makes ids differ: every gateway counts from 1, again after a restart,
\* and its TCP and KCP servers count apart.
ASSUME RealtimeAssumption ==
  /\ Of \in [Conns -> Gateways]
  /\ Home \in [Clients -> Gateways] /\ IdOf \in [Clients -> ClientIds]
  /\ {0, 1} \subseteq Rooms /\ Rooms \subseteq Nat /\ FirstRooms \subseteq Rooms
  /\ ThreadCount \in Nat \ {0} /\ MaxPackets \in [Conns -> Nat]
  /\ Sent \in [Conns -> SUBSET (Kinds \X Rooms)]
  /\ {None, Away} \cap (ClientIds \cup Conns) = {} /\ None # Away

Threads == 0..(ThreadCount - 1)
PickThread(r) == r % ThreadCount

Message == [from : Conns, n : Nat, kind : Kinds, room : Rooms, player : Players, client : ClientIds]

VARIABLES
  closed,         \* connections whose OnClientClose has run
  io,             \* event loop of a connection: what is left of OnClientPacket
  hand,           \* the packet it handles
  client_routes,
  connMtx,        \* the compute thread that holds conn_mtx_, or None
  rooms,          \* rooms_ of all threads
  seats,          \* whom a room knows: client id, Away or None for each player
  msg_queue, local,
  run,            \* where RunLoop stands
  left,           \* rooms TickRooms has still to run
  out,            \* the broadcast that is under way
  \* histories
  packets,        \* packets a connection has sent
  seen, done,     \* messages from a connection for a thread: sent, handled
  asked,          \* <<r, x>>: client x asked to be in room r
  heard           \* clients that sent something

input == <<io, hand, packets, seen, asked, heard>>
tasks == <<msg_queue, local, done>>
vars  == <<closed, input, client_routes, connMtx, rooms, seats, tasks, run, left, out>>

NoBroadcast == [room |-> None, to |-> {}]
Broadcast(r, to) == IF to = {} THEN NoBroadcast ELSE [room |-> r, to |-> to]

Init ==
  /\ closed = {} /\ io = [g \in Conns |-> "idle"] /\ hand = [g \in Conns |-> None]
  /\ client_routes = [c \in ClientIds |-> None] /\ connMtx = None
  /\ rooms = FirstRooms /\ seats = [r \in Rooms |-> [p \in Players |-> None]]
  /\ msg_queue = [t \in Threads |-> <<>>] /\ local = [t \in Threads |-> <<>>]
  /\ run = [t \in Threads |-> "tick"] /\ left = [t \in Threads |-> {}]
  /\ out = [t \in Threads |-> NoBroadcast]
  /\ packets = [g \in Conns |-> 0]
  /\ seen = [g \in Conns |-> [t \in Threads |-> 0]]
  /\ done = [g \in Conns |-> [t \in Threads |-> 0]]
  /\ asked = {} /\ heard = {}
-----------------------------------------------------------------------------
(* Event loops: OnClientPacket and OnClientClose.                          *)

\* An ENTER without a room goes to room 1; other packets keep their room 0.
Destination(kind, r) == IF kind = "enter" /\ r = 0 THEN 1 ELSE r

OnClientPacket(g, kind, r, p, x) ==
  LET d == Destination(kind, r)  t == PickThread(d) IN
  /\ g \notin closed /\ io[g] = "idle" /\ packets[g] < MaxPackets[g]
  /\ Home[x] = Of[g]
  /\ packets' = [packets EXCEPT ![g] = @ + 1]
  /\ seen' = IF kind = "bare" THEN seen ELSE [seen EXCEPT ![g][t] = @ + 1]
  /\ hand' = [hand EXCEPT ![g] = [from |-> g, n |-> seen[g][t] + 1, kind |-> kind,
                                  room |-> d, player |-> p, client |-> IdOf[x]]]
  /\ asked' = IF kind \in {"enter", "reconnect"} THEN asked \cup {<<d, x>>} ELSE asked
  /\ heard' = heard \cup {x}
  /\ io' = [io EXCEPT ![g] = "bind"]
  /\ UNCHANGED <<closed, client_routes, connMtx, rooms, seats, tasks, run, left, out>>

\* Plausible bug: the room of an ENTER is not created any more.
AfterBindNoRoom(kind) == IF kind = "bare" THEN "idle" ELSE "push"

AfterBind(kind) ==
  CASE kind = "bare"  -> "idle"
    [] kind = "enter" -> "create"
    [] OTHER          -> "push"

BindClientRoute(g) ==
  /\ io[g] = "bind" /\ connMtx = None
  /\ client_routes' = [client_routes EXCEPT ![hand[g].client] = g]
  /\ io' = [io EXCEPT ![g] = AfterBind(hand[g].kind)]
  /\ hand' = IF AfterBind(hand[g].kind) = "idle" THEN [hand EXCEPT ![g] = None] ELSE hand
  /\ UNCHANGED <<closed, packets, seen, asked, heard, connMtx, rooms, seats, tasks, run, left, out>>

\* room_mtx_ of a thread: held while a message or the ticks run, and free while
\* it sleeps to the next frame.
Sleeping(t)    == run[t] = "tick" /\ left[t] = {}
RoomMtxFree(t) == run[t] = "drain" \/ Sleeping(t)

CreateRoom(g) ==
  /\ io[g] = "create" /\ RoomMtxFree(PickThread(hand[g].room))
  /\ rooms' = rooms \cup {hand[g].room}
  /\ io' = [io EXCEPT ![g] = "push"]
  /\ UNCHANGED <<closed, hand, packets, seen, asked, heard, client_routes, connMtx, seats,
                 tasks, run, left, out>>

PushMessage(g) ==
  /\ io[g] = "push"
  /\ msg_queue' = [msg_queue EXCEPT ![PickThread(hand[g].room)] = Append(@, hand[g])]
  /\ io' = [io EXCEPT ![g] = "idle"] /\ hand' = [hand EXCEPT ![g] = None]
  /\ UNCHANGED <<closed, packets, seen, asked, heard, client_routes, connMtx, rooms, seats,
                 local, done, run, left, out>>

\* Plausible bug: the routes over the connection stay.
OnClientCloseKeepsRoutes(g) ==
  /\ g \notin closed /\ io[g] = "idle" /\ connMtx = None
  /\ closed' = closed \cup {g}
  /\ UNCHANGED <<input, client_routes, connMtx, rooms, seats, tasks, run, left, out>>

\* The connection is destroyed afterwards. No room hears of it.
OnClientClose(g) ==
  /\ g \notin closed /\ io[g] = "idle" /\ connMtx = None
  /\ closed' = closed \cup {g}
  /\ client_routes' = [c \in ClientIds |->
                         IF client_routes[c] = g THEN None ELSE client_routes[c]]
  /\ UNCHANGED <<input, connMtx, rooms, seats, tasks, run, left, out>>
-----------------------------------------------------------------------------
(* Compute threads: RunLoop.                                               *)

\* Plausible bug: the queue is copied and not emptied.
SwapQueueCopied(t) ==
  /\ Sleeping(t) /\ run' = [run EXCEPT ![t] = "drain"]
  /\ local' = [local EXCEPT ![t] = msg_queue[t]]
  /\ UNCHANGED <<closed, input, client_routes, connMtx, rooms, seats, msg_queue, done, left, out>>

\* ProcessMessages, first half.
SwapQueue(t) ==
  /\ Sleeping(t) /\ run' = [run EXCEPT ![t] = "drain"]
  /\ local' = [local EXCEPT ![t] = msg_queue[t]]
  /\ msg_queue' = [msg_queue EXCEPT ![t] = <<>>]
  /\ UNCHANGED <<closed, input, client_routes, connMtx, rooms, seats, done, left, out>>

\* What a message may make of its player's seat: an ENTER is refused by a full
\* room, a player that leaves is removed, or waited for once the battle is on.
Seated(seat, m) ==
  CASE m.kind = "enter"     -> {seat, m.client}
    [] m.kind = "leave"     -> IF seat = None THEN {None} ELSE {None, Away}
    [] m.kind = "reconnect" -> IF seat = None THEN {None} ELSE {m.client}
    [] OTHER                -> {seat}

\* Plausible bug: everybody with a route is a target.
EverybodyHere(r) == {c \in ClientIds : client_routes[c] # None}

\* Who is connected, for the room.
Present(r) == {seats[r][p] : p \in Players} \ {None, Away}

\* Broadcasts a message may cause: an input goes to everybody, a player that
\* comes back is answered if there is a checkpoint.
Answers(m) ==
  CASE m.kind = "input"                                     -> {Present(m.room)}
    [] m.kind = "reconnect" /\ seats[m.room][m.player] # None -> {{}, {m.client}}
    [] OTHER                                                -> {{}}

\* OnMessage under room_mtx_, which is kept for the broadcast. A message for
\* a room nobody created is dropped.
OnMessage(t) ==
  /\ run[t] = "drain" /\ local[t] # <<>>
  /\ LET m == Head(local[t]) IN
     /\ done' = [done EXCEPT ![m.from][t] = @ + 1]
     /\ local' = [local EXCEPT ![t] = Tail(@)]
     /\ IF m.room \in rooms
        THEN /\ \E s \in Seated(seats[m.room][m.player], m) :
                   seats' = [seats EXCEPT ![m.room][m.player] = s]
             /\ \E to \in Answers(m) :
                   /\ out' = [out EXCEPT ![t] = Broadcast(m.room, to)]
                   /\ run' = [run EXCEPT ![t] = IF to = {} THEN "drain" ELSE "answer"]
        ELSE UNCHANGED <<seats, out, run>>
  /\ UNCHANGED <<closed, input, client_routes, connMtx, rooms, msg_queue, left>>

\* TickRooms takes room_mtx_ for all its rooms.
TickRooms(t) ==
  /\ run[t] = "drain" /\ local[t] = <<>>
  /\ run' = [run EXCEPT ![t] = "tick"]
  /\ left' = [left EXCEPT ![t] = {r \in rooms : PickThread(r) = t}]
  /\ UNCHANGED <<closed, input, client_routes, connMtx, rooms, seats, tasks, out>>

\* A tick may give up players whose wait has run out, connected again or not
\* (see BattleRoom), and may broadcast; one broadcast stands for all of a tick.
Tick(t, r) ==
  /\ run[t] = "tick" /\ r \in left[t]
  /\ left' = [left EXCEPT ![t] = @ \ {r}]
  /\ \E gone \in SUBSET {p \in Players : seats[r][p] # None} :
        seats' = [seats EXCEPT ![r] = [p \in Players |-> IF p \in gone THEN None ELSE @[p]]]
  /\ \E to \in {{}, Present(r)} :
        /\ out' = [out EXCEPT ![t] = Broadcast(r, to)]
        /\ run' = [run EXCEPT ![t] = IF to = {} THEN "tick" ELSE "ticked"]
  /\ UNCHANGED <<closed, input, client_routes, connMtx, rooms, tasks>>

Broadcasting(t) == run[t] \in {"answer", "ticked"}

\* OnRoomBroadcast: conn_mtx_ inside room_mtx_.
LockRoutes(t) ==
  /\ Broadcasting(t) /\ connMtx = None
  /\ connMtx' = t
  /\ UNCHANGED <<closed, input, client_routes, rooms, seats, tasks, run, left, out>>

\* The clients a broadcast reaches, and over which connection.
Reached(t) == {c \in out[t].to : client_routes[c] # None}

\* Plausible bug: conn_mtx_ stays locked when there is no route to anybody.
SendRoutedKeepsLock(t) ==
  /\ connMtx = t
  /\ connMtx' = IF Reached(t) = {} THEN t ELSE None
  /\ run' = [run EXCEPT ![t] = IF @ = "ticked" THEN "tick" ELSE "drain"]
  /\ out' = [out EXCEPT ![t] = NoBroadcast]
  /\ UNCHANGED <<closed, input, client_routes, rooms, seats, tasks, left>>

\* SendPacket on the route of every target that has one; the rest is logged.
SendRouted(t) ==
  /\ connMtx = t /\ connMtx' = None
  /\ run' = [run EXCEPT ![t] = IF @ = "ticked" THEN "tick" ELSE "drain"]
  /\ out' = [out EXCEPT ![t] = NoBroadcast]
  /\ UNCHANGED <<closed, input, client_routes, rooms, seats, tasks, left>>
-----------------------------------------------------------------------------
Packet(g) ==
  \E s \in Sent[g], p \in Players, x \in Clients : OnClientPacket(g, s[1], s[2], p, x)

Handling(g) == BindClientRoute(g) \/ CreateRoom(g) \/ PushMessage(g)

Compute(t) ==
  \/ SwapQueue(t) \/ OnMessage(t) \/ TickRooms(t)
  \/ \E r \in Rooms : Tick(t, r)
  \/ LockRoutes(t) \/ SendRouted(t)

Next ==
  \/ \E g \in Conns : Packet(g) \/ Handling(g) \/ OnClientClose(g)
  \/ \E t \in Threads : Compute(t)

\* Threads run, and a mutex is given to everybody who waits for it in the end.
\* Gateways need not send anything.
Fairness ==
  /\ \A g \in Conns : SF_vars(Handling(g))
  /\ \A t \in Threads : SF_vars(Compute(t))

Spec == Init /\ [][Next]_vars /\ Fairness
-----------------------------------------------------------------------------
\* Every variable keeps its type: queues hold messages for their own thread,
\* and rooms know players by client ids.
TypeOK ==
  /\ closed \subseteq Conns
  /\ io \in [Conns -> {"idle", "bind", "create", "push"}]
  /\ hand \in [Conns -> Message \cup {None}]
  /\ client_routes \in [ClientIds -> Conns \cup {None}]
  /\ connMtx \in Threads \cup {None}
  /\ rooms \subseteq Rooms
  /\ seats \in [Rooms -> [Players -> ClientIds \cup {None, Away}]]
  /\ msg_queue \in [Threads -> Seq(Message)] /\ local \in [Threads -> Seq(Message)]
  /\ run \in [Threads -> {"drain", "answer", "tick", "ticked"}]
  /\ left \in [Threads -> SUBSET Rooms]
  /\ out \in [Threads -> [room : Rooms \cup {None}, to : SUBSET ClientIds]]
  /\ packets \in [Conns -> Nat]
  /\ seen \in [Conns -> [Threads -> Nat]] /\ done \in [Conns -> [Threads -> Nat]]
  /\ asked \subseteq Rooms \X Clients /\ heard \subseteq Clients

\* The message of g that is on its way to thread t, if there is one.
Held(g, t) ==
  IF io[g] # "idle" /\ hand[g].kind # "bare" /\ PickThread(hand[g].room) = t
  THEN <<hand[g]>> ELSE <<>>

\* The messages of g in s are those with the numbers above a up to b, each of
\* them once and in this order.
InTurn(s, g, a, b) ==
  LET mine == {i \in 1..Len(s) : s[i].from = g} IN
  /\ a <= b
  /\ {s[i].n : i \in mine} = (a + 1)..b
  /\ \A i, j \in mine : i < j => s[i].n < s[j].n

\* "All messages of a room go to one thread": every message a gateway sent is
\* handled once and in the order in which it was sent, whichever event loops
\* push and whenever the compute thread swaps its queue: what a thread has still
\* to handle for a connection follows what it has handled, without a gap, up to
\* what the connection has sent.
HandledInOrder ==
  \A g \in Conns, t \in Threads :
    InTurn((local[t] \o msg_queue[t]) \o Held(g, t), g, done[g][t], seen[g][t])

\* The room of an ENTER exists by the time the compute thread gets to it,
\* although event loops and compute thread share only the queue and rooms_.
EnterFindsRoom ==
  \A t \in Threads : \A i \in 1..Len(local[t]) :
    local[t][i].kind = "enter" => local[t][i].room \in rooms

\* Routes hold plain pointers: a connection that OnClientClose has dealt with,
\* and that is destroyed next, is on no route, so no broadcast touches it.
RoutesAlive == \A c \in ClientIds : client_routes[c] \notin closed

\* A broadcast of a room goes only to ids under which a client asked that room
\* for a seat, over a connection of the gateway of that client. A route is found
\* by the id alone, so the latter holds of a client as long as no other that
\* was given the same id has been heard of.
Alone(x) == \A y \in heard : IdOf[y] = IdOf[x] => y = x

OnlyMembersReached ==
  \A t \in Threads : connMtx = t =>
    \A c \in Reached(t) : \E x \in Clients :
      /\ IdOf[x] = c /\ <<out[t].room, x>> \in asked
      /\ Alone(x) => Home[x] = Of[client_routes[c]]

\* Event loops and compute threads do not block each other for ever over
\* conn_mtx_ and room_mtx_: whatever was sent is handled.
Behind == \E g \in Conns, t \in Threads : done[g][t] < seen[g][t]
EveryMessageHandled == Behind ~> ~Behind
=============================================================================
