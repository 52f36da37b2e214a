--------------------------- MODULE RealtimeProofs ---------------------------
(***************************************************************************)
(* Theorems about Realtime for any gateways, connections, clients, players *)
(* and rooms, any number of compute threads and any number of packets.     *)
(***************************************************************************)
EXTENDS Realtime, TLAPS

\* An event loop at work has a packet of its own, live connection.
Busy ==
  \A g \in Conns : io[g] # "idle" =>
    hand[g] \in Message /\ hand[g].from = g /\ g \notin closed

\* Whoever wants a seat has asked for it, where a is what was asked.
Honest(m, a) ==
  m.kind \in {"enter", "reconnect"} =>
    \E x \in Clients : IdOf[x] = m.client /\ <<m.room, x>> \in a

\* Somebody heard of has id c and is a client of gateway a.
Known == {k \in ClientIds \X Gateways : \E x \in heard : IdOf[x] = k[1] /\ Home[x] = k[2]}
Comes(c, a) == <<c, a>> \in Known

\* A message for a compute thread: the room of an ENTER is among the rooms rs.
Queued(m, a, rs) == Honest(m, a) /\ (m.kind = "enter" => m.room \in rs)

Hands ==
  \A g \in Conns : /\ io[g] # "idle" => Honest(hand[g], asked) /\ Comes(hand[g].client, Of[g])
                   /\ io[g] = "push" => Queued(hand[g], asked, rooms)
InQueue ==
  \A t \in Threads : \A i \in 1..Len(msg_queue[t]) : Queued(msg_queue[t][i], asked, rooms)
InLocal ==
  \A t \in Threads : \A i \in 1..Len(local[t]) : Queued(local[t][i], asked, rooms)
Messages == Hands /\ InQueue /\ InLocal

\* Everybody who asked was heard of, and a route leads to a gateway with such a client.
Owned ==
  /\ \A r \in Rooms, x \in Clients : <<r, x>> \in asked => x \in heard
  /\ \A c \in ClientIds : client_routes[c] \in Conns => Comes(c, Of[client_routes[c]])

\* A client with id c asked for room r.
Wants == {w \in Rooms \X ClientIds : \E x \in Clients : IdOf[x] = w[2] /\ <<w[1], x>> \in asked}
MayHear(r, c) == <<r, c>> \in Wants

\* Seats and broadcasts under way are those of clients that asked.
Seats == \A r \in Rooms, p \in Players : seats[r][p] \in ClientIds => MayHear(r, seats[r][p])
Outs  == \A t \in Threads : \A c \in out[t].to : out[t].room \in Rooms /\ MayHear(out[t].room, c)

Inv == TypeOK /\ Busy /\ RoutesAlive /\ Messages /\ Owned /\ Seats /\ Outs
-----------------------------------------------------------------------------
\* A room has a compute thread.
LEMMA ThreadOfRoom == ASSUME NEW r \in Rooms PROVE PickThread(r) \in Threads
<1>1. r \in Nat /\ ThreadCount \in Nat /\ ThreadCount > 0
  BY RealtimeAssumption
<1>2. r % ThreadCount \in 0..(ThreadCount - 1)
  BY <1>1
<1>3. QED
  BY <1>2 DEF PickThread, Threads

\* A server that has just started has no routes, seats or messages.
LEMMA InvInit == Init => Inv
<1> SUFFICES ASSUME Init PROVE Inv
  OBVIOUS
<1> USE RealtimeAssumption DEF Init
<1>1. TypeOK
  BY DEF TypeOK, NoBroadcast
<1>2. Busy /\ RoutesAlive /\ Owned
  BY DEF Busy, RoutesAlive, Owned
<1>3. Messages /\ Seats /\ Outs
  BY DEF Messages, Hands, InQueue, InLocal, Seats, Outs, NoBroadcast
<1>4. QED
  BY <1>1, <1>2, <1>3 DEF Inv

\* What was asked and who was heard decide who may hear a room and who is known.
LEMMA Kept ==
  /\ UNCHANGED asked => UNCHANGED Wants
  /\ UNCHANGED heard => UNCHANGED Known
BY DEF Wants, Known

\* What was asked and which rooms there are only grows: seats, broadcasts and
\* messages that stay as they are stay right.
LEMMA Grows ==
  ASSUME Inv, TypeOK', asked \subseteq asked', heard \subseteq heard', rooms \subseteq rooms'
  PROVE  /\ \A m : (Honest(m, asked) => Honest(m, asked'))
                 /\ (Queued(m, asked, rooms) => Queued(m, asked', rooms'))
         /\ UNCHANGED seats => Seats'
         /\ UNCHANGED out => Outs'
         /\ UNCHANGED msg_queue => InQueue'
         /\ UNCHANGED local => InLocal'
         /\ UNCHANGED <<io, hand>> => Hands'
         /\ Wants \subseteq Wants' /\ Known \subseteq Known'
<1>0. Wants \subseteq Wants' /\ Known \subseteq Known'
  BY DEF Wants, Known
<1>1. \A m : (Honest(m, asked) => Honest(m, asked'))
           /\ (Queued(m, asked, rooms) => Queued(m, asked', rooms'))
  BY DEF Honest, Queued
<1>2. UNCHANGED seats => Seats'
  BY <1>0 DEF Inv, Seats, MayHear
<1>3. UNCHANGED out => Outs'
  BY <1>0 DEF Inv, Outs, MayHear
<1>4. (UNCHANGED msg_queue => InQueue') /\ (UNCHANGED local => InLocal')
  BY <1>1 DEF Inv, Messages, InQueue, InLocal
<1>5. UNCHANGED <<io, hand>> => Hands'
  BY <1>0, <1>1 DEF Inv, Messages, Hands, Comes
<1>6. QED
  BY <1>0, <1>1, <1>2, <1>3, <1>4, <1>5
-----------------------------------------------------------------------------
\* A packet arrives.
LEMMA PacketStep ==
  ASSUME Inv, NEW g \in Conns, NEW kind \in Kinds, NEW r \in Rooms, NEW p \in Players,
         NEW x \in Clients, OnClientPacket(g, kind, r, p, x)
  PROVE  Inv'
<1> DEFINE d == Destination(kind, r)
           t == PickThread(d)
           m == [from |-> g, n |-> seen[g][t] + 1, kind |-> kind, room |-> d,
                 player |-> p, client |-> IdOf[x]]
<1>1. d \in Rooms /\ t \in Threads
  BY ThreadOfRoom, RealtimeAssumption DEF Destination
<1>2. /\ g \notin closed /\ io[g] = "idle" /\ Home[x] = Of[g]
      /\ packets' = [packets EXCEPT ![g] = @ + 1]
      /\ seen' = IF kind = "bare" THEN seen ELSE [seen EXCEPT ![g][t] = @ + 1]
      /\ hand' = [hand EXCEPT ![g] = m]
      /\ asked' = IF kind \in {"enter", "reconnect"} THEN asked \cup {<<d, x>>} ELSE asked
      /\ heard' = heard \cup {x}
      /\ io' = [io EXCEPT ![g] = "bind"]
      /\ UNCHANGED <<closed, client_routes, connMtx, rooms, seats, msg_queue, local, done,
                     run, left, out>>
  BY DEF OnClientPacket, tasks
<1> HIDE DEF d, t
<1>3. m \in Message /\ IdOf[x] \in ClientIds
  BY <1>1, RealtimeAssumption DEF Message, Inv, TypeOK
<1> HIDE DEF m
<1>4. TypeOK'
  <2>1. seen' \in [Conns -> [Threads -> Nat]] /\ packets' \in [Conns -> Nat]
    BY <1>1, <1>2 DEF Inv, TypeOK
  <2>2. asked' \subseteq Rooms \X Clients
    <3>1. <<d, x>> \in Rooms \X Clients
      BY <1>1
    <3>2. asked' \subseteq asked \cup {<<d, x>>}
      BY <1>2
    <3>3. QED
      BY <3>1, <3>2 DEF Inv, TypeOK
  <2>3. hand' \in [Conns -> Message \cup {None}] /\ io' \in [Conns -> {"idle", "bind", "create", "push"}]
    BY <1>2, <1>3 DEF Inv, TypeOK
  <2>4. QED
    BY <1>2, <2>1, <2>2, <2>3 DEF Inv, TypeOK
<1>5. asked \subseteq asked' /\ heard \subseteq heard' /\ rooms \subseteq rooms'
  BY <1>2
<1>6. m.from = g /\ m.client = IdOf[x] /\ m.kind = kind /\ m.room = d
  BY DEF m
<1>7. Honest(m, asked') /\ <<m.client, Of[g]>> \in Known'
  <2>1. Honest(m, asked')
    BY <1>2, <1>6 DEF Honest
  <2>2. Of[g] \in Gateways /\ x \in heard'
    BY <1>2, RealtimeAssumption
  <2>3. QED
    BY <1>2, <1>3, <1>6, <2>1, <2>2 DEF Known
<1>8. Busy'
  BY <1>2, <1>3, <1>6 DEF Busy, Inv, TypeOK
<1>9. Hands'
  <2>1. ASSUME NEW h \in Conns, h # g
        PROVE  io'[h] = io[h] /\ hand'[h] = hand[h]
    BY <2>1, <1>2 DEF Inv, TypeOK
  <2>2. io'[g] = "bind" /\ hand'[g] = m
    BY <1>2 DEF Inv, TypeOK
  <2>3. \A h \in Conns : io'[h] = "push" => h # g
    BY <2>2
  <2>4. ASSUME NEW h \in Conns, io'[h] # "idle"
        PROVE  Honest(hand'[h], asked') /\ <<hand'[h].client, Of[h]>> \in Known'
    BY <2>1, <2>2, <2>4, <1>4, <1>5, <1>7, Grows DEF Inv, Messages, Hands, Comes
  <2>5. QED
    BY <2>1, <2>3, <2>4, <1>4, <1>5, Grows DEF Inv, Messages, Hands, Comes
<1>10. Owned' /\ RoutesAlive'
  <2>1. Known \subseteq Known'
    BY <1>4, <1>5, Grows
  <2>2. QED
    BY <1>2, <2>1 DEF Inv, Owned, Comes, RoutesAlive, TypeOK
<1>11. Seats' /\ Outs' /\ InQueue' /\ InLocal'
  BY <1>2, <1>4, <1>5, Grows
<1>12. QED
  BY <1>4, <1>8, <1>9, <1>10, <1>11 DEF Inv, Messages

\* The rest of OnClientPacket and the end of a connection.
LEMMA EventLoopSteps ==
  ASSUME Inv, NEW g \in Conns, Handling(g) \/ OnClientClose(g)
  PROVE  Inv'
<1>1. CASE BindClientRoute(g)
  <2> USE <1>1 DEF BindClientRoute, tasks
  <2>1. hand[g] \in Message /\ hand[g].client \in ClientIds /\ g \notin closed
    BY DEF Inv, Busy, Message
  <2>2. Honest(hand[g], asked)
    BY DEF Inv, Messages, Hands
  <2>3. /\ AfterBind(hand[g].kind) \in {"idle", "create", "push"}
        /\ AfterBind(hand[g].kind) = "push" => hand[g].kind # "enter"
    BY <2>1 DEF AfterBind, Message, Kinds
  <2>4. TypeOK'
    BY <2>1, <2>3 DEF Inv, TypeOK
  <2>5. \A h \in Conns : io'[h] # "idle" => hand'[h] = hand[h] /\ io[h] # "idle"
    BY <2>3 DEF Inv, TypeOK
  <2>6. Busy'
    BY <2>5 DEF Inv, Busy
  <2>7. Hands'
    <3>1. \A h \in Conns : io'[h] = "push" => h = g \/ io[h] = "push"
      BY DEF Inv, TypeOK
    <3>2. io'[g] = "push" => Queued(hand[g], asked, rooms)
      BY <2>2, <2>3 DEF Queued, Inv, TypeOK
    <3>3. QED
      BY <3>1, <3>2, <2>5, Kept DEF Inv, Messages, Hands, Comes
  <2>8. RoutesAlive'
    BY <2>1 DEF Inv, RoutesAlive, TypeOK
  <2>9. Owned'
    <3>2. Comes(hand[g].client, Of[g])
      BY DEF Inv, Messages, Hands
    <3>3. \A c \in ClientIds : client_routes'[c] = IF c = hand[g].client THEN g ELSE client_routes[c]
      BY <2>1 DEF Inv, TypeOK
    <3>4. QED
      BY <3>2, <3>3, Kept DEF Inv, Owned, Comes
  <2>10. Seats' /\ Outs' /\ InQueue' /\ InLocal'
    BY <2>4, Grows
  <2>11. QED
    BY <2>4, <2>6, <2>7, <2>8, <2>9, <2>10 DEF Inv, Messages
<1>2. CASE CreateRoom(g)
  <2> USE <1>2 DEF CreateRoom, tasks
  <2>1. hand[g] \in Message /\ hand[g].room \in Rooms
    BY DEF Inv, Busy, Message
  <2>2. TypeOK'
    BY <2>1 DEF Inv, TypeOK
  <2>3. Busy' /\ RoutesAlive' /\ Owned'
    BY Kept DEF Inv, Busy, RoutesAlive, Owned, Comes, TypeOK
  <2>4. Hands'
    <3>1. \A h \in Conns : h # g => io'[h] = io[h]
      BY DEF Inv, TypeOK
    <3>2. Honest(hand[g], asked) /\ Queued(hand[g], asked, rooms')
      BY DEF Inv, Messages, Hands, Queued
    <3>3. QED
      BY <2>2, <3>1, <3>2, Grows, Kept DEF Inv, Messages, Hands, Comes
  <2>5. Seats' /\ Outs' /\ InQueue' /\ InLocal'
    BY <2>2, Grows
  <2>6. QED
    BY <2>2, <2>3, <2>4, <2>5 DEF Inv, Messages
<1>3. CASE PushMessage(g)
  <2> USE <1>3 DEF PushMessage
  <2> DEFINE t == PickThread(hand[g].room)
  <2>1. hand[g] \in Message /\ t \in Threads
    <3>1. hand[g] \in Message /\ hand[g].room \in Rooms
      BY DEF Inv, Busy, Message
    <3>2. QED
      BY <3>1, ThreadOfRoom
  <2>2. Queued(hand[g], asked, rooms)
    BY DEF Inv, Messages, Hands
  <2> HIDE DEF t
  <2>3. msg_queue' = [msg_queue EXCEPT ![t] = Append(@, hand[g])]
    BY DEF t
  <2>4. TypeOK'
    <3>1. msg_queue' \in [Threads -> Seq(Message)]
      <4>1. msg_queue \in [Threads -> Seq(Message)]
        BY DEF Inv, TypeOK
      <4>2. Append(msg_queue[t], hand[g]) \in Seq(Message)
        BY <4>1, <2>1
      <4>3. QED
        BY <4>1, <4>2, <2>3
    <3>2. hand' \in [Conns -> Message \cup {None}] /\ io' \in [Conns -> {"idle", "bind", "create", "push"}]
      BY DEF Inv, TypeOK
    <3>3. QED
      BY <3>1, <3>2 DEF Inv, TypeOK
  <2>5. \A h \in Conns : io'[h] # "idle" => hand'[h] = hand[h] /\ io'[h] = io[h]
    BY DEF Inv, TypeOK
  <2>6. Busy' /\ Hands'
    BY <2>5, Kept DEF Inv, Busy, Messages, Hands, Comes
  <2>7. RoutesAlive' /\ Owned'
    BY Kept DEF Inv, RoutesAlive, Owned, Comes
  <2>8. InQueue'
    <3> SUFFICES ASSUME NEW u \in Threads, NEW i \in 1..Len(msg_queue'[u])
                 PROVE  Queued(msg_queue'[u][i], asked, rooms)
      BY DEF InQueue
    <3>1. CASE u = t /\ i = Len(msg_queue[t]) + 1
      BY <3>1, <2>1, <2>2, <2>3 DEF Inv, TypeOK
    <3>2. CASE ~(u = t /\ i = Len(msg_queue[t]) + 1)
      <4>1. i \in 1..Len(msg_queue[u]) /\ msg_queue'[u][i] = msg_queue[u][i]
        BY <3>2, <2>1, <2>3 DEF Inv, TypeOK
      <4>2. QED
        BY <4>1 DEF Inv, Messages, InQueue
    <3>3. QED
      BY <3>1, <3>2
  <2>9. Seats' /\ Outs' /\ InLocal'
    BY <2>4, Grows
  <2>10. QED
    BY <2>4, <2>6, <2>7, <2>8, <2>9 DEF Inv, Messages
<1>4. CASE OnClientClose(g)
  <2> USE <1>4 DEF OnClientClose, input, tasks
  <2>1. TypeOK'
    BY DEF Inv, TypeOK
  <2>2. Busy' /\ RoutesAlive' /\ Owned'
    BY RealtimeAssumption, Kept DEF Inv, Busy, RoutesAlive, Owned, Comes, TypeOK
  <2>3. Hands' /\ Seats' /\ Outs' /\ InQueue' /\ InLocal'
    BY <2>1, Grows
  <2>4. QED
    BY <2>1, <2>2, <2>3 DEF Inv, Messages
<1>5. QED
  BY <1>1, <1>2, <1>3, <1>4 DEF Handling

\* Whoever has a seat may hear the room.
LEMMA PresentAsked ==
  ASSUME Inv, NEW r \in Rooms
  PROVE  Present(r) \subseteq ClientIds /\ \A c \in Present(r) : MayHear(r, c)
BY DEF Inv, TypeOK, Seats, Present

\* A message is handled.
LEMMA MessageStep ==
  ASSUME Inv, NEW t \in Threads, OnMessage(t)
  PROVE  Inv'
<1> DEFINE m == Head(local[t])
<1>1. m \in Message /\ Queued(m, asked, rooms)
  <2>1. local[t] \in Seq(Message) /\ local[t] # <<>>
    BY DEF OnMessage, Inv, TypeOK
  <2>2. m = local[t][1] /\ 1 \in 1..Len(local[t])
    BY <2>1
  <2>3. m \in Message
    BY <2>1, <2>2
  <2>4. QED
    BY <2>2, <2>3 DEF Inv, Messages, InLocal
<1>2. /\ local[t] # <<>>
      /\ done' = [done EXCEPT ![m.from][t] = @ + 1]
      /\ local' = [local EXCEPT ![t] = Tail(@)]
      /\ \/ /\ m.room \in rooms
            /\ \E s \in Seated(seats[m.room][m.player], m) :
                 seats' = [seats EXCEPT ![m.room][m.player] = s]
            /\ \E to \in Answers(m) :
                 /\ out' = [out EXCEPT ![t] = Broadcast(m.room, to)]
                 /\ run' = [run EXCEPT ![t] = IF to = {} THEN "drain" ELSE "answer"]
         \/ UNCHANGED <<seats, out, run>>
      /\ UNCHANGED <<closed, io, hand, packets, seen, asked, heard, client_routes, connMtx, rooms,
                     msg_queue, left>>
  BY DEF OnMessage, input
<1> HIDE DEF m
<1>3. /\ m.from \in Conns /\ m.room \in Rooms /\ m.player \in Players /\ m.client \in ClientIds
      /\ m.kind \in Kinds
  BY <1>1 DEF Message
<1>4. m.kind \in {"enter", "reconnect"} => MayHear(m.room, m.client)
  BY <1>1, <1>3 DEF Queued, Honest, MayHear, Wants
<1>5. \A s \in Seated(seats[m.room][m.player], m) :
         \/ s \in {None, Away} \/ s = seats[m.room][m.player]
         \/ s = m.client /\ MayHear(m.room, m.client)
  BY <1>3, <1>4 DEF Seated, Kinds
<1>6. \A to \in Answers(m) :
         to \subseteq ClientIds /\ \A c \in to : MayHear(m.room, c)
  BY <1>3, <1>4, PresentAsked DEF Answers, Kinds
<1>7. seats' \in [Rooms -> [Players -> ClientIds \cup {None, Away}]] /\ Seats'
  <2>1. CASE UNCHANGED seats
    BY <2>1, <1>2, Kept DEF Inv, TypeOK, Seats, MayHear
  <2>2. ASSUME NEW s \in Seated(seats[m.room][m.player], m),
               seats' = [seats EXCEPT ![m.room][m.player] = s]
        PROVE  seats' \in [Rooms -> [Players -> ClientIds \cup {None, Away}]] /\ Seats'
    <3>1. seats[m.room][m.player] \in ClientIds \cup {None, Away}
      BY <1>3 DEF Inv, TypeOK
    <3>2. s \in ClientIds \cup {None, Away} /\ (s \in ClientIds => MayHear(m.room, s))
      <4>1. CASE s \in {None, Away}
        BY <4>1, RealtimeAssumption
      <4>2. CASE s = seats[m.room][m.player]
        BY <4>2, <3>1, <1>3 DEF Inv, Seats
      <4>3. CASE s = m.client /\ MayHear(m.room, m.client)
        BY <4>3, <1>3
      <4>4. QED
        BY <4>1, <4>2, <4>3, <1>5
    <3>3. seats' \in [Rooms -> [Players -> ClientIds \cup {None, Away}]]
      BY <2>2, <3>2, <1>3 DEF Inv, TypeOK
    <3>4. \A r \in Rooms, p \in Players :
             seats'[r][p] = IF r = m.room /\ p = m.player THEN s ELSE seats[r][p]
      BY <2>2, <1>3 DEF Inv, TypeOK
    <3>5. Seats'
      BY <3>2, <3>4, <1>2, Kept DEF Inv, Seats, MayHear
    <3>6. QED
      BY <3>3, <3>5
  <2>3. QED
    BY <1>2, <2>1, <2>2
<1>8. /\ out' \in [Threads -> [room : Rooms \cup {None}, to : SUBSET ClientIds]] /\ Outs'
      /\ run' \in [Threads -> {"drain", "answer", "tick", "ticked"}]
  <2>1. CASE UNCHANGED <<out, run>>
    BY <2>1, <1>2, Kept DEF Inv, TypeOK, Outs, MayHear
  <2>2. ASSUME NEW to \in Answers(m), out' = [out EXCEPT ![t] = Broadcast(m.room, to)],
               run' = [run EXCEPT ![t] = IF to = {} THEN "drain" ELSE "answer"]
        PROVE  /\ out' \in [Threads -> [room : Rooms \cup {None}, to : SUBSET ClientIds]] /\ Outs'
               /\ run' \in [Threads -> {"drain", "answer", "tick", "ticked"}]
    <3>1. /\ Broadcast(m.room, to) \in [room : Rooms \cup {None}, to : SUBSET ClientIds]
          /\ \A c \in Broadcast(m.room, to).to :
               Broadcast(m.room, to).room = m.room /\ MayHear(m.room, c)
      BY <1>3, <1>6 DEF Broadcast, NoBroadcast
    <3>2. out' \in [Threads -> [room : Rooms \cup {None}, to : SUBSET ClientIds]]
      BY <2>2, <3>1 DEF Inv, TypeOK
    <3>3. \A u \in Threads : out'[u] = IF u = t THEN Broadcast(m.room, to) ELSE out[u]
      BY <2>2 DEF Inv, TypeOK
    <3>4. Outs'
      BY <3>1, <3>3, <1>2, <1>3, Kept DEF Inv, Outs, MayHear
    <3>5. run' \in [Threads -> {"drain", "answer", "tick", "ticked"}]
      BY <2>2 DEF Inv, TypeOK
    <3>6. QED
      BY <3>2, <3>4, <3>5
  <2>3. QED
    BY <1>2, <2>1, <2>2
<1>9. local' \in [Threads -> Seq(Message)] /\ InLocal'
  <2>1. local[t] \in Seq(Message) /\ local[t] # <<>>
    BY <1>2 DEF Inv, TypeOK
  <2>2. Tail(local[t]) \in Seq(Message)
    BY <2>1
  <2>3. local' \in [Threads -> Seq(Message)]
    BY <1>2, <2>2 DEF Inv, TypeOK
  <2>4. ASSUME NEW i \in 1..Len(Tail(local[t]))
        PROVE  i + 1 \in 1..Len(local[t]) /\ Tail(local[t])[i] = local[t][i + 1]
    BY <2>1
  <2>5. \A u \in Threads : local'[u] = IF u = t THEN Tail(local[t]) ELSE local[u]
    BY <1>2 DEF Inv, TypeOK
  <2>6. InLocal'
    BY <2>4, <2>5, <1>2 DEF Inv, Messages, InLocal
  <2>7. QED
    BY <2>3, <2>6
<1>10. TypeOK'
  <2>1. done' \in [Conns -> [Threads -> Nat]]
    BY <1>2, <1>3 DEF Inv, TypeOK
  <2>2. QED
    BY <1>2, <1>7, <1>8, <1>9, <2>1 DEF Inv, TypeOK
<1>11. Busy' /\ RoutesAlive' /\ Owned'
  BY <1>2, Kept DEF Inv, Busy, RoutesAlive, Owned, Comes
<1>12. Hands' /\ InQueue'
  BY <1>2, <1>10, Grows
<1>13. QED
  BY <1>7, <1>8, <1>9, <1>10, <1>11, <1>12 DEF Inv, Messages

\* A room is ticked.
LEMMA TickStep ==
  ASSUME Inv, NEW t \in Threads, NEW r \in Rooms, Tick(t, r)
  PROVE  Inv'
<1>1. PICK gone \in SUBSET {p \in Players : seats[r][p] # None} :
         seats' = [seats EXCEPT ![r] = [p \in Players |-> IF p \in gone THEN None ELSE @[p]]]
  BY DEF Tick
<1>2. PICK to \in {{}, Present(r)} :
         /\ out' = [out EXCEPT ![t] = Broadcast(r, to)]
         /\ run' = [run EXCEPT ![t] = IF to = {} THEN "tick" ELSE "ticked"]
  BY DEF Tick
<1>3. /\ left' = [left EXCEPT ![t] = @ \ {r}]
      /\ UNCHANGED <<closed, io, hand, packets, seen, asked, heard, client_routes, connMtx, rooms,
                     msg_queue, local, done>>
  BY DEF Tick, input, tasks
<1>4. seats' \in [Rooms -> [Players -> ClientIds \cup {None, Away}]]
  BY <1>1 DEF Inv, TypeOK
<1>5. \A q \in Rooms, p \in Players : seats'[q][p] = None \/ seats'[q][p] = seats[q][p]
  BY <1>1 DEF Inv, TypeOK
<1>6. Seats'
  BY <1>3, <1>5, RealtimeAssumption, Kept DEF Inv, Seats, MayHear
<1>7. /\ Broadcast(r, to) \in [room : Rooms \cup {None}, to : SUBSET ClientIds]
      /\ \A c \in Broadcast(r, to).to : Broadcast(r, to).room = r /\ MayHear(r, c)
  BY PresentAsked DEF Broadcast, NoBroadcast
<1>8. TypeOK'
  <2>1. out' \in [Threads -> [room : Rooms \cup {None}, to : SUBSET ClientIds]]
    BY <1>2, <1>7 DEF Inv, TypeOK
  <2>2. run' \in [Threads -> {"drain", "answer", "tick", "ticked"}] /\ left' \in [Threads -> SUBSET Rooms]
    BY <1>2, <1>3 DEF Inv, TypeOK
  <2>3. QED
    BY <1>3, <1>4, <2>1, <2>2 DEF Inv, TypeOK
<1>9. \A u \in Threads : out'[u] = IF u = t THEN Broadcast(r, to) ELSE out[u]
  BY <1>2 DEF Inv, TypeOK
<1>10. Outs'
  BY <1>3, <1>7, <1>9, Kept DEF Inv, Outs, MayHear
<1>11. Busy' /\ RoutesAlive' /\ Owned'
  BY <1>3, Kept DEF Inv, Busy, RoutesAlive, Owned, Comes
<1>12. Hands' /\ InQueue' /\ InLocal'
  BY <1>3, <1>8, Grows
<1>13. QED
  BY <1>6, <1>8, <1>10, <1>11, <1>12 DEF Inv, Messages

\* The other steps of a compute thread.
LEMMA LoopSteps ==
  ASSUME Inv, NEW t \in Threads,
         SwapQueue(t) \/ TickRooms(t) \/ LockRoutes(t) \/ SendRouted(t)
  PROVE  Inv'
<1>1. CASE SwapQueue(t)
  <2> USE <1>1 DEF SwapQueue, input
  <2>1. TypeOK'
    BY DEF Inv, TypeOK
  <2>2. InQueue' /\ InLocal'
    BY DEF Inv, TypeOK, Messages, InQueue, InLocal
  <2>3. Busy' /\ RoutesAlive' /\ Owned'
    BY Kept DEF Inv, Busy, RoutesAlive, Owned, Comes
  <2>4. Hands' /\ Seats' /\ Outs'
    BY <2>1, Grows
  <2>5. QED
    BY <2>1, <2>2, <2>3, <2>4 DEF Inv, Messages
<1>2. CASE TickRooms(t) \/ LockRoutes(t)
  <2> USE <1>2 DEF TickRooms, LockRoutes, input, tasks
  <2>1. TypeOK'
    BY DEF Inv, TypeOK
  <2>2. Busy' /\ RoutesAlive' /\ Owned'
    BY Kept DEF Inv, Busy, RoutesAlive, Owned, Comes
  <2>3. Hands' /\ InQueue' /\ InLocal' /\ Seats' /\ Outs'
    BY <2>1, Grows
  <2>4. QED
    BY <2>1, <2>2, <2>3 DEF Inv, Messages
<1>3. CASE SendRouted(t)
  <2> USE <1>3 DEF SendRouted, input, tasks
  <2>1. TypeOK'
    BY DEF Inv, TypeOK, NoBroadcast
  <2>2. Outs'
    BY Kept DEF Inv, TypeOK, Outs, NoBroadcast, MayHear
  <2>3. Busy' /\ RoutesAlive' /\ Owned'
    BY Kept DEF Inv, Busy, RoutesAlive, Owned, Comes
  <2>4. Hands' /\ InQueue' /\ InLocal' /\ Seats'
    BY <2>1, Grows
  <2>5. QED
    BY <2>1, <2>2, <2>3, <2>4 DEF Inv, Messages
<1>4. QED
  BY <1>1, <1>2, <1>3
-----------------------------------------------------------------------------
\* Inv is inductive.
LEMMA Inductive == Spec => []Inv
<1>1. Inv /\ [Next]_vars => Inv'
  <2> SUFFICES ASSUME Inv, [Next]_vars PROVE Inv'
    OBVIOUS
  <2>1. ASSUME NEW g \in Conns, Packet(g) PROVE Inv'
    <3>1. PICK s \in Sent[g], p \in Players, x \in Clients : OnClientPacket(g, s[1], s[2], p, x)
      BY <2>1 DEF Packet
    <3>2. s[1] \in Kinds /\ s[2] \in Rooms
      BY RealtimeAssumption
    <3>3. QED
      BY <3>1, <3>2, PacketStep
  <2>2. ASSUME NEW g \in Conns, Handling(g) \/ OnClientClose(g) PROVE Inv'
    BY <2>2, EventLoopSteps
  <2>3. ASSUME NEW t \in Threads, Compute(t) PROVE Inv'
    BY <2>3, MessageStep, TickStep, LoopSteps DEF Compute
  <2>4. CASE UNCHANGED vars
    <3> USE <2>4 DEF vars, input, tasks
    <3>1. TypeOK'
      BY DEF Inv, TypeOK
    <3>2. Busy' /\ RoutesAlive' /\ Owned'
      BY Kept DEF Inv, Busy, RoutesAlive, Owned, Comes
    <3>3. Hands' /\ InQueue' /\ InLocal' /\ Seats' /\ Outs'
      BY <3>1, Grows
    <3>4. QED
      BY <3>1, <3>2, <3>3 DEF Inv, Messages
  <2>5. QED
    BY <2>1, <2>2, <2>3, <2>4 DEF Next
<1>2. QED
  BY <1>1, InvInit, PTL DEF Spec

\* Every reachable state of the server is well typed, for any gateways, rooms
\* and packets (the state of main.cpp, ComputePool and ComputeThread).
THEOREM Typed == Spec => []TypeOK
BY Inductive, PTL DEF Inv

\* No route ever points to a connection OnClientClose has dealt with, so that
\* OnRoomBroadcast never touches a destroyed one.
THEOREM NoDanglingRoute == Spec => []RoutesAlive
BY Inductive, PTL DEF Inv

\* CreateRoom before PushMessage suffices: an ENTER always finds its room.
THEOREM EnterServed == Spec => []EnterFindsRoom
<1>1. Inv => EnterFindsRoom
  BY DEF Inv, Messages, InLocal, Queued, EnterFindsRoom
<1>2. QED
  BY <1>1, Inductive, PTL

\* What a room broadcasts is sent only to ids under which a client asked it for a
\* seat, and, as long as no second client with that id is heard of, over the
\* gateway of the client that asked (OnRoomBroadcast, BindClientRoute).
THEOREM MembersOnly == Spec => []OnlyMembersReached
<1>1. Inv => OnlyMembersReached
  <2> SUFFICES ASSUME Inv, NEW t \in Threads, connMtx = t, NEW c \in Reached(t)
               PROVE  \E x \in Clients : /\ IdOf[x] = c /\ <<out[t].room, x>> \in asked
                                         /\ Alone(x) => Home[x] = Of[client_routes[c]]
    BY DEF OnlyMembersReached
  <2>1. c \in ClientIds /\ c \in out[t].to /\ client_routes[c] \in Conns
    BY DEF Reached, Inv, TypeOK
  <2>2. out[t].room \in Rooms /\ MayHear(out[t].room, c)
    BY <2>1 DEF Inv, Outs
  <2>3. PICK x \in Clients : IdOf[x] = c /\ <<out[t].room, x>> \in asked
    BY <2>2 DEF MayHear, Wants
  <2>4. PICK y \in heard : IdOf[y] = c /\ Home[y] = Of[client_routes[c]]
    BY <2>1 DEF Inv, Owned, Comes, Known
  <2>5. Alone(x) => y = x
    BY <2>3, <2>4 DEF Alone
  <2>6. QED
    BY <2>3, <2>4, <2>5
<1>2. QED
  BY <1>1, Inductive, PTL
-----------------------------------------------------------------------------
(* Order of the messages                                                   *)

\* What a thread has still to handle for a connection lies in three places: the
\* numbers up to a in the swapped queue, those up to b in the queue and the last
\* one, if any, in the hand of the event loop.
Turns ==
  \A g \in Conns, t \in Threads : \E a, b \in Nat :
    /\ InTurn(local[t], g, done[g][t], a)
    /\ InTurn(msg_queue[t], g, a, b)
    /\ InTurn(Held(g, t), g, b, seen[g][t])

\* A thread that ticks or sleeps has handled all it had swapped, and what is to
\* be pushed is not a bare packet.
Swapped == \A t \in Threads : run[t] \in {"tick", "ticked"} => local[t] = <<>>
Pushed  == \A g \in Conns : io[g] \in {"create", "push"} => hand[g].kind # "bare"

OrderInv == Turns /\ Swapped /\ Pushed

\* Nothing is in turn anywhere.
LEMMA TurnEmpty ==
  ASSUME NEW g, NEW a \in Nat, NEW b \in Nat
  PROVE  InTurn(<<>>, g, a, b) <=> a = b
BY DEF InTurn

\* A message of somebody else changes nothing.
LEMMA TurnOther ==
  ASSUME NEW s \in Seq(Message), NEW m \in Message, NEW g, m.from # g,
         NEW a \in Nat, NEW b \in Nat, InTurn(s, g, a, b)
  PROVE  InTurn(Append(s, m), g, a, b)
<1> DEFINE u == Append(s, m)
<1>1. Len(u) = Len(s) + 1 /\ u[Len(s) + 1] = m /\ \A i \in 1..Len(s) : u[i] = s[i]
  OBVIOUS
<1>2. {i \in 1..Len(u) : u[i].from = g} = {i \in 1..Len(s) : s[i].from = g}
  BY <1>1
<1>3. QED
  BY <1>1, <1>2 DEF InTurn

\* The next message of g is the last.
LEMMA TurnAppend ==
  ASSUME NEW s \in Seq(Message), NEW m \in Message, NEW a \in Nat, NEW b \in Nat,
         InTurn(s, m.from, a, b), m.n = b + 1
  PROVE  InTurn(Append(s, m), m.from, a, b + 1)
<1> DEFINE u == Append(s, m)
           old == {i \in 1..Len(s) : s[i].from = m.from}
           new == {i \in 1..Len(u) : u[i].from = m.from}
<1>1. Len(u) = Len(s) + 1 /\ u[Len(s) + 1] = m /\ \A i \in 1..Len(s) : u[i] = s[i]
  OBVIOUS
<1>2. a <= b /\ {s[i].n : i \in old} = (a + 1)..b /\ \A i, j \in old : i < j => s[i].n < s[j].n
  BY DEF InTurn
<1>3. new = old \cup {Len(s) + 1} /\ Len(s) + 1 \notin old
  BY <1>1
<1>4. \A i \in old : u[i].n = s[i].n /\ s[i].n \in (a + 1)..b /\ i < Len(s) + 1
  BY <1>1, <1>2
<1> HIDE DEF u, old, new
<1>5. {u[i].n : i \in new} = (a + 1)..(b + 1)
  <2>1. {u[i].n : i \in new} = {s[i].n : i \in old} \cup {b + 1}
    BY <1>1, <1>3, <1>4
  <2>2. (a + 1)..(b + 1) = ((a + 1)..b) \cup {b + 1}
    BY <1>2
  <2>3. QED
    BY <1>2, <2>1, <2>2
<1>6. \A i, j \in new : i < j => u[i].n < u[j].n
  <2> SUFFICES ASSUME NEW i \in new, NEW j \in new, i < j PROVE u[i].n < u[j].n
    OBVIOUS
  <2>0. new \subseteq Nat /\ Len(s) + 1 \in Nat
    BY DEF new
  <2>1. i \in old
    BY <2>0, <1>3, <1>4
  <2>2. CASE j \in old
    BY <1>2, <1>4, <2>1, <2>2
  <2>3. CASE j = Len(s) + 1
    BY <1>1, <1>4, <2>1, <2>3
  <2>4. QED
    BY <1>3, <2>2, <2>3
<1>7. QED
  BY <1>2, <1>5, <1>6 DEF InTurn, u, new

\* The first message of s is the next one of its connection.
LEMMA TurnTail ==
  ASSUME NEW s \in Seq(Message), s # <<>>, NEW g, NEW a \in Nat, NEW b \in Nat,
         InTurn(s, g, a, b)
  PROVE  InTurn(Tail(s), g, IF Head(s).from = g THEN a + 1 ELSE a, b)
<1> DEFINE u == Tail(s)
           old == {i \in 1..Len(s) : s[i].from = g}
           new == {i \in 1..Len(u) : u[i].from = g}
           c == IF Head(s).from = g THEN a + 1 ELSE a
<1>1. /\ Len(s) \in Nat \ {0} /\ Len(u) = Len(s) - 1 /\ Head(s) = s[1]
      /\ \A i \in 1..Len(u) : u[i] = s[i + 1]
  OBVIOUS
<1>2. a <= b /\ {s[i].n : i \in old} = (a + 1)..b /\ \A i, j \in old : i < j => s[i].n < s[j].n
  BY DEF InTurn
<1>3. \A i \in new : i + 1 \in old /\ u[i] = s[i + 1]
  BY <1>1
<1>4. \A j \in old : j # 1 => j - 1 \in new /\ u[j - 1] = s[j]
  <2> SUFFICES ASSUME NEW j \in old, j # 1 PROVE j - 1 \in new /\ u[j - 1] = s[j]
    OBVIOUS
  <2>1. j - 1 \in 1..Len(u) /\ (j - 1) + 1 = j
    BY <1>1
  <2>2. QED
    BY <1>1, <2>1
<1>5. (1 \in old <=> Head(s).from = g) /\ old \subseteq Nat /\ new \subseteq Nat \ {0}
      /\ \A i \in old : i = 1 \/ i > 1
  BY <1>1
<1> HIDE DEF u, old, new
<1>6. \A i, j \in new : i < j => u[i].n < u[j].n
  BY <1>2, <1>3, <1>5
<1>7. CASE 1 \in old
  <2>1. s[1].n \in (a + 1)..b
    BY <1>2, <1>7
  <2>2. a + 1 \in (a + 1)..b
    BY <2>1
  <2>3. PICK f \in old : s[f].n = a + 1
    BY <1>2, <2>2
  <2>4. s[1].n = a + 1
    BY <1>2, <1>5, <1>7, <2>1, <2>3
  <2>5. ASSUME NEW i \in new PROVE u[i].n \in (a + 2)..b
    <3>1. i + 1 \in old /\ 1 < i + 1 /\ u[i].n = s[i + 1].n
      <4>1. i + 1 \in old /\ u[i].n = s[i + 1].n
        BY <1>3
      <4>2. i \in Nat /\ i # 0
        BY <1>5
      <4>3. 1 < i + 1
        BY <4>2
      <4>4. QED
        BY <4>1, <4>3
    <3>2. s[1].n < s[i + 1].n /\ s[i + 1].n \in (a + 1)..b
      BY <1>2, <1>7, <3>1
    <3>3. QED
      BY <2>4, <3>1, <3>2
  <2>6. ASSUME NEW k \in (a + 2)..b PROVE \E i \in new : u[i].n = k
    <3>1. k \in (a + 1)..b /\ k # a + 1
      OBVIOUS
    <3>2. PICK j \in old : s[j].n = k
      BY <1>2, <3>1
    <3>3. j # 1
      BY <2>4, <3>1, <3>2
    <3>4. QED
      BY <1>4, <3>2, <3>3
  <2>7. {u[i].n : i \in new} = (a + 2)..b
    BY <2>5, <2>6
  <2>8. c = a + 1 /\ (a + 1) + 1 = a + 2 /\ a + 1 <= b
    BY <1>5, <1>7, <2>1
  <2>9. QED
    BY <1>6, <2>7, <2>8 DEF InTurn, u, new
<1>8. CASE 1 \notin old
  <2>1. ASSUME NEW i \in new PROVE u[i].n \in (a + 1)..b
    BY <1>2, <1>3
  <2>2. ASSUME NEW k \in (a + 1)..b PROVE \E i \in new : u[i].n = k
    BY <1>2, <1>4, <1>8
  <2>3. {u[i].n : i \in new} = (a + 1)..b
    BY <2>1, <2>2
  <2>4. c = a
    BY <1>5, <1>8
  <2>5. QED
    BY <1>2, <1>6, <2>3, <2>4 DEF InTurn, u, new
<1>9. QED
  BY <1>7, <1>8

\* Two sequences in turn are in turn one after the other.
LEMMA TurnConcat ==
  ASSUME NEW s \in Seq(Message), NEW u \in Seq(Message), NEW g,
         NEW a \in Nat, NEW b \in Nat, NEW c \in Nat,
         InTurn(s, g, a, b), InTurn(u, g, b, c)
  PROVE  InTurn(s \o u, g, a, c)
<1> DEFINE w == s \o u
           in == {i \in 1..Len(s) : s[i].from = g}
           un == {i \in 1..Len(u) : u[i].from = g}
           all == {i \in 1..Len(w) : w[i].from = g}
<1>1. /\ Len(s) \in Nat /\ Len(u) \in Nat /\ Len(w) = Len(s) + Len(u)
      /\ \A i \in 1..Len(s) : w[i] = s[i]
      /\ \A i \in 1..Len(u) : w[Len(s) + i] = u[i]
  OBVIOUS
<1>2. a <= b /\ {s[i].n : i \in in} = (a + 1)..b /\ \A i, j \in in : i < j => s[i].n < s[j].n
  BY DEF InTurn
<1>3. b <= c /\ {u[i].n : i \in un} = (b + 1)..c /\ \A i, j \in un : i < j => u[i].n < u[j].n
  BY DEF InTurn
<1>4. \A i \in all : \/ i \in in /\ i <= Len(s) /\ w[i] = s[i]
                     \/ i - Len(s) \in un /\ i > Len(s) /\ w[i] = u[i - Len(s)]
  <2> SUFFICES ASSUME NEW i \in all
               PROVE  \/ i \in in /\ i <= Len(s) /\ w[i] = s[i]
                      \/ i - Len(s) \in un /\ i > Len(s) /\ w[i] = u[i - Len(s)]
    OBVIOUS
  <2>1. CASE i <= Len(s)
    BY <1>1, <2>1
  <2>2. CASE i > Len(s)
    <3>1. i - Len(s) \in 1..Len(u) /\ Len(s) + (i - Len(s)) = i
      BY <1>1, <2>2
    <3>2. QED
      BY <1>1, <2>2, <3>1
  <2>3. QED
    BY <1>1, <2>1, <2>2
<1>5. \A i \in in : i \in all /\ w[i] = s[i]
  BY <1>1
<1>6. \A i \in un : Len(s) + i \in all /\ w[Len(s) + i] = u[i]
  BY <1>1
<1>7. all \subseteq Nat
  OBVIOUS
<1> HIDE DEF w, in, un, all
<1>8. {w[i].n : i \in all} = (a + 1)..c
  <2>1. ASSUME NEW i \in all PROVE w[i].n \in (a + 1)..c
    <3>1. CASE i \in in /\ w[i] = s[i]
      <4>1. w[i].n \in (a + 1)..b
        BY <1>2, <3>1
      <4>2. QED
        BY <1>3, <4>1
    <3>2. CASE i - Len(s) \in un /\ w[i] = u[i - Len(s)]
      <4>1. w[i].n \in (b + 1)..c
        BY <1>3, <3>2
      <4>2. QED
        BY <1>2, <4>1
    <3>3. QED
      BY <1>4, <3>1, <3>2
  <2>2. ASSUME NEW k \in (a + 1)..c PROVE \E i \in all : w[i].n = k
    <3>1. CASE k <= b
      <4>1. k \in (a + 1)..b
        BY <3>1
      <4>2. QED
        BY <1>2, <1>5, <4>1
    <3>2. CASE k > b
      <4>1. k \in (b + 1)..c
        BY <3>2
      <4>2. PICK i \in un : u[i].n = k
        BY <1>3, <4>1
      <4>3. QED
        BY <1>6, <4>2
    <3>3. QED
      BY <3>1, <3>2
  <2>3. QED
    BY <2>1, <2>2
<1>9. ASSUME NEW i \in all, NEW j \in all, i < j PROVE w[i].n < w[j].n
  <2>1. CASE i \in in /\ w[i] = s[i] /\ j \in in /\ w[j] = s[j]
    BY <1>2, <1>9, <2>1
  <2>2. CASE i \in in /\ w[i] = s[i] /\ j - Len(s) \in un /\ w[j] = u[j - Len(s)]
    <3>1. s[i].n \in (a + 1)..b /\ u[j - Len(s)].n \in (b + 1)..c
      BY <1>2, <1>3, <2>2
    <3>2. QED
      BY <2>2, <3>1
  <2>3. CASE i - Len(s) \in un /\ w[i] = u[i - Len(s)] /\ j - Len(s) \in un /\ w[j] = u[j - Len(s)]
    <3>1. i - Len(s) < j - Len(s)
      BY <1>1, <1>7, <1>9
    <3>2. QED
      BY <1>3, <2>3, <3>1
  <2>4. ~(i > Len(s) /\ j <= Len(s))
    BY <1>1, <1>7, <1>9
  <2>5. QED
    BY <1>4, <2>1, <2>2, <2>3, <2>4
<1>10. QED
  BY <1>2, <1>3, <1>8, <1>9 DEF InTurn, w, all

\* A hand that is empty or holds the last message sent is in turn.
LEMMA TurnHeld ==
  ASSUME NEW m \in Message, NEW b \in Nat, m.n = b + 1
  PROVE  InTurn(<<m>>, m.from, b, b + 1)
<1>1. InTurn(<<>>, m.from, b, b) /\ <<>> \in Seq(Message) /\ Append(<<>>, m) = <<m>>
  BY TurnEmpty
<1>2. QED
  BY <1>1, TurnAppend

\* The hand of an event loop holds a message of its connection.
LEMMA HeldOwn ==
  ASSUME Inv, NEW g \in Conns, NEW t \in Threads
  PROVE  Held(g, t) \in Seq(Message)
BY DEF Inv, Busy, Held

\* A server that has just started has nothing to handle.
LEMMA OrderInit == Init => OrderInv
<1> SUFFICES ASSUME Init PROVE OrderInv
  OBVIOUS
<1> USE DEF Init
<1>1. Turns
  <2> SUFFICES ASSUME NEW g \in Conns, NEW t \in Threads
               PROVE  \E a, b \in Nat : /\ InTurn(local[t], g, done[g][t], a)
                                        /\ InTurn(msg_queue[t], g, a, b)
                                        /\ InTurn(Held(g, t), g, b, seen[g][t])
    BY DEF Turns
  <2>1. /\ local[t] = <<>> /\ msg_queue[t] = <<>> /\ Held(g, t) = <<>>
        /\ done[g][t] = 0 /\ seen[g][t] = 0
    BY DEF Held
  <2>2. InTurn(<<>>, g, 0, 0)
    BY TurnEmpty
  <2>3. QED
    BY <2>1, <2>2
<1>2. Swapped /\ Pushed
  BY DEF Swapped, Pushed
<1>3. QED
  BY <1>1, <1>2 DEF OrderInv

\* Nothing that decides the order changes.
LEMMA OrderStutters ==
  ASSUME OrderInv, UNCHANGED <<msg_queue, local, done, seen>>, Swapped', Pushed',
         \A g \in Conns, t \in Threads : Held(g, t)' = Held(g, t)
  PROVE  OrderInv'
BY DEF OrderInv, Turns

\* A packet is the last of its connection; the event loop was idle.
LEMMA PacketOrder ==
  ASSUME Inv, OrderInv, NEW g \in Conns, NEW kind \in Kinds, NEW r \in Rooms, NEW p \in Players,
         NEW x \in Clients, OnClientPacket(g, kind, r, p, x)
  PROVE  OrderInv'
<1> DEFINE d == Destination(kind, r)
           t == PickThread(d)
           m == [from |-> g, n |-> seen[g][t] + 1, kind |-> kind, room |-> d,
                 player |-> p, client |-> IdOf[x]]
<1>1. d \in Rooms /\ t \in Threads
  BY ThreadOfRoom, RealtimeAssumption DEF Destination
<1>2. /\ io[g] = "idle"
      /\ seen' = IF kind = "bare" THEN seen ELSE [seen EXCEPT ![g][t] = @ + 1]
      /\ hand' = [hand EXCEPT ![g] = m]
      /\ io' = [io EXCEPT ![g] = "bind"]
      /\ UNCHANGED <<msg_queue, local, done, run>>
  BY DEF OnClientPacket, tasks
<1>3. m.from = g /\ m.kind = kind /\ PickThread(m.room) = t /\ m.n = seen[g][t] + 1
  OBVIOUS
<1>4. m \in Message
  BY <1>1, RealtimeAssumption DEF Message, Inv, TypeOK
<1> HIDE DEF d, t, m
<1>5. \A h \in Conns, u \in Threads :
         Held(h, u)' = IF h = g /\ u = t /\ kind # "bare" THEN <<m>> ELSE Held(h, u)
  BY <1>2, <1>3 DEF Held, Inv, TypeOK
<1>6. Held(g, t) = <<>>
  BY <1>2 DEF Held
<1>7. Swapped' /\ Pushed'
  BY <1>2 DEF OrderInv, Swapped, Pushed, Inv, TypeOK
<1>8. CASE kind = "bare"
  BY <1>2, <1>5, <1>7, <1>8, OrderStutters
<1>9. CASE kind # "bare"
  <2>1. ASSUME NEW h \in Conns, NEW u \in Threads
        PROVE  \E a, b \in Nat : /\ InTurn(local[u], h, done[h][u], a)
                                 /\ InTurn(msg_queue[u], h, a, b)
                                 /\ InTurn(Held(h, u)', h, b, seen'[h][u])
    <3>1. PICK a, b \in Nat : /\ InTurn(local[u], h, done[h][u], a)
                              /\ InTurn(msg_queue[u], h, a, b)
                              /\ InTurn(Held(h, u), h, b, seen[h][u])
      BY DEF OrderInv, Turns
    <3>2. CASE h = g /\ u = t
      <4>1. seen[g][t] \in Nat /\ seen'[g][t] = seen[g][t] + 1
        BY <1>1, <1>2, <1>9 DEF Inv, TypeOK
      <4>2. b = seen[g][t]
        BY <1>6, <3>1, <3>2, <4>1, TurnEmpty
      <4>3. InTurn(<<m>>, g, b, b + 1)
        BY <1>3, <1>4, <4>2, TurnHeld
      <4>4. Held(h, u)' = <<m>>
        BY <1>5, <1>9, <3>2
      <4>5. QED
        BY <3>1, <3>2, <4>1, <4>2, <4>3, <4>4
    <3>3. CASE ~(h = g /\ u = t)
      <4>1. seen'[h][u] = seen[h][u] /\ Held(h, u)' = Held(h, u)
        BY <1>1, <1>2, <1>5, <1>9, <3>3 DEF Inv, TypeOK
      <4>2. QED
        BY <3>1, <4>1
    <3>4. QED
      BY <3>2, <3>3
  <2>2. Turns'
    BY <1>2, <2>1 DEF Turns
  <2>3. QED
    BY <1>7, <2>2 DEF OrderInv
<1>10. QED
  BY <1>8, <1>9

\* A message goes from the hand of the event loop to the end of the queue.
LEMMA PushOrder ==
  ASSUME Inv, OrderInv, NEW g \in Conns, PushMessage(g)
  PROVE  OrderInv'
<1> DEFINE t == PickThread(hand[g].room)
           m == hand[g]
<1>1. m \in Message /\ m.from = g /\ t \in Threads
  <2>1. m \in Message /\ m.from = g
    BY DEF PushMessage, Inv, Busy
  <2>2. m.room \in Rooms
    BY <2>1 DEF Message
  <2>3. QED
    BY <2>1, <2>2, ThreadOfRoom
<1>2. /\ io[g] = "push" /\ m.kind # "bare"
      /\ msg_queue' = [msg_queue EXCEPT ![t] = Append(@, m)]
      /\ io' = [io EXCEPT ![g] = "idle"] /\ hand' = [hand EXCEPT ![g] = None]
      /\ UNCHANGED <<local, done, seen, run>>
  BY DEF PushMessage, OrderInv, Pushed
<1>3. \A h \in Conns, u \in Threads :
         Held(h, u)' = IF h = g THEN <<>> ELSE Held(h, u)
  BY <1>2 DEF Held, Inv, TypeOK
<1>4. \A u \in Threads : Held(g, u) = IF u = t THEN <<m>> ELSE <<>>
  BY <1>2 DEF Held
<1>5. Swapped' /\ Pushed'
  BY <1>2 DEF OrderInv, Swapped, Pushed, Inv, TypeOK
<1> HIDE DEF t, m
<1>6. \A u \in Threads : msg_queue'[u] = IF u = t THEN Append(msg_queue[t], m) ELSE msg_queue[u]
  BY <1>2 DEF Inv, TypeOK
<1>7. ASSUME NEW h \in Conns, NEW u \in Threads
      PROVE  \E a, b \in Nat : /\ InTurn(local[u], h, done[h][u], a)
                               /\ InTurn(msg_queue'[u], h, a, b)
                               /\ InTurn(Held(h, u)', h, b, seen[h][u])
  <2>1. PICK a, b \in Nat : /\ InTurn(local[u], h, done[h][u], a)
                            /\ InTurn(msg_queue[u], h, a, b)
                            /\ InTurn(Held(h, u), h, b, seen[h][u])
    BY DEF OrderInv, Turns
  <2>2. seen[h][u] \in Nat /\ msg_queue[u] \in Seq(Message)
    BY DEF Inv, TypeOK
  <2>3. CASE h = g /\ u = t
    <3>1. InTurn(<<m>>, g, b, seen[g][t])
      BY <1>4, <2>1, <2>3
    <3>2. m.n = b + 1 /\ seen[g][t] = b + 1
      <4>1. {i \in 1..Len(<<m>>) : <<m>>[i].from = g} = {1} /\ <<m>>[1] = m
        BY <1>1
      <4>2. {m.n} = (b + 1)..seen[g][t]
        BY <3>1, <4>1 DEF InTurn
      <4>3. m.n \in (b + 1)..seen[g][t]
        BY <4>2
      <4>4. b + 1 \in (b + 1)..seen[g][t] /\ seen[g][t] \in (b + 1)..seen[g][t]
        BY <2>2, <2>3, <4>3
      <4>5. QED
        BY <4>2, <4>4
    <3>3. InTurn(msg_queue'[u], h, a, b + 1)
      BY <1>1, <1>6, <2>1, <2>2, <2>3, <3>2, TurnAppend
    <3>4. InTurn(Held(h, u)', h, b + 1, seen[h][u])
      BY <1>3, <2>3, <3>2, TurnEmpty
    <3>5. QED
      BY <2>1, <3>3, <3>4
  <2>4. CASE h = g /\ u # t
    BY <1>3, <1>4, <1>6, <2>1, <2>4
  <2>5. CASE h # g /\ u = t
    <3>1. InTurn(Append(msg_queue[t], m), h, a, b)
      BY <1>1, <2>1, <2>2, <2>5, TurnOther
    <3>2. QED
      BY <1>3, <1>6, <2>1, <2>5, <3>1
  <2>6. CASE h # g /\ u # t
    BY <1>3, <1>6, <2>1, <2>6
  <2>7. QED
    BY <2>3, <2>4, <2>5, <2>6
<1>8. Turns'
  BY <1>2, <1>7 DEF Turns
<1>9. QED
  BY <1>5, <1>8 DEF OrderInv

\* The queue is swapped when the swapped one is used up.
LEMMA SwapOrder ==
  ASSUME Inv, OrderInv, NEW t \in Threads, SwapQueue(t)
  PROVE  OrderInv'
<1>1. /\ local[t] = <<>>
      /\ run' = [run EXCEPT ![t] = "drain"]
      /\ local' = [local EXCEPT ![t] = msg_queue[t]]
      /\ msg_queue' = [msg_queue EXCEPT ![t] = <<>>]
      /\ UNCHANGED <<io, hand, seen, done>>
  BY DEF SwapQueue, Sleeping, OrderInv, Swapped, input
<1>2. Swapped' /\ Pushed'
  BY <1>1 DEF OrderInv, Swapped, Pushed, Inv, TypeOK
<1>3. \A h \in Conns, u \in Threads : Held(h, u)' = Held(h, u)
  BY <1>1 DEF Held
<1>4. ASSUME NEW h \in Conns, NEW u \in Threads
      PROVE  \E a, b \in Nat : /\ InTurn(local'[u], h, done[h][u], a)
                               /\ InTurn(msg_queue'[u], h, a, b)
                               /\ InTurn(Held(h, u), h, b, seen[h][u])
  <2>1. PICK a, b \in Nat : /\ InTurn(local[u], h, done[h][u], a)
                            /\ InTurn(msg_queue[u], h, a, b)
                            /\ InTurn(Held(h, u), h, b, seen[h][u])
    BY DEF OrderInv, Turns
  <2>2. CASE u = t
    <3>1. done[h][t] = a
      <4>1. done[h][t] \in Nat
        BY DEF Inv, TypeOK
      <4>2. QED
        BY <1>1, <2>1, <2>2, <4>1, TurnEmpty
    <3>2. local'[t] = msg_queue[t] /\ msg_queue'[t] = <<>>
      BY <1>1 DEF Inv, TypeOK
    <3>3. InTurn(<<>>, h, b, b)
      BY TurnEmpty
    <3>4. QED
      BY <2>1, <2>2, <3>1, <3>2, <3>3
  <2>3. CASE u # t
    <3>1. local'[u] = local[u] /\ msg_queue'[u] = msg_queue[u]
      BY <1>1, <2>3 DEF Inv, TypeOK
    <3>2. QED
      BY <2>1, <3>1
  <2>4. QED
    BY <2>2, <2>3
<1>5. Turns'
  BY <1>1, <1>3, <1>4 DEF Turns
<1>6. QED
  BY <1>2, <1>5 DEF OrderInv

\* The first message of the swapped queue is handled.
LEMMA HandleOrder ==
  ASSUME Inv, OrderInv, NEW t \in Threads, OnMessage(t)
  PROVE  OrderInv'
<1> DEFINE m == Head(local[t])
<1>1. /\ run[t] = "drain" /\ local[t] # <<>>
      /\ done' = [done EXCEPT ![m.from][t] = @ + 1]
      /\ local' = [local EXCEPT ![t] = Tail(@)]
      /\ \/ run' = run
         \/ \E s \in {"drain", "answer"} : run' = [run EXCEPT ![t] = s]
      /\ UNCHANGED <<io, hand, seen, msg_queue>>
  BY DEF OnMessage, input
<1>2. local[t] \in Seq(Message) /\ m \in Message
  <2>1. local[t] \in Seq(Message)
    BY DEF Inv, TypeOK
  <2>2. QED
    BY <1>1, <2>1
<1>3. m.from \in Conns
  BY <1>2 DEF Message
<1>4. Swapped' /\ Pushed'
  <2>1. \A u \in Threads : run'[u] \in {"tick", "ticked"} => run[u] = run'[u] /\ u # t
    BY <1>1 DEF Inv, TypeOK
  <2>2. QED
    BY <1>1, <2>1 DEF OrderInv, Swapped, Pushed, Inv, TypeOK
<1>5. \A h \in Conns, u \in Threads : Held(h, u)' = Held(h, u)
  BY <1>1 DEF Held
<1> HIDE DEF m
<1>6. ASSUME NEW h \in Conns, NEW u \in Threads
      PROVE  \E a, b \in Nat : /\ InTurn(local'[u], h, done'[h][u], a)
                               /\ InTurn(msg_queue[u], h, a, b)
                               /\ InTurn(Held(h, u), h, b, seen[h][u])
  <2>1. PICK a, b \in Nat : /\ InTurn(local[u], h, done[h][u], a)
                            /\ InTurn(msg_queue[u], h, a, b)
                            /\ InTurn(Held(h, u), h, b, seen[h][u])
    BY DEF OrderInv, Turns
  <2>2. CASE u = t
    <3>1. local'[t] = Tail(local[t]) /\ done[h][t] \in Nat
      BY <1>1 DEF Inv, TypeOK
    <3>2. done'[h][t] = IF m.from = h THEN done[h][t] + 1 ELSE done[h][t]
      BY <1>1, <1>3 DEF Inv, TypeOK
    <3>3. InTurn(Tail(local[t]), h, IF m.from = h THEN done[h][t] + 1 ELSE done[h][t], a)
      BY <1>1, <1>2, <2>1, <2>2, <3>1, TurnTail DEF m
    <3>4. QED
      BY <2>1, <2>2, <3>1, <3>2, <3>3
  <2>3. CASE u # t
    <3>1. local'[u] = local[u] /\ done'[h][u] = done[h][u]
      BY <1>1, <1>3, <2>3 DEF Inv, TypeOK
    <3>2. QED
      BY <2>1, <3>1
  <2>4. QED
    BY <2>2, <2>3
<1>7. Turns'
  BY <1>1, <1>5, <1>6 DEF Turns
<1>8. QED
  BY <1>4, <1>7 DEF OrderInv

\* The other steps leave queues and hands as they are.
LEMMA OtherOrder ==
  ASSUME Inv, OrderInv,
         \/ \E g \in Conns : BindClientRoute(g) \/ CreateRoom(g) \/ OnClientClose(g)
         \/ \E t \in Threads : \/ TickRooms(t) \/ LockRoutes(t) \/ SendRouted(t)
                               \/ \E r \in Rooms : Tick(t, r)
         \/ UNCHANGED vars
  PROVE  OrderInv'
<1> USE DEF input, tasks
<1>1. UNCHANGED <<msg_queue, local, done, seen>>
  BY DEF BindClientRoute, CreateRoom, OnClientClose, TickRooms, LockRoutes, SendRouted, Tick, vars
<1>2. (\A g \in Conns, t \in Threads : Held(g, t)' = Held(g, t)) /\ Pushed'
  <2>1. ASSUME NEW g \in Conns, BindClientRoute(g)
        PROVE  (\A h \in Conns, t \in Threads : Held(h, t)' = Held(h, t)) /\ Pushed'
    <3>1. io[g] = "bind" /\ hand[g].kind \in Kinds
      BY <2>1 DEF BindClientRoute, Inv, Busy, Message
    <3>2. /\ AfterBind(hand[g].kind) \in {"idle", "create", "push"}
          /\ AfterBind(hand[g].kind) = "idle" <=> hand[g].kind = "bare"
      BY <3>1 DEF AfterBind, Kinds
    <3>3. \A h \in Conns : h # g => io'[h] = io[h] /\ hand'[h] = hand[h]
      BY <2>1 DEF BindClientRoute, Inv, TypeOK
    <3>4. io'[g] = AfterBind(hand[g].kind) /\ (io'[g] # "idle" => hand'[g] = hand[g])
      BY <2>1 DEF BindClientRoute, Inv, TypeOK
    <3>5. \A t \in Threads : Held(g, t)' = Held(g, t)
      BY <3>1, <3>2, <3>4 DEF Held
    <3>6. \A h \in Conns, t \in Threads : h # g => Held(h, t)' = Held(h, t)
      BY <3>3 DEF Held
    <3>7. Pushed'
      BY <3>2, <3>3, <3>4 DEF OrderInv, Pushed
    <3>8. QED
      BY <3>5, <3>6, <3>7
  <2>2. ASSUME NEW g \in Conns, CreateRoom(g)
        PROVE  (\A h \in Conns, t \in Threads : Held(h, t)' = Held(h, t)) /\ Pushed'
    BY <2>2 DEF CreateRoom, Held, OrderInv, Pushed, Inv, TypeOK
  <2>3. ASSUME UNCHANGED <<io, hand>>
        PROVE  (\A h \in Conns, t \in Threads : Held(h, t)' = Held(h, t)) /\ Pushed'
    BY <2>3 DEF Held, OrderInv, Pushed
  <2>4. QED
    BY <2>1, <2>2, <2>3 DEF OnClientClose, TickRooms, LockRoutes, SendRouted, Tick, vars
<1>3. Swapped'
  <2>1. \A t \in Threads : run'[t] \in {"tick", "ticked"} =>
           run[t] \in {"tick", "ticked"} \/ local[t] = <<>>
    <3>1. ASSUME NEW t \in Threads, SendRouted(t)
          PROVE  \A u \in Threads : run'[u] \in {"tick", "ticked"} => run[u] \in {"tick", "ticked"}
      BY <3>1 DEF SendRouted, Inv, TypeOK
    <3>2. ASSUME NEW t \in Threads, NEW r \in Rooms, Tick(t, r)
          PROVE  \A u \in Threads : run'[u] \in {"tick", "ticked"} => run[u] \in {"tick", "ticked"}
      BY <3>2 DEF Tick, Inv, TypeOK
    <3>3. ASSUME NEW t \in Threads, TickRooms(t)
          PROVE  \A u \in Threads : run'[u] \in {"tick", "ticked"} =>
                    run[u] \in {"tick", "ticked"} \/ local[u] = <<>>
      BY <3>3 DEF TickRooms, Inv, TypeOK
    <3>4. QED
      BY <3>1, <3>2, <3>3 DEF BindClientRoute, CreateRoom, OnClientClose, LockRoutes, vars
  <2>2. QED
    BY <1>1, <2>1 DEF OrderInv, Swapped
<1>4. QED
  BY <1>1, <1>2, <1>3, OrderStutters

\* Every message of a gateway is handled exactly once and in the order in which
\* it was sent (PushMessage, ProcessMessages): the swap of the queue, pushes of
\* other event loops and the end of the connection lose and reorder nothing.
THEOREM InOrder == Spec => []HandledInOrder
<1>1. Inv /\ OrderInv /\ [Next]_vars => OrderInv'
  <2> SUFFICES ASSUME Inv, OrderInv, [Next]_vars PROVE OrderInv'
    OBVIOUS
  <2>1. ASSUME NEW g \in Conns, Packet(g) PROVE OrderInv'
    <3>1. PICK s \in Sent[g], p \in Players, x \in Clients : OnClientPacket(g, s[1], s[2], p, x)
      BY <2>1 DEF Packet
    <3>2. s[1] \in Kinds /\ s[2] \in Rooms
      BY RealtimeAssumption
    <3>3. QED
      BY <3>1, <3>2, PacketOrder
  <2>2. QED
    BY <2>1, PushOrder, SwapOrder, HandleOrder, OtherOrder DEF Next, Handling, Compute
<1>2. Inv /\ OrderInv => HandledInOrder
  <2> SUFFICES ASSUME Inv, OrderInv, NEW g \in Conns, NEW t \in Threads
               PROVE  InTurn((local[t] \o msg_queue[t]) \o Held(g, t), g, done[g][t], seen[g][t])
    BY DEF HandledInOrder
  <2>1. PICK a, b \in Nat : /\ InTurn(local[t], g, done[g][t], a)
                            /\ InTurn(msg_queue[t], g, a, b)
                            /\ InTurn(Held(g, t), g, b, seen[g][t])
    BY DEF OrderInv, Turns
  <2>2. /\ local[t] \in Seq(Message) /\ msg_queue[t] \in Seq(Message)
        /\ done[g][t] \in Nat /\ seen[g][t] \in Nat
    BY DEF Inv, TypeOK
  <2>3. InTurn(local[t] \o msg_queue[t], g, done[g][t], b)
    BY <2>1, <2>2, TurnConcat
  <2>4. local[t] \o msg_queue[t] \in Seq(Message)
    BY <2>2
  <2>5. QED
    BY <2>1, <2>2, <2>3, <2>4, HeldOwn, TurnConcat
<1>3. QED
  BY <1>1, <1>2, OrderInit, Inductive, PTL DEF Spec
=============================================================================
