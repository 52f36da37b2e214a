--------------------------- MODULE GatewayProofs ---------------------------
(***************************************************************************)
(* Theorems about Gateway for any sets of connections, players and rooms   *)
(* and any bind requests, whatever numbers the clients give them.          *)
(***************************************************************************)
EXTENDS Gateway, TLAPS

\* What the upstream loop is about to do makes sense, and what it is about to
\* bind has been confirmed by biz, unless the client used a number again.
UpOK ==
  /\ up.at = "bind" => /\ up.conn \in Conns /\ up.arg \in Players
                       /\ Verified(up.conn, up.arg)
  /\ up.at = "kick" => up.conn \in Conns /\ up.arg \in Conns

\* The request remembered is for the player that each request at biz with its
\* number is for, unless the client gave the number to two of them.
Traced ==
  \A r \in toBiz :
     Matches(r.conn, r.seq) => pending[r.conn].player = r.player \/ r.conn \in reused

Inv == TypeOK /\ UpOK /\ Traced /\ OneDevice /\ BoundVerified

\* What the parts of Inv beyond TypeOK speak of.
bindvars == <<binds, toBiz, up, accepted, reused>>
-----------------------------------------------------------------------------
\* A gateway that has just started has nobody bound.
LEMMA InvInit == Init => Inv
<1> SUFFICES ASSUME Init PROVE Inv
  OBVIOUS
<1> USE GatewayAssumption DEF Init
<1>1. TypeOK
  BY DEF TypeOK, Labels, Idle, Doing
<1>2. UpOK /\ Traced /\ OneDevice /\ BoundVerified
  BY DEF UpOK, Traced, OneDevice, BoundVerified, IsPlayerBound, Idle, Doing
<1>3. QED
  BY <1>1, <1>2 DEF Inv

\* Steps that leave the binding state alone.
LEMMA QuietSteps ==
  ASSUME Inv, TypeOK', UNCHANGED bindvars
  PROVE  Inv'
BY DEF Inv, bindvars, binds, UpOK, Verified, Traced, Matches, OneDevice, BoundVerified, IsPlayerBound

\* The handlers on a client's event loop that neither remember nor clear a request.
LEMMA ClientSteps ==
  ASSUME Inv, NEW c \in Conns,
         \/ Accept(c) \/ SetCallbacks(c) \/ OnClientConnect(c) \/ HandleHandshake(c)
         \/ HandlePlayerBind(c) \/ OnClientPacket(c) \/ SendErrorAndClose(c)
         \/ WriteFails(c) \/ Disconnect(c) \/ RemoveClient(c)
  PROVE  Inv'
<1> USE GatewayAssumption DEF Inv, binds, rooms, reqs, ends
<1>1. TypeOK'
  <2>1. CASE Accept(c) \/ SetCallbacks(c) \/ OnClientConnect(c) \/ HandleHandshake(c) \/ RemoveClient(c)
    BY <2>1 DEF Accept, SetCallbacks, OnClientConnect, HandleHandshake, RemoveClient, Goto, Labels, TypeOK
  <2>2. CASE HandlePlayerBind(c) \/ OnClientPacket(c) \/ SendErrorAndClose(c) \/ WriteFails(c)
    BY <2>2 DEF HandlePlayerBind, OnClientPacket, SendErrorAndClose, WriteFails, Goto, Labels, TypeOK
  <2>3. CASE Disconnect(c)
    BY <2>3 DEF Disconnect, Goto, Labels, TypeOK
  <2>4. QED
    BY <2>1, <2>2, <2>3
<1>2. UNCHANGED bindvars
  BY DEF Accept, SetCallbacks, OnClientConnect, HandleHandshake, HandlePlayerBind, OnClientPacket,
         SendErrorAndClose, WriteFails, Disconnect, RemoveClient, bindvars
<1>3. QED
  BY <1>1, <1>2, QuietSteps

\* A request that is remembered, given up or expired.
LEMMA BindRemembered ==
  ASSUME Inv, NEW c \in Conns,
         (\E p \in Players : ForwardBind(c, p)) \/ RejectBind(c) \/ ExpireBind(c)
  PROVE  Inv'
<1> USE GatewayAssumption DEF Inv, Goto, binds, rooms, reqs, ends
<1>1. CASE RejectBind(c) \/ ExpireBind(c)
  <2>1. TypeOK'
    BY <1>1 DEF TypeOK, Labels, RejectBind, ExpireBind
  <2>2. UpOK' /\ OneDevice' /\ BoundVerified'
    BY <1>1 DEF RejectBind, ExpireBind, UpOK, Verified, OneDevice, BoundVerified, IsPlayerBound
  <2>3. Traced'
    BY <1>1 DEF RejectBind, ExpireBind, Traced, Matches, TypeOK
  <2>4. QED
    BY <2>1, <2>2, <2>3
<1>2. ASSUME NEW p \in Players, ForwardBind(c, p)
      PROVE  Inv'
  <2> USE <1>2 DEF ForwardBind, Forward
  <2>1. TypeOK'
    BY DEF TypeOK, Labels, Seqs
  <2>2. reused \subseteq reused' /\ UNCHANGED <<up, accepted, player_conn, conn_player>>
    OBVIOUS
  <2>3. UpOK' /\ OneDevice' /\ BoundVerified'
    BY <2>2 DEF UpOK, Verified, OneDevice, BoundVerified, IsPlayerBound
  <2>4. Traced'
    BY DEF Traced, Matches, TypeOK, Seqs
  <2>5. QED
    BY <2>1, <2>3, <2>4
<1>3. QED
  BY <1>1, <1>2

\* The answer of biz: whatever is handed to BindPlayer was confirmed, because
\* the number of the answer is the number of the request remembered and, unless
\* the client gave it twice, of no other.
LEMMA BindAnswered ==
  ASSUME Inv, NEW r \in toBiz,
         OnShortAnswer(r) \/ \E code \in {"ok", "refused", "garbled"} : OnBindAnswer(r, code)
  PROVE  Inv'
<1> USE GatewayAssumption DEF Inv, binds, rooms, reqs, ends
<1>1. CASE OnShortAnswer(r)
  <2> USE <1>1 DEF OnShortAnswer
  <2>1. TypeOK'
    BY DEF TypeOK
  <2>2. UpOK' /\ OneDevice' /\ BoundVerified'
    BY DEF UpOK, Verified, OneDevice, BoundVerified, IsPlayerBound
  <2>3. Traced'
    BY DEF Traced, Matches, TypeOK
  <2>4. QED
    BY <2>1, <2>2, <2>3
<1>2. ASSUME NEW code \in {"ok", "refused", "garbled"}, OnBindAnswer(r, code)
      PROVE  Inv'
  <2> USE <1>2 DEF OnBindAnswer
  <2>1. r.conn \in Conns /\ r.player \in Players
    BY GatewayAssumption DEF TypeOK
  <2>2. TypeOK'
    BY <2>1 DEF TypeOK, Matches, Doing, Idle
  <2>3. UpOK'
    BY <2>1 DEF UpOK, Verified, Traced, Doing, Idle, Matches, TypeOK
  <2>4. OneDevice' /\ BoundVerified'
    BY DEF OneDevice, BoundVerified, Verified, IsPlayerBound
  <2>5. Traced'
    BY <2>1 DEF Traced, Matches, TypeOK
  <2>6. QED
    BY <2>2, <2>3, <2>4, <2>5
<1>3. QED
  BY <1>1, <1>2

\* BindPlayer keeps the two maps inverse: the connection gives up the player it
\* had, and the player the connection it had.
LEMMA PlayerBound ==
  ASSUME Inv, BindPlayer
  PROVE  Inv'
<1> USE GatewayAssumption DEF Inv, BindPlayer, binds, rooms, reqs, ends
<1> DEFINE c == up.conn
           p == up.arg
           old == IF player_conn[p] = c THEN None ELSE player_conn[p]
<1>1. c \in Conns /\ p \in Players /\ Verified(c, p) /\ old \in Conns \cup {None} /\ old # c
  BY DEF UpOK, TypeOK
<1>2. /\ player_conn' = [q \in Players |-> IF q = p THEN c
                           ELSE IF conn_player[c] = q /\ player_conn[q] = c THEN None ELSE player_conn[q]]
      /\ conn_player' = [d \in Conns |-> IF d = c THEN p ELSE IF d = old THEN None ELSE conn_player[d]]
      /\ up' = IF old = None THEN Doing("answer", c, None) ELSE Doing("kick", c, old)
  OBVIOUS
<1> HIDE DEF c, p, old
<1>3. UNCHANGED <<acc, pc, clients, sessions, pending, toBiz, conn_room, room_members, used, reused, accepted>>
  OBVIOUS
<1>4. TypeOK'
  BY <1>1, <1>2, <1>3 DEF TypeOK, Doing
<1>5. UpOK'
  BY <1>1, <1>2 DEF UpOK, Doing
<1>6. Traced'
  BY <1>3 DEF Traced, Matches
<1>7. OneDevice'
  <2> SUFFICES ASSUME NEW d \in Conns, NEW q \in Players
               PROVE  conn_player'[d] = q <=> player_conn'[q] = d
    BY DEF OneDevice
  <2>1. conn_player[d] = q <=> player_conn[q] = d
    BY DEF OneDevice
  <2>2. conn_player[c] = q <=> player_conn[q] = c
    BY <1>1 DEF OneDevice
  <2>3. conn_player[d] = p <=> player_conn[p] = d
    BY <1>1 DEF OneDevice
  <2>4. d = old <=> d # c /\ player_conn[p] = d
    BY <1>1 DEF old
  <2>5. QED
    BY <1>1, <1>2, <2>1, <2>2, <2>3, <2>4 DEF TypeOK
<1>8. BoundVerified'
  BY <1>1, <1>2, <1>3 DEF BoundVerified, Verified, IsPlayerBound, TypeOK
<1>9. QED
  BY <1>4, <1>5, <1>6, <1>7, <1>8

\* The other steps of the upstream loop.
LEMMA UpstreamSteps ==
  ASSUME Inv, KickConnection \/ AnswerBind \/ RefuseBind \/ \E m \in Control : OnRoomControl(m)
  PROVE  Inv'
<1> USE GatewayAssumption DEF Inv, binds, rooms, reqs, ends
<1>1. TypeOK'
  <2>1. CASE KickConnection \/ AnswerBind \/ RefuseBind
    BY <2>1 DEF KickConnection, AnswerBind, RefuseBind, TypeOK, UpOK, Doing, Idle
  <2>2. ASSUME NEW m \in Control, OnRoomControl(m)
        PROVE  TypeOK'
    BY <2>2 DEF OnRoomControl, Control, TypeOK
  <2>3. QED
    BY <2>1, <2>2
<1>2. /\ UNCHANGED <<binds, toBiz, accepted, reused>>
      /\ up' \in {up, Idle, Doing("answer", up.conn, None)}
  BY DEF KickConnection, AnswerBind, RefuseBind, OnRoomControl
<1>3. UpOK' /\ Traced' /\ OneDevice' /\ BoundVerified'
  BY <1>2 DEF UpOK, Verified, Traced, Matches, OneDevice, BoundVerified, IsPlayerBound, Doing, Idle
<1>4. QED
  BY <1>1, <1>3

\* The close handler takes the connection out of both maps.
LEMMA CleanedUpStep ==
  ASSUME Inv, NEW c \in Conns, CleanupPlayerState(c)
  PROVE  Inv'
<1> USE GatewayAssumption DEF Inv, CleanupPlayerState, Goto, rooms, reqs, ends
<1>1. TypeOK'
  BY DEF TypeOK, Labels
<1>2. UpOK'
  BY DEF UpOK, Verified
<1>3. Traced'
  BY DEF Traced, Matches, TypeOK
<1>4. OneDevice'
  BY DEF OneDevice, TypeOK
<1>5. BoundVerified'
  BY DEF BoundVerified, Verified, IsPlayerBound, TypeOK
<1>6. QED
  BY <1>1, <1>2, <1>3, <1>4, <1>5

\* Every step of the gateway keeps the invariant.
LEMMA InvStep == Inv /\ [Next]_vars => Inv'
<1> SUFFICES ASSUME Inv, [Next]_vars PROVE Inv'
  OBVIOUS
<1>1. ASSUME NEW c \in Conns, Client(c) PROVE Inv'
  BY <1>1, ClientSteps, BindRemembered, CleanedUpStep DEF Client
<1>2. CASE Upstream
  BY <1>2, BindAnswered, PlayerBound, UpstreamSteps DEF Upstream
<1>3. CASE UNCHANGED vars
  BY <1>3 DEF vars, binds, rooms, reqs, ends, Inv, TypeOK, UpOK, Traced, Matches, OneDevice, BoundVerified,
              Verified, IsPlayerBound, Labels
<1>4. QED
  BY <1>1, <1>2, <1>3 DEF Next

\* The inductive invariant holds in every reachable state.
LEMMA InvAlways == Spec => []Inv
<1>1. Init => Inv
  BY InvInit
<1>2. Inv /\ [Next]_vars => Inv'
  BY InvStep
<1>3. QED
  BY <1>1, <1>2, PTL DEF Spec

\* The gateway's tables keep their types and the two room maps agree.
THEOREM Typed == Spec => []TypeOK
<1>1. Inv => TypeOK
  BY DEF Inv
<1>2. QED
  BY <1>1, InvAlways, PTL

\* Single-device login: player_conn_ and conn_player_ stay inverse to each other
\* (BindPlayer, CleanupPlayerState), so no player ever has two connections.
THEOREM SingleDevice == Spec => []OneDevice
<1>1. Inv => OneDevice
  BY DEF Inv
<1>2. QED
  BY <1>1, InvAlways, PTL

\* Two-step binding: whoever is bound was confirmed by biz for that player,
\* however late and in whatever order the answers come (OnUpstreamPacket), as
\* long as it gave no number of an unanswered request to one for another player.
THEOREM OnlyVerified == Spec => []BoundVerified
<1>1. Inv => BoundVerified
  BY DEF Inv
<1>2. QED
  BY <1>1, InvAlways, PTL

\* A connection loses its player by its own end, or to one biz has confirmed
\* (or that used a number again).
THEOREM NoneDisplacedWrongly == Spec => KickJustified
<1> DEFINE Justified == \A c \in Conns : LET p == conn_player[c] IN
             p # None /\ conn_player'[c] # p =>
                \/ Closing(c)
                \/ conn_player'[c] # None /\ Verified(c, conn_player'[c])
                \/ \E d \in Conns \ {c} : conn_player'[d] = p /\ Verified(d, p)
<1>1. ASSUME Inv, Next PROVE Justified
  <2> USE GatewayAssumption
  <2>1. CASE UNCHANGED conn_player
    BY <2>1
  <2>2. ASSUME NEW c \in Conns, CleanupPlayerState(c) PROVE Justified
    BY <1>1, <2>2 DEF CleanupPlayerState, Closing, Inv, TypeOK
  <2>3. CASE BindPlayer
    <3>1. up.conn \in Conns /\ up.arg \in Players /\ Verified(up.conn, up.arg)
      BY <1>1, <2>3 DEF Inv, UpOK, BindPlayer
    <3>2. ASSUME NEW c \in Conns, conn_player[c] # None, conn_player'[c] # conn_player[c]
          PROVE  \/ conn_player'[c] # None /\ Verified(c, conn_player'[c])
                 \/ c # up.conn /\ conn_player'[up.conn] = conn_player[c]
                                /\ Verified(up.conn, conn_player[c])
      <4>1. CASE c = up.conn
        BY <4>1, <3>1, <2>3 DEF BindPlayer
      <4>2. CASE c # up.conn
        <5>1. player_conn[up.arg] = c
          BY <4>2, <3>1, <3>2, <2>3 DEF BindPlayer
        <5>2. conn_player[c] = up.arg
          BY <5>1, <3>1, <1>1 DEF Inv, OneDevice
        <5>3. QED
          BY <5>2, <4>2, <3>1, <2>3 DEF BindPlayer
      <4>3. QED
        BY <4>1, <4>2
    <3>3. QED
      BY <3>1, <3>2
  <2>4. QED
    <3>1. ASSUME NEW c \in Conns, Client(c)
          PROVE  UNCHANGED conn_player \/ CleanupPlayerState(c)
      BY <3>1 DEF Client, Accept, SetCallbacks, WriteFails, OnClientConnect, HandleHandshake, HandlePlayerBind, RejectBind,
                  OnClientPacket, SendErrorAndClose, ForwardBind, Disconnect, RemoveClient, ExpireBind, binds
    <3>2. Upstream => UNCHANGED conn_player \/ BindPlayer
      BY DEF Upstream, OnBindAnswer, OnShortAnswer, KickConnection, AnswerBind, RefuseBind, OnRoomControl, binds
    <3>3. QED
      BY <1>1, <2>1, <2>2, <2>3, <3>1, <3>2 DEF Next
<1>2. Inv /\ [Next]_vars => [Justified]_vars
  BY <1>1
<1>3. QED
  BY <1>2, InvAlways, PTL DEF Spec, KickJustified
-----------------------------------------------------------------------------
(* The end of a connection.                                                *)

\* What the close handler has cleared stays cleared, but for what a late
\* answer of a service brings back; a connection that has no callbacks yet has
\* run no handler, and one that ends later than early is listed by then.
Cleared ==
  \A c \in Conns :
    /\ acc[c] \in {"none", "reading"} => pc[c] = "idle" \/ (pc[c] = "gone" /\ c \in early)
    /\ c \notin early =>
         /\ Closing(c) => acc[c] = "listed"
         /\ Closing(c) /\ c \notin late =>
              /\ conn_room[c] = None
              /\ c \notin stray => \A r \in Rooms : c \notin room_members[r]
         /\ CleanedUp(c) => pending[c] = None
         /\ CleanedUp(c) /\ c \notin late => conn_player[c] = None
         /\ pc[c] = "gone" => c \notin clients \cup sessions

\* A client's handlers, up to the end of the connection.
LEMMA ClearedByClient ==
  ASSUME Inv, Cleared, NEW c \in Conns, Client(c)
  PROVE  Cleared'
<1> USE GatewayAssumption DEF Inv, Goto, binds, rooms, reqs, ends
<1>1. CASE Accept(c) \/ SetCallbacks(c) \/ OnClientConnect(c) \/ HandleHandshake(c)
  BY <1>1 DEF Accept, SetCallbacks, OnClientConnect, HandleHandshake, Ready, Cleared, Closing, CleanedUp, TypeOK
<1>2. CASE HandlePlayerBind(c) \/ OnClientPacket(c) \/ SendErrorAndClose(c) \/ WriteFails(c)
  BY <1>2 DEF WriteFails, HandlePlayerBind, OnClientPacket, SendErrorAndClose, Ready, Cleared, Closing, CleanedUp,
              TypeOK
<1>3. CASE RejectBind(c) \/ ExpireBind(c) \/ \E p \in Players : ForwardBind(c, p)
  BY <1>3 DEF RejectBind, ExpireBind, ForwardBind, Forward, Cleared, Closing, CleanedUp, TypeOK
<1>4. CASE Disconnect(c)
  BY <1>4 DEF Disconnect, Astray, Cleared, Closing, CleanedUp, TypeOK
<1>5. CASE CleanupPlayerState(c)
  BY <1>5 DEF CleanupPlayerState, Cleared, Closing, CleanedUp, TypeOK
<1>6. CASE RemoveClient(c)
  BY <1>6 DEF RemoveClient, Cleared, Closing, CleanedUp, TypeOK
<1>7. QED
  BY <1>1, <1>2, <1>3, <1>4, <1>5, <1>6 DEF Client

\* What the upstream loop brings back is noted in late.
LEMMA ClearedByUpstream ==
  ASSUME Inv, Cleared, Upstream
  PROVE  Cleared'
<1> USE GatewayAssumption DEF Inv, binds, rooms, reqs, ends
<1>1. ASSUME NEW r \in toBiz,
             OnShortAnswer(r) \/ \E code \in {"ok", "refused", "garbled"} : OnBindAnswer(r, code)
      PROVE  Cleared'
  <2>1. /\ UNCHANGED <<acc, pc, clients, sessions, conn_player, rooms, early, late, stray>>
        /\ \A c \in Conns : pending'[c] = pending[c] \/ pending'[c] = None
    BY <1>1, GatewayAssumption DEF OnShortAnswer, OnBindAnswer, TypeOK
  <2>2. QED
    BY <2>1 DEF Cleared, Closing, CleanedUp
<1>2. CASE BindPlayer
  <2>1. up.conn \in Conns
    BY <1>2 DEF BindPlayer, UpOK
  <2>2. /\ \A d \in Conns : d # up.conn => conn_player'[d] \in {None, conn_player[d]}
        /\ late' = IF CleanedUp(up.conn) THEN late \cup {up.conn} ELSE late
        /\ UNCHANGED <<acc, pc, clients, sessions, pending, rooms, early, stray>>
    BY <1>2, <2>1 DEF BindPlayer
  <2>3. QED
    BY <2>1, <2>2 DEF Cleared, Closing, CleanedUp
<1>3. CASE KickConnection \/ AnswerBind \/ RefuseBind
  BY <1>3 DEF KickConnection, AnswerBind, RefuseBind, Cleared, Closing, CleanedUp
<1>4. ASSUME NEW m \in Control, OnRoomControl(m) PROVE Cleared'
  <2>1. /\ m.conn \in Conns
        /\ \A d \in Conns : d # m.conn =>
              /\ conn_room'[d] = conn_room[d]
              /\ \A r \in Rooms : d \in room_members'[r] <=> d \in room_members[r]
        /\ late' = IF Closing(m.conn) THEN late \cup {m.conn} ELSE late
        /\ UNCHANGED <<acc, pc, clients, sessions, pending, conn_player, early, stray>>
    BY <1>4 DEF OnRoomControl, Control, TypeOK
  <2>2. QED
    BY <2>1 DEF Cleared, Closing, CleanedUp
<1>5. QED
  BY <1>1, <1>2, <1>3, <1>4 DEF Upstream

\* The gateway forgets a connection that has ended: no client, no key, no
\* remembered request, whatever handlers, answers and expirations interleave
\* with its close handler; no player and no room noted for it, unless a service
\* answered after the clean-up; and no room has it as a member, unless it was in
\* another than the one noted (OnClientClose, CleanupPlayerState).
THEOREM Forgotten == Spec => []ClosedForgotten
<1>1. Init => Cleared
  BY DEF Init, Cleared, Closing, CleanedUp
<1>2. Inv /\ Cleared /\ [Next]_vars => Cleared'
  <2> SUFFICES ASSUME Inv, Cleared, [Next]_vars PROVE Cleared'
    OBVIOUS
  <2>1. CASE Next
    BY <2>1, ClearedByClient, ClearedByUpstream DEF Next
  <2>2. CASE UNCHANGED vars
    BY <2>2 DEF vars, binds, rooms, reqs, ends, Cleared, Closing, CleanedUp
  <2>3. QED
    BY <2>1, <2>2
<1>3. Cleared => ClosedForgotten
  BY DEF Cleared, ClosedForgotten, Closing, CleanedUp, IsPlayerBound
<1>4. QED
  BY <1>1, <1>2, <1>3, InvAlways, PTL DEF Spec
=============================================================================
