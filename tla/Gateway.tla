------------------------------ MODULE Gateway ------------------------------
(***************************************************************************)
(* The gateway (services/gateway-cpp/main.cpp): which player a client      *)
(* connection speaks for.  A client binds its connection to a player, biz  *)
(* checks the token, and a connection that loses its player to a newer one *)
(* is told and closed.                                                     *)
(*                                                                         *)
(* Threads: the accept thread, the event loop of each client (its          *)
(* handlers run one after the other, those of two clients side by side),   *)
(* the upstream loop that handles the answers of the services, and the     *)
(* heartbeat thread.  A step is one critical section of sessions_mtx_,     *)
(* player_mtx_ or room_mtx_.  Biz is external and gives any verdict or     *)
(* none; chat answers room requests; answers come in any order.  Requests  *)
(* carry the seq_id the client gave them, which may come back.  Encryption *)
(* and serialisation do not fail.                                          *)
(***************************************************************************)
EXTENDS Naturals

CONSTANTS
  Conns,      \* connection ids, never used again
  WS,         \* the ones that come through the WebSocket server
  Players, Rooms,
  Requests,   \* bound: the bind requests that clients may make
  Chatters,   \* bound: the connections that send requests to chat
  None        \* no connection, no player, no room (0 in the code)

ASSUME GatewayAssumption ==
  /\ WS \subseteq Conns
  /\ None \notin Conns \cup Players \cup Rooms
  /\ Chatters \subseteq Conns
  /\ \A r \in Requests : r.conn \in Conns /\ r.player \in Players /\ r.nth \in Nat

\* Requests are records of the connection, the player asked for, the seq_id
\* that the client chose, and which request of the connection it is.
Seqs    == {r.seq : r \in Requests}
Control == [cmd : {"JOIN", "LEAVE"}, room : Rooms, conn : Conns]

VARIABLES
  acc,           \* accept thread: "none", "reading", "called", "listed"
  pc,            \* where the event loop stands in a handler of the client
  clients,       \* clients_
  sessions,      \* HandshakeMiddleware::sessions_
  player_conn, conn_player,
  pending,       \* pending_binds_: the latest request of a connection, or None
  toBiz,         \* bind requests at biz, or their answers on the way back
  up,            \* the upstream loop: what is left to do for a bind answer
  conn_room, room_members,
  \* histories
  used,          \* bind requests a connection has made
  reused,        \* gave a request the number of an unanswered one for another player
  accepted,      \* <<c, p>>: biz confirmed that c may speak for p, and was heard
  spoke,         \* connections that sent chat a request while they were bound
  asked,         \* CloseAfterWrite was called
  broken,        \* a write failed after that: nothing closes the socket any more
  told,          \* were sent the answer to a bind
  missed,        \* an answer came before it was listed
  early,         \* ended before it was listed
  late,          \* the upstream loop touched it after its clean-up
  stray          \* ended while it was in a room other than the one noted

binds  == <<player_conn, conn_player, pending>>
rooms  == <<conn_room, room_members>>
reqs   == <<used, reused, accepted, spoke>>
ends   == <<asked, broken, told, missed, early, late, stray>>
vars   == <<acc, pc, clients, sessions, binds, toBiz, up, rooms, reqs, ends>>

Doing(at, c, x) == [at |-> at, conn |-> c, arg |-> x]
Idle == Doing("idle", None, None)

Init ==
  /\ acc = [c \in Conns |-> "none"] /\ pc = [c \in Conns |-> "idle"]
  /\ clients = {} /\ sessions = {}
  /\ player_conn = [p \in Players |-> None] /\ conn_player = [c \in Conns |-> None]
  /\ pending = [c \in Conns |-> None]
  /\ toBiz = {} /\ up = Idle
  /\ conn_room = [c \in Conns |-> None] /\ room_members = [r \in Rooms |-> {}]
  /\ used = [c \in Conns |-> 0] /\ reused = {} /\ accepted = {} /\ spoke = {}
  /\ asked = {} /\ broken = {} /\ told = {} /\ missed = {}
  /\ early = {} /\ late = {} /\ stray = {}

\* Plausible bug: any answer counts for the request that is remembered.
MatchesAny(c, s) == pending[c] # None

Goto(c, l)       == pc' = [pc EXCEPT ![c] = l]
IsPlayerBound(c) == conn_player[c] # None
Matches(c, s)    == pending[c] # None /\ pending[c].seq = s

\* The close handler of c has cleaned up what player_mtx_ guards.
CleanedUp(c) == pc[c] \in {"clients", "gone"}
Closing(c)   == pc[c] \in {"player", "clients", "gone"}

\* Under sessions_mtx_: a last packet for a client, then CloseAfterWrite,
\* which does nothing once the connection is closing.
CloseAfterWrite(c) == IF c \in clients /\ ~Closing(c) THEN asked \cup {c} ELSE asked

\* Chat moved c from a room to another, or out of a room it was not in.
Astray(c) == \E r \in Rooms \ {conn_room[c]} : c \in room_members[r]

\* A handler of c may start: the callbacks are set.
Ready(c) == acc[c] \in {"called", "listed"} /\ pc[c] = "idle"
-----------------------------------------------------------------------------
(* Accepting: the WebSocket server does all of it on the client's loop;    *)
(* the TCP server starts reading on the worker's loop, sets the callbacks  *)
(* and then calls OnClientConnect, with the client's loop running beside.  *)

Accept(c) ==
  /\ acc[c] = "none"
  /\ IF c \in WS
     THEN acc' = [acc EXCEPT ![c] = "listed"] /\ clients' = clients \cup {c}
     ELSE acc' = [acc EXCEPT ![c] = "reading"] /\ UNCHANGED clients
  /\ UNCHANGED <<pc, sessions, binds, toBiz, up, rooms, reqs, ends>>

SetCallbacks(c) ==
  /\ acc[c] = "reading" /\ acc' = [acc EXCEPT ![c] = "called"]
  /\ UNCHANGED <<pc, clients, sessions, binds, toBiz, up, rooms, reqs, ends>>

\* The close handler may have run by then.
OnClientConnect(c) ==
  /\ acc[c] = "called" /\ acc' = [acc EXCEPT ![c] = "listed"]
  /\ clients' = clients \cup {c}
  /\ UNCHANGED <<pc, sessions, binds, toBiz, up, rooms, reqs, ends>>
-----------------------------------------------------------------------------
(* The client's event loop: packets.                                       *)

HandleHandshake(c) ==
  /\ Ready(c) /\ c \notin sessions
  /\ sessions' = sessions \cup {c}
  /\ UNCHANGED <<acc, pc, clients, binds, toBiz, up, rooms, reqs, ends>>

\* OnClientPacket, a bind request: first the look at conn_player_.
HandlePlayerBind(c) ==
  /\ Ready(c) /\ c \in sessions
  /\ \E r \in Requests : r.conn = c /\ r.nth = used[c] + 1
  /\ used' = [used EXCEPT ![c] = @ + 1]
  /\ Goto(c, IF IsPlayerBound(c) THEN "error" ELSE "bind")
  /\ UNCHANGED <<acc, clients, sessions, binds, toBiz, up, rooms, reused, accepted, spoke, ends>>

Forward(c, p) ==
  \E r \in Requests :
     /\ r.conn = c /\ r.nth = used[c] /\ r.player = p
     /\ pending' = [pending EXCEPT ![c] = [player |-> p, seq |-> r.seq]]
     /\ toBiz' = toBiz \cup {r}
     /\ reused' = IF \E q \in toBiz : q.conn = c /\ q.seq = r.seq /\ q.player # p
                  THEN reused \cup {c} ELSE reused

\* Plausible bug: the older connection goes before biz has confirmed the new one.
ForwardBindKicks(c, p) ==
  /\ pc[c] = "bind" /\ Goto(c, "idle")
  /\ Forward(c, p)
  /\ player_conn' = [player_conn EXCEPT ![p] = None]
  /\ conn_player' = [d \in Conns |-> IF conn_player[d] = p THEN None ELSE conn_player[d]]
  /\ UNCHANGED <<acc, clients, sessions, up, rooms, used, accepted, spoke, ends>>

\* The request is remembered in the place of an earlier one and goes to biz;
\* when the send fails it is forgotten again without a word.
ForwardBind(c, p) ==
  /\ pc[c] = "bind" /\ Goto(c, "idle")
  /\ \/ Forward(c, p)
     \/ pending' = [pending EXCEPT ![c] = None] /\ UNCHANGED <<toBiz, reused>>
  /\ UNCHANGED <<acc, clients, sessions, player_conn, conn_player, up, rooms,
                 used, accepted, spoke, ends>>

\* It does not parse, or it was remembered but there is no pool to send it to.
RejectBind(c) ==
  /\ pc[c] = "bind" /\ Goto(c, "error")
  /\ pending' \in {pending, [pending EXCEPT ![c] = None]}
  /\ UNCHANGED <<acc, clients, sessions, player_conn, conn_player, toBiz, up, rooms, reqs, ends>>

\* OnClientPacket, any other command: a client that is not bound is turned
\* away, the request of one that is bound goes to chat.
OnClientPacket(c) ==
  /\ Ready(c) /\ c \in sessions
  /\ \/ ~IsPlayerBound(c) /\ Goto(c, "error") /\ UNCHANGED spoke
     \/ IsPlayerBound(c) /\ c \in Chatters /\ spoke' = spoke \cup {c} /\ UNCHANGED pc
  /\ UNCHANGED <<acc, clients, sessions, binds, toBiz, up, rooms, used, reused, accepted, ends>>

\* SendErrorAndClose, under sessions_mtx_.
SendErrorAndClose(c) ==
  /\ pc[c] = "error" /\ Goto(c, "idle")
  /\ asked' = CloseAfterWrite(c)
  /\ UNCHANGED <<acc, clients, sessions, binds, toBiz, up, rooms, reqs,
                 broken, told, missed, early, late, stray>>
-----------------------------------------------------------------------------
(* The client's event loop: the end of the connection.                     *)

\* A write fails after CloseAfterWrite: the Close() that follows returns at
\* once, and so does every later one (Lapsed in Connection).
WriteFails(c) ==
  /\ c \in asked \cap WS /\ ~Closing(c)
  /\ broken' = broken \cup {c}
  /\ UNCHANGED <<acc, pc, clients, sessions, binds, toBiz, up, rooms, reqs,
                 asked, told, missed, early, late, stray>>

\* The peer leaves, a packet is bad, or a drained WebSocket closes: the close
\* handler takes the adapter out of ws_clients_ and leaves the room that is
\* noted.  A TCP connection that was not given its callbacks yet ends in silence.
Disconnect(c) ==
  /\ acc[c] # "none" /\ pc[c] = "idle" /\ c \notin broken
  /\ early' = IF acc[c] = "listed" THEN early ELSE early \cup {c}
  /\ stray' = IF Astray(c) THEN stray \cup {c} ELSE stray
  /\ IF acc[c] = "reading" THEN Goto(c, "gone") /\ UNCHANGED rooms
     ELSE /\ Goto(c, "player")
          /\ conn_room' = [conn_room EXCEPT ![c] = None]
          /\ room_members' = [r \in Rooms |-> IF conn_room[c] = r THEN room_members[r] \ {c}
                                                                 ELSE room_members[r]]
  /\ UNCHANGED <<acc, clients, sessions, binds, toBiz, up, reqs,
                 asked, broken, told, missed, late>>

\* Plausible bug: the remembered request survives.
CleanupBoundOnly(c) ==
  /\ pc[c] = "player" /\ Goto(c, "clients")
  /\ conn_player' = [conn_player EXCEPT ![c] = None]
  /\ player_conn' = [p \in Players |-> IF conn_player[c] = p THEN None ELSE player_conn[p]]
  /\ UNCHANGED <<acc, clients, sessions, pending, toBiz, up, rooms, reqs, ends>>

CleanupPlayerState(c) ==
  /\ pc[c] = "player" /\ Goto(c, "clients")
  /\ pending' = [pending EXCEPT ![c] = None]
  /\ conn_player' = [conn_player EXCEPT ![c] = None]
  /\ player_conn' = [p \in Players |->
                       IF conn_player[c] = p /\ player_conn[p] = c THEN None ELSE player_conn[p]]
  /\ UNCHANGED <<acc, clients, sessions, toBiz, up, rooms, reqs, ends>>

RemoveClient(c) ==
  /\ pc[c] = "clients" /\ Goto(c, "gone")
  /\ clients' = clients \ {c} /\ sessions' = sessions \ {c}
  /\ UNCHANGED <<acc, binds, toBiz, up, rooms, reqs, ends>>
-----------------------------------------------------------------------------
(* The upstream loop: OnUpstreamPacket.                                    *)

\* The answer to request r arrives: biz confirms the player, refuses it, or
\* the answer does not parse.  It counts only for the request remembered.
OnBindAnswer(r, code) ==
  /\ up = Idle /\ toBiz' = toBiz \ {r}
  /\ IF Matches(r.conn, r.seq)
     THEN /\ pending' = [pending EXCEPT ![r.conn] = None]
          /\ accepted' = IF code = "ok" THEN accepted \cup {<<r.conn, r.player>>} ELSE accepted
          /\ up' = IF code = "ok" THEN Doing("bind", r.conn, pending[r.conn].player)
                   ELSE IF code = "refused" THEN Doing("refuse", r.conn, None) ELSE Idle
     ELSE UNCHANGED <<pending, accepted, up>>
  /\ UNCHANGED <<acc, pc, clients, sessions, player_conn, conn_player, rooms,
                 used, reused, spoke, ends>>

\* An answer too short to name its connection ends every request of its number.
OnShortAnswer(r) ==
  /\ up = Idle /\ toBiz' = toBiz \ {r}
  /\ pending' = [c \in Conns |-> IF Matches(c, r.seq) THEN None ELSE pending[c]]
  /\ UNCHANGED <<acc, pc, clients, sessions, player_conn, conn_player, up, rooms, reqs, ends>>

\* Plausible bug: the older connection keeps its entry in conn_player_.
BindPlayerKeep ==
  /\ up.at = "bind" /\ up' = Doing("answer", up.conn, None)
  /\ player_conn' = [player_conn EXCEPT ![up.arg] = up.conn]
  /\ conn_player' = [conn_player EXCEPT ![up.conn] = up.arg]
  /\ late' = IF CleanedUp(up.conn) THEN late \cup {up.conn} ELSE late
  /\ UNCHANGED <<acc, pc, clients, sessions, pending, toBiz, rooms, reqs,
                 asked, broken, told, missed, early, stray>>

\* BindPlayer, under player_mtx_: c gives up the player it had, p its connection.
BindPlayer ==
  LET c == up.conn
      p == up.arg
      old == IF player_conn[p] = c THEN None ELSE player_conn[p] IN
  /\ up.at = "bind"
  /\ player_conn' = [q \in Players |-> IF q = p THEN c
                                       ELSE IF conn_player[c] = q /\ player_conn[q] = c THEN None
                                       ELSE player_conn[q]]
  /\ conn_player' = [d \in Conns |-> IF d = c THEN p ELSE IF d = old THEN None ELSE conn_player[d]]
  /\ up' = IF old = None THEN Doing("answer", c, None) ELSE Doing("kick", c, old)
  /\ late' = IF CleanedUp(c) THEN late \cup {c} ELSE late
  /\ UNCHANGED <<acc, pc, clients, sessions, pending, toBiz, rooms, reqs,
                 asked, broken, told, missed, early, stray>>

\* Plausible bug: the notice is sent and the connection left open.
KickConnectionNotice ==
  /\ up.at = "kick" /\ up' = Doing("answer", up.conn, None)
  /\ UNCHANGED <<acc, pc, clients, sessions, binds, toBiz, rooms, reqs, ends>>

\* KickConnection, under sessions_mtx_: the notice, then CloseAfterWrite.
KickConnection ==
  /\ up.at = "kick" /\ up' = Doing("answer", up.conn, None)
  /\ asked' = CloseAfterWrite(up.arg)
  /\ UNCHANGED <<acc, pc, clients, sessions, binds, toBiz, rooms, reqs,
                 broken, told, missed, early, late, stray>>

\* The client's answer goes to the coalescer, if the client is still there.
AnswerBind ==
  /\ up.at = "answer" /\ up' = Idle
  /\ told' = IF up.conn \in sessions \cap clients THEN told \cup {up.conn} ELSE told
  /\ missed' = IF acc[up.conn] = "listed" THEN missed ELSE missed \cup {up.conn}
  /\ UNCHANGED <<acc, pc, clients, sessions, binds, toBiz, rooms, reqs,
                 asked, broken, early, late, stray>>

\* SendToClientDirect: the refusal, then CloseAfterWrite.
RefuseBind ==
  /\ up.at = "refuse" /\ up' = Idle
  /\ asked' = CloseAfterWrite(up.conn)
  /\ UNCHANGED <<acc, pc, clients, sessions, binds, toBiz, rooms, reqs,
                 broken, told, missed, early, late, stray>>

\* Chat answers room requests of clients that were bound when they sent them:
\* by now they may be displaced, closing or gone.
Known(c) == c \in spoke

\* CMD_GW_ROOM_JOIN and CMD_GW_ROOM_LEAVE: of any room, whichever is noted.
OnRoomControl(m) ==
  /\ up = Idle /\ Known(m.conn)
  /\ conn_room' = [conn_room EXCEPT ![m.conn] = IF m.cmd = "JOIN" THEN m.room ELSE None]
  /\ room_members' = [room_members EXCEPT ![m.room] =
                        IF m.cmd = "JOIN" THEN @ \cup {m.conn} ELSE @ \ {m.conn}]
  /\ late' = IF Closing(m.conn) THEN late \cup {m.conn} ELSE late
  /\ UNCHANGED <<acc, pc, clients, sessions, binds, toBiz, up, reqs,
                 asked, broken, told, missed, early, stray>>

\* HeartbeatLoop: a request that was not answered in 10 seconds.
ExpireBind(c) ==
  /\ pending[c] # None /\ pending' = [pending EXCEPT ![c] = None]
  /\ UNCHANGED <<acc, pc, clients, sessions, player_conn, conn_player, toBiz, up, rooms, reqs, ends>>

Client(c) ==
  \/ Accept(c) \/ SetCallbacks(c) \/ OnClientConnect(c) \/ HandleHandshake(c)
  \/ HandlePlayerBind(c) \/ RejectBind(c) \/ OnClientPacket(c) \/ SendErrorAndClose(c)
  \/ \E p \in Players : ForwardBind(c, p)
  \/ WriteFails(c) \/ Disconnect(c) \/ CleanupPlayerState(c) \/ RemoveClient(c)
  \/ ExpireBind(c)

Upstream ==
  \/ \E r \in toBiz : OnShortAnswer(r) \/ \E code \in {"ok", "refused", "garbled"} : OnBindAnswer(r, code)
  \/ BindPlayer \/ KickConnection \/ AnswerBind \/ RefuseBind
  \/ \E m \in Control : OnRoomControl(m)

Next ==
  \/ \E c \in Conns : Client(c)
  \/ Upstream

\* The upstream loop ends what it has begun, and so does a client's handler;
\* a WebSocket that was asked to closes once it is drained, between two of its
\* handlers, unless a write fails before (DrainEnds of Connection).  Nothing is
\* assumed of a TCP connection, of clients and of services.
GoesOn(c) ==
  \/ RejectBind(c) \/ \E p \in Players : ForwardBind(c, p)
  \/ SendErrorAndClose(c) \/ CleanupPlayerState(c) \/ RemoveClient(c)

Fairness ==
  /\ WF_vars(BindPlayer \/ KickConnection \/ AnswerBind \/ RefuseBind)
  /\ \A c \in Conns : WF_vars(GoesOn(c))
  /\ \A c \in WS : SF_vars(c \in asked \ broken /\ Disconnect(c))

Spec == Init /\ [][Next]_vars /\ Fairness
-----------------------------------------------------------------------------
Labels == {"idle", "bind", "error", "player", "clients", "gone"}

\* Every variable keeps its type, and the two room maps agree: the room a
\* connection is noted in has it as a member.
TypeOK ==
  /\ acc \in [Conns -> {"none", "reading", "called", "listed"}]
  /\ pc \in [Conns -> Labels]
  /\ clients \subseteq Conns /\ sessions \subseteq Conns
  /\ player_conn \in [Players -> Conns \cup {None}]
  /\ conn_player \in [Conns -> Players \cup {None}]
  /\ pending \in [Conns -> [player : Players, seq : Seqs] \cup {None}]
  /\ toBiz \subseteq Requests
  /\ up \in [at : {"idle", "bind", "kick", "answer", "refuse"}, conn : Conns \cup {None},
             arg : Conns \cup Players \cup {None}]
  /\ conn_room \in [Conns -> Rooms \cup {None}] /\ room_members \in [Rooms -> SUBSET Conns]
  /\ used \in [Conns -> Nat] /\ reused \subseteq Conns /\ accepted \subseteq Conns \X Players
  /\ \A c \in Conns : conn_room[c] # None => c \in room_members[conn_room[c]]

\* Single-device login: player_conn_ and conn_player_ are inverse to each
\* other, so a player has one connection and a connection one player,
\* whatever binds, takeovers, rebinds and disconnects run side by side.
OneDevice ==
  \A c \in Conns, p \in Players : conn_player[c] = p <=> player_conn[p] = c

\* Two-step binding: a connection speaks for a player only if biz confirmed
\* exactly that.  A late answer to an earlier request must not confirm a
\* later one (the check of seq_id in OnUpstreamPacket).  The check compares
\* numbers the client chose, so it tells nothing about a connection that gave a
\* second request the number of one that biz had not answered yet, for another
\* player: that one is excepted.
Verified(c, p) == <<c, p>> \in accepted \/ c \in reused

BoundVerified ==
  \A c \in Conns : IsPlayerBound(c) => Verified(c, conn_player[c])

\* Nobody is pushed out by a request biz did not confirm: a connection loses
\* its player only by its own end, by binding another player that biz
\* confirmed, or to a connection that biz confirmed for the same player (or that
\* used a number again, see BoundVerified).
KickJustified ==
  [][\A c \in Conns : LET p == conn_player[c] IN
       p # None /\ conn_player'[c] # p =>
          \/ Closing(c)
          \/ conn_player'[c] # None /\ Verified(c, conn_player'[c])
          \/ \E d \in Conns \ {c} : conn_player'[d] = p /\ Verified(d, p)]_vars

\* When the close handler is done nothing of the connection is left, unless it
\* ran before the accept thread had listed the client: no client, no key, no
\* remembered request; no player and no room noted, unless an answer of a
\* service came after the clean-up (late); and no room has it as a member,
\* unless it was then in a room other than the one noted (stray): the handler
\* does not find that one.
ClosedForgotten ==
  \A c \in Conns : (pc[c] = "gone" /\ c \notin early) =>
     /\ c \notin clients \cup sessions /\ pending[c] = None
     /\ c \notin late =>
          /\ ~IsPlayerBound(c) /\ conn_room[c] = None
          /\ c \notin stray => \A r \in Rooms : c \notin room_members[r]

\* A WebSocket that lost its player to another connection is closed in the end
\* (BindPlayer, KickConnection, CloseAfterWrite, the close handler), unless
\* its socket broke.  (A TCP client is not: ClosesAfterWrite of Connection.)
DisplacedCloses ==
  \A c \in WS : (up.at = "kick" /\ up.arg = c) ~> (pc[c] = "gone" \/ c \in broken)

\* A client that is bound has been sent the answer, or is about to close. One
\* that is bound before the accept thread has listed it misses the answer.
BoundTold ==
  \A c \in Conns : IsPlayerBound(c) ~> (c \in told \cup asked \cup missed \/ Closing(c))

\* A takeover is carried through on both sides, whichever of the two clients
\* breaks off on the way: the displaced WebSocket goes, the new one is told.
TakeoverEnds == DisplacedCloses /\ BoundTold
=============================================================================
