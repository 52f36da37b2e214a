------------------------------ MODULE Registry ------------------------------
(***************************************************************************)
(* registry-go with the memory store: the node table, the event channels   *)
(* of the subscribers, the handlers of its TCP server and the goroutines   *)
(* they start (one watchLoop and one cleanup goroutine per subscribed      *)
(* service type), the TTL sweeper and the shutdown.                        *)
(*                                                                         *)
(* A watchLoop, its channel and its cleanup goroutine are named by the     *)
(* connection, the service type and the number of the context they were    *)
(* started with: every Watch request, and the first Subscribe request of a *)
(* connection, creates a context. A node registers over a connection of    *)
(* its own. A critical section of m.mu is one step, except sweepExpired,   *)
(* which asks for m.mu again while it holds it.                            *)
(***************************************************************************)
EXTENDS Naturals, FiniteSets, Sequences, SequencesExt

CONSTANTS
    Conns,       \* connections that watch or subscribe
    Watchers,    \* those that send Watch requests
    Types,       \* service types
    Nodes,       \* nodes that register
    TypeOf,      \* the service type of each node
    EventCap,    \* capacity of an event channel (16)
    SendCap,     \* capacity of a connection's writeCh (256)
    MaxCtx,      \* bound on the contexts of one connection
    MaxRegs      \* bound on Register requests

ASSUME TypesAssumption ==
    /\ TypeOf \in [Nodes -> Types]
    /\ Watchers \subseteq Conns
ASSUME CapsAssumption ==
    /\ EventCap \in Nat \ {0} /\ SendCap \in Nat \ {0}
    /\ MaxCtx \in Nat \ {0} /\ MaxRegs \in Nat

Ctxs == 1..MaxCtx
Loops == Conns \X Types \X Ctxs
ConnOf(l) == l[1]
SvcOf(l) == l[2]
CtxOf(l) == <<l[1], l[3]>>

VARIABLES
    nodes,      \* m.nodes, m.leases and m.lastHeartbeat of each node
    watching,   \* the channels in m.watches
    closed,     \* the channels that have been closed
    buf,        \* events in each channel
    mu,         \* "free", or "sweeper" when sweepExpired waits inside it
    store,      \* "open", or "closed" after MemoryStore.Close
    fault,      \* the panic that ended the process, or "none"
    reg, regs,  \* Register handlers: running or not, channels still to send to
    conn,       \* "open", "closing" (shutdown has begun), "closed"
    sub,        \* the types of the handleSubscribe that is running
    unread,     \* those it has still to look up
    found,      \* the nodes it has found so far
    watcher,    \* s.watchers: context, service types, made by handleWatch
    lastCtx,    \* contexts created on each connection
    cancelled,  \* contexts that have been cancelled
    loop,       \* the watchLoop goroutines
    cleaner,    \* cleanup goroutines still waiting
    out,        \* writeCh of each connection
    view,       \* nodes the client behind each connection has been told of
    owed,       \* history: nodes registered since the channel was subscribed
                \*   whose event has not been dropped
    server      \* "up", "stopping", "cancelled", "down"

storeVars == <<nodes, watching, closed, buf, mu, store, fault>>
regVars == <<reg, regs>>
snapVars == <<unread, found>>
connVars == <<conn, sub, snapVars, watcher, lastCtx, cancelled>>
loopVars == <<loop, cleaner>>
clientVars == <<out, view>>
vars == <<nodes, watching, closed, buf, mu, store, fault, reg, regs, conn, sub,
          unread, found, watcher, lastCtx, cancelled, loop, cleaner, out, view, owed, server>>

Message == [kind : {"snapshot", "event"}, nodes : SUBSET Nodes]
Snapshot(S) == [kind |-> "snapshot", nodes |-> S]
Event(n) == [kind |-> "event", nodes |-> {n}]
NoWatcher == [ctx |-> 0, types |-> {}, watch |-> FALSE]

-----------------------------------------------------------------------------
(* Helpers                                                                 *)

Alive == fault = "none"

\* A critical section of m.mu can be entered.
CanLock == Alive /\ mu = "free"

\* The readLoop of c can take the next request. The connections stay open
\* until tcpServer.Stop comes to them.
Reading(c) == Alive /\ conn[c] = "open" /\ sub[c] = {}
Serving == server \in {"up", "stopping"}

Discover(T) == {n \in Nodes : nodes[n] # "absent" /\ TypeOf[n] \in T}

\* Mutant: without the check for room in writeCh.
SendOkNoRoom(c) == conn[c] = "open"
\* conn.SendPacket returns true.
SendOk(c) == conn[c] = "open" /\ Len(out[c]) < SendCap

\* sendProto ignores the result of SendPacket.
SendProto(c, m) == out' = IF SendOk(c) THEN [out EXCEPT ![c] = Append(@, m)] ELSE out

\* close(ch): closing a closed channel is a panic nobody recovers.
CloseAll(S) ==
    /\ closed' = closed \cup S
    /\ fault' = IF S \cap closed = {} THEN fault ELSE "doubleclose"

-----------------------------------------------------------------------------
(* MemoryStore: registration and expiry                                    *)

\* handleRegister and the locked part of Register: the watchers are copied.
Register(n) ==
    LET told == {l \in watching : SvcOf(l) = TypeOf[n]} IN
    /\ CanLock /\ Serving
    /\ ~reg[n].busy /\ regs < MaxRegs
    /\ nodes' = [nodes EXCEPT ![n] = "fresh"]
    /\ reg' = [reg EXCEPT ![n] = [busy |-> TRUE, todo |-> told]]
    /\ regs' = regs + 1
    /\ owed' = [l \in Loops |-> IF l \in told THEN owed[l] \cup {n} ELSE owed[l]]
    /\ UNCHANGED <<watching, closed, buf, mu, store, fault, server>>
    /\ UNCHANGED <<connVars, loopVars, clientVars>>

Told(n, l) == reg' = [reg EXCEPT ![n].todo = @ \ {l}]

SendJoin(n, l) ==
    /\ Alive /\ l \in reg[n].todo
    /\ l \notin closed /\ Len(buf[l]) < EventCap
    /\ buf' = [buf EXCEPT ![l] = Append(@, n)]
    /\ Told(n, l)
    /\ UNCHANGED <<nodes, watching, closed, mu, store, fault, regs, owed, server>>
    /\ UNCHANGED <<connVars, loopVars, clientVars>>

\* Mutant: a blocking send.
DropJoinBlocking(n, l) == FALSE /\ UNCHANGED vars

\* The default branch of the select: the channel is full.
DropJoin(n, l) ==
    /\ Alive /\ l \in reg[n].todo
    /\ l \notin closed /\ Len(buf[l]) >= EventCap
    /\ owed' = [owed EXCEPT ![l] = @ \ {n}]
    /\ Told(n, l)
    /\ UNCHANGED <<storeVars, regs, connVars, loopVars, clientVars, server>>

\* A send on a closed channel panics; readLoop recovers, the registering
\* connection ends without an answer and the rest of the list is not told.
PanicJoin(n, l) ==
    /\ Alive /\ l \in reg[n].todo /\ l \in closed
    /\ reg' = [reg EXCEPT ![n] = [busy |-> FALSE, todo |-> {}]]
    /\ owed' = [k \in Loops |-> IF k \in reg[n].todo THEN owed[k] \ {n} ELSE owed[k]]
    /\ UNCHANGED <<storeVars, regs, connVars, loopVars, clientVars, server>>

RegisterReply(n) ==
    /\ Alive /\ reg[n].busy /\ reg[n].todo = {}
    /\ reg' = [reg EXCEPT ![n].busy = FALSE]
    /\ UNCHANGED <<storeVars, regs, connVars, loopVars, clientVars, owed, server>>

\* A heartbeat of an unknown node is answered with an error and changes nothing.
Heartbeat(n) ==
    /\ CanLock /\ Serving /\ ~reg[n].busy
    /\ nodes[n] = "stale"
    /\ nodes' = [nodes EXCEPT ![n] = "fresh"]
    /\ UNCHANGED <<watching, closed, buf, mu, store, fault, regVars, owed, server>>
    /\ UNCHANGED <<connVars, loopVars, clientVars>>

\* defaultTTL passes without a heartbeat while the sweeper runs.
Lapse(n) ==
    /\ CanLock /\ server # "down" /\ nodes[n] = "fresh"
    /\ nodes' = [nodes EXCEPT ![n] = "stale"]
    /\ UNCHANGED <<watching, closed, buf, mu, store, fault, regVars, owed, server>>
    /\ UNCHANGED <<connVars, loopVars, clientVars>>

Expired == {n \in Nodes : nodes[n] = "stale"}

\* sweepExpired finds an expired node and calls broadcast, which asks for
\* m.mu.RLock while this goroutine holds m.mu.Lock.
SweepExpired ==
    /\ CanLock /\ server # "down" /\ Expired # {}
    /\ mu' = "sweeper"
    /\ UNCHANGED <<nodes, watching, closed, buf, store, fault, regVars, owed, server>>
    /\ UNCHANGED <<connVars, loopVars, clientVars>>

\* What follows once broadcast has its read lock (never: only the sweeper
\* itself could release m.mu). The LEAVE events are left out.
SweepLeave ==
    /\ CanLock /\ mu = "sweeper"
    /\ nodes' = [n \in Nodes |-> IF n \in Expired THEN "absent" ELSE nodes[n]]
    /\ mu' = "free"
    /\ UNCHANGED <<watching, closed, buf, store, fault, regVars, owed, server>>
    /\ UNCHANGED <<connVars, loopVars, clientVars>>

-----------------------------------------------------------------------------
(* Server: requests of a watching connection                               *)

HandleDiscover(c, T) ==
    /\ CanLock /\ Reading(c) /\ Cardinality(T) = 1
    /\ SendProto(c, Snapshot(Discover(T)))
    /\ UNCHANGED <<storeVars, regVars, connVars, loopVars, view, owed, server>>

\* A new watcher replaces the one the connection had, whose context is lost.
HandleWatch(c, t) ==
    LET k == lastCtx[c] + 1 IN
    /\ Reading(c) /\ c \in Watchers /\ k <= MaxCtx
    /\ watcher' = [watcher EXCEPT ![c] = [ctx |-> k, types |-> {t}, watch |-> TRUE]]
    /\ lastCtx' = [lastCtx EXCEPT ![c] = k]
    /\ loop' = [loop EXCEPT ![<<c, t, k>>] = "starting"]
    /\ UNCHANGED <<storeVars, regVars, conn, sub, snapVars, cancelled, cleaner, clientVars, owed, server>>

HandleSubscribe(c, T) ==
    /\ Reading(c) /\ T # {} /\ lastCtx[c] < MaxCtx
    /\ sub' = [sub EXCEPT ![c] = T] /\ unread' = [unread EXCEPT ![c] = T]
    /\ UNCHANGED <<storeVars, regVars, conn, found, watcher, lastCtx, cancelled, loopVars,
                   clientVars, owed, server>>

\* One Discover, with a turn of m.mu of its own, for each type; the snapshot is
\* sent when the last is in.
SubscribeSnapshot(c, t) ==
    LET got == found[c] \cup Discover({t})
        last == unread[c] = {t} IN
    /\ CanLock /\ t \in unread[c]
    /\ unread' = [unread EXCEPT ![c] = @ \ {t}]
    /\ found' = [found EXCEPT ![c] = IF last THEN {} ELSE got]
    /\ IF last THEN SendProto(c, Snapshot(got)) ELSE UNCHANGED out
    /\ UNCHANGED <<storeVars, regVars, conn, sub, watcher, lastCtx, cancelled, loopVars, view,
                   owed, server>>

\* The rest of handleSubscribe. The watchCtx of a watcher made by handleWatch
\* is nil: the cleanup goroutine of the new watchLoop panics on it and takes
\* the process down.
SubscribeWatch(c) ==
    LET w == watcher[c]
        new == sub[c] \ w.types
        k == IF w.ctx = 0 THEN lastCtx[c] + 1 ELSE w.ctx IN
    /\ Alive /\ sub[c] # {} /\ unread[c] = {}
    /\ sub' = [sub EXCEPT ![c] = {}]
    /\ watcher' = [watcher EXCEPT ![c] = [ctx |-> k, types |-> w.types \cup new, watch |-> w.watch]]
    /\ lastCtx' = [lastCtx EXCEPT ![c] = IF w.ctx = 0 THEN k ELSE @]
    /\ fault' = IF w.watch /\ new # {} THEN "nilctx" ELSE fault
    /\ loop' = [l \in Loops |-> IF l \in {c} \X new \X {k} THEN "starting" ELSE loop[l]]
    /\ UNCHANGED <<nodes, watching, closed, buf, mu, store, regVars, conn, snapVars, cancelled, cleaner,
                   clientVars, owed, server>>

\* TCPConn.shutdown, by readLoop or writeLoop: the flag first, then onClose.
Shutdown(c) ==
    /\ Alive /\ conn[c] = "open"
    /\ conn' = [conn EXCEPT ![c] = "closing"]
    /\ out' = [out EXCEPT ![c] = <<>>]
    /\ view' = [view EXCEPT ![c] = {}]
    /\ UNCHANGED <<storeVars, regVars, sub, snapVars, watcher, lastCtx, cancelled, loopVars, owed, server>>

OnDisconnect(c) ==
    /\ Alive /\ conn[c] = "closing"
    /\ conn' = [conn EXCEPT ![c] = "closed"]
    /\ cancelled' = IF watcher[c].ctx = 0 THEN cancelled
                    ELSE cancelled \cup {<<c, watcher[c].ctx>>}
    /\ watcher' = [watcher EXCEPT ![c] = NoWatcher]
    /\ UNCHANGED <<storeVars, regVars, sub, snapVars, lastCtx, loopVars, clientVars, owed, server>>

-----------------------------------------------------------------------------
(* watchLoop and the cleanup goroutine                                     *)

\* subscribeInternal(ctx, type, FALSE): the channel joins m.watches.
StartLoop(l) ==
    /\ CanLock /\ loop[l] = "starting" /\ store = "open"
    /\ loop' = [loop EXCEPT ![l] = "running"]
    /\ watching' = watching \cup {l}
    /\ cleaner' = cleaner \cup {l}
    /\ UNCHANGED <<nodes, closed, buf, mu, store, fault, regVars, connVars, clientVars, owed, server>>

\* "store closed".
StartRefused(l) ==
    /\ CanLock /\ loop[l] = "starting" /\ store = "closed"
    /\ loop' = [loop EXCEPT ![l] = "gone"]
    /\ UNCHANGED <<storeVars, regVars, connVars, cleaner, clientVars, owed, server>>

\* Mutant: goes on after a failed send.
ForwardIgnoring(l) ==
    LET c == ConnOf(l) IN
    /\ Alive /\ loop[l] = "running" /\ buf[l] # <<>>
    /\ buf' = [buf EXCEPT ![l] = Tail(@)]
    /\ SendProto(c, Event(Head(buf[l])))
    /\ UNCHANGED <<nodes, watching, closed, mu, store, fault, regVars, connVars, loopVars, view, owed, server>>

\* One event of the channel goes to the connection. A failed send, because
\* the connection is closing or because writeCh is full, ends the loop.
Forward(l) ==
    LET c == ConnOf(l) IN
    /\ Alive /\ loop[l] = "running" /\ buf[l] # <<>>
    /\ buf' = [buf EXCEPT ![l] = Tail(@)]
    /\ SendProto(c, Event(Head(buf[l])))
    /\ loop' = IF SendOk(c) THEN loop ELSE [loop EXCEPT ![l] = "gone"]
    /\ UNCHANGED <<nodes, watching, closed, mu, store, fault, regVars, connVars, cleaner, view, owed, server>>

\* The channel is closed and drained: range ends.
EndLoop(l) ==
    /\ Alive /\ loop[l] = "running" /\ buf[l] = <<>> /\ l \in closed
    /\ loop' = [loop EXCEPT ![l] = "gone"]
    /\ UNCHANGED <<storeVars, regVars, connVars, cleaner, clientVars, owed, server>>

\* Mutant: without the check of m.closed.
CleanupBlind(l) ==
    /\ CanLock /\ l \in cleaner /\ CtxOf(l) \in cancelled
    /\ cleaner' = cleaner \ {l}
    /\ watching' = watching \ {l}
    /\ CloseAll({l})
    /\ UNCHANGED <<nodes, buf, mu, store, regVars, connVars, loop, clientVars, owed, server>>

\* Mutant: without close(ch).
CleanupUnclosed(l) ==
    /\ CanLock /\ l \in cleaner /\ CtxOf(l) \in cancelled
    /\ cleaner' = cleaner \ {l}
    /\ watching' = watching \ {l}
    /\ UNCHANGED <<nodes, closed, buf, mu, store, fault, regVars, connVars, loop, clientVars, owed, server>>

\* The cleanup goroutine after ctx.Done: nothing once the store is closed.
Cleanup(l) ==
    LET mine == IF store = "open" THEN {l} ELSE {} IN
    /\ CanLock /\ l \in cleaner /\ CtxOf(l) \in cancelled
    /\ cleaner' = cleaner \ {l}
    /\ watching' = watching \ mine
    /\ CloseAll(mine)
    /\ UNCHANGED <<nodes, buf, mu, store, regVars, connVars, loop, clientVars, owed, server>>

\* The connection's writeLoop, the network and the client's callback.
Deliver(c) ==
    /\ Alive /\ conn[c] = "open" /\ out[c] # <<>>
    /\ view' = [view EXCEPT ![c] = @ \cup Head(out[c]).nodes]
    /\ out' = [out EXCEPT ![c] = Tail(@)]
    /\ UNCHANGED <<storeVars, regVars, connVars, loopVars, owed, server>>

-----------------------------------------------------------------------------
(* Shutdown: Server.Stop, then MemoryStore.Close                           *)

StopServer ==
    /\ Alive /\ server = "up"
    /\ server' = "stopping"
    /\ UNCHANGED <<storeVars, regVars, connVars, loopVars, clientVars, owed>>

\* tcpServer.Stop has closed every connection and waited for its goroutines;
\* the watchers that are still in the map are cancelled.
StopWatchers ==
    /\ Alive /\ server = "stopping"
    /\ \A c \in Conns : conn[c] = "closed" /\ sub[c] = {}
    /\ \A n \in Nodes : ~reg[n].busy
    /\ cancelled' = cancelled \cup {<<c, watcher[c].ctx>> : c \in {d \in Conns : watcher[d].ctx # 0}}
    /\ server' = "cancelled"
    /\ UNCHANGED <<storeVars, regVars, conn, sub, snapVars, watcher, lastCtx, loopVars, clientVars, owed>>

\* Close waits for the sweeper and then takes m.mu.
CloseStore ==
    /\ CanLock /\ server = "cancelled"
    /\ server' = "down" /\ store' = "closed"
    /\ CloseAll(watching)
    /\ watching' = {}
    /\ UNCHANGED <<nodes, buf, mu, regVars, connVars, loopVars, clientVars, owed>>

-----------------------------------------------------------------------------
Init ==
    /\ nodes = [n \in Nodes |-> "absent"]
    /\ watching = {} /\ closed = {} /\ buf = [l \in Loops |-> <<>>]
    /\ mu = "free" /\ store = "open" /\ fault = "none"
    /\ reg = [n \in Nodes |-> [busy |-> FALSE, todo |-> {}]] /\ regs = 0
    /\ conn = [c \in Conns |-> "open"] /\ sub = [c \in Conns |-> {}]
    /\ unread = [c \in Conns |-> {}] /\ found = [c \in Conns |-> {}]
    /\ watcher = [c \in Conns |-> NoWatcher]
    /\ lastCtx = [c \in Conns |-> 0] /\ cancelled = {}
    /\ loop = [l \in Loops |-> "none"] /\ cleaner = {}
    /\ out = [c \in Conns |-> <<>>] /\ view = [c \in Conns |-> {}]
    /\ owed = [l \in Loops |-> {}] /\ server = "up"

Sending(n) ==
    \/ \E l \in Loops : SendJoin(n, l) \/ DropJoin(n, l) \/ PanicJoin(n, l)
    \/ RegisterReply(n)
Looping(l) == StartLoop(l) \/ StartRefused(l) \/ Forward(l) \/ EndLoop(l)

Next ==
    \/ \E n \in Nodes : Register(n) \/ Sending(n) \/ Heartbeat(n) \/ Lapse(n)
    \/ SweepExpired
    \/ \E c \in Conns :
        \/ \E T \in SUBSET Types : HandleDiscover(c, T) \/ HandleSubscribe(c, T)
        \/ \E t \in Types : HandleWatch(c, t) \/ SubscribeSnapshot(c, t)
        \/ SubscribeWatch(c) \/ Shutdown(c) \/ OnDisconnect(c) \/ Deliver(c)
    \/ \E l \in Loops : Looping(l) \/ Cleanup(l)
    \/ StopServer \/ StopWatchers \/ CloseStore

Spec == Init /\ [][Next]_vars

\* Goroutines that can run do; clients, time and the operator are not obliged.
Fairness ==
    /\ \A n \in Nodes : WF_vars(Sending(n))
    /\ \A c \in Conns : WF_vars((\E t \in Types : SubscribeSnapshot(c, t)) \/ SubscribeWatch(c) \/ OnDisconnect(c))
    /\ \A l \in Loops : WF_vars(Looping(l)) /\ WF_vars(Cleanup(l))
    /\ WF_vars(SweepExpired)

LiveSpec == Spec /\ Fairness
SweepSpec == Init /\ [][Next \/ SweepLeave]_vars /\ Fairness /\ WF_vars(SweepLeave)

-----------------------------------------------------------------------------
(* Properties                                                              *)

\* Every variable keeps its type.
TypeOK ==
    /\ nodes \in [Nodes -> {"absent", "fresh", "stale"}]
    /\ watching \subseteq Loops /\ closed \subseteq Loops /\ cleaner \subseteq Loops
    /\ buf \in [Loops -> Seq(Nodes)] /\ \A l \in Loops : Len(buf[l]) <= EventCap
    /\ mu \in {"free", "sweeper"} /\ store \in {"open", "closed"}
    /\ fault \in {"none", "nilctx", "doubleclose"}
    /\ reg \in [Nodes -> [busy : BOOLEAN, todo : SUBSET Loops]] /\ regs \in 0..MaxRegs
    /\ conn \in [Conns -> {"open", "closing", "closed"}] /\ sub \in [Conns -> SUBSET Types]
    /\ unread \in [Conns -> SUBSET Types] /\ found \in [Conns -> SUBSET Nodes]
    /\ watcher \in [Conns -> [ctx : 0..MaxCtx, types : SUBSET Types, watch : BOOLEAN]]
    /\ lastCtx \in [Conns -> 0..MaxCtx] /\ cancelled \subseteq Conns \X Ctxs
    /\ loop \in [Loops -> {"none", "starting", "running", "gone"}]
    /\ out \in [Conns -> Seq(Message)] /\ \A c \in Conns : Len(out[c]) <= SendCap
    /\ view \in [Conns -> SUBSET Nodes] /\ owed \in [Loops -> SUBSET Nodes]
    /\ server \in {"up", "stopping", "cancelled", "down"}

InFlight(l) ==
    ToSet(buf[l]) \cup (UNION {m.nodes : m \in ToSet(out[ConnOf(l)])})
        \cup {n \in Nodes : l \in reg[n].todo}

\* Register, subscribeInternal and watchLoop together lose no JOIN by their
\* interleaving: while a watchLoop of an open connection runs, every node that
\* registered since its channel was added is known to the client or on its way
\* to it, unless the channel was full or the registering handler panicked.
NoJoinLost ==
    \A l \in Loops : loop[l] = "running" /\ conn[ConnOf(l)] = "open" =>
        owed[l] \subseteq view[ConnOf(l)] \cup InFlight(l)

\* Cancellation, Subscribe and MemoryStore.Close, in every order, never close a
\* channel twice: that panic would end the registry.
ClosedOnce == fault # "doubleclose"

Stalled == ~Alive \/ mu = "sweeper"

\* A cancelled context takes its channel out of m.watches and ends its
\* watchLoop, even if the cancellation came before the subscription, as long as
\* the sweeper has not blocked the store nor a nil context ended the process.
WatchReleased ==
    \A l \in Loops : CtxOf(l) \in cancelled ~>
        (Stalled \/ (l \notin watching /\ loop[l] \in {"none", "gone"}))

\* Register always returns: no subscriber, however slow or dead, holds up the
\* handler of a registering node (same proviso).
RegisterReturns == \A n \in Nodes : reg[n].busy ~> (Stalled \/ ~reg[n].busy)

\* A node whose heartbeats stop is removed by the sweeper (or comes back).
ExpiredLeaves ==
    \A n \in Nodes : nodes[n] = "stale" ~> (nodes[n] # "stale" \/ ~Alive \/ server # "up")
=============================================================================
