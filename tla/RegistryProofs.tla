--------------------------- MODULE RegistryProofs ---------------------------
(***************************************************************************)
(* Theorems about Registry for any number of connections, service types,   *)
(* nodes, contexts and registrations and any queue capacity.               *)
(***************************************************************************)
EXTENDS Registry, TLAPS

\* The types of what the life of a channel depends on.
ChanType ==
    /\ watching \subseteq Loops /\ closed \subseteq Loops /\ cleaner \subseteq Loops
    /\ loop \in [Loops -> {"none", "starting", "running", "gone"}]
    /\ lastCtx \in [Conns -> Nat]
    /\ watcher \in [Conns -> [ctx : Nat, types : SUBSET Types, watch : BOOLEAN]]
    /\ sub \in [Conns -> SUBSET Types]

\* Contexts are used once: what has been started belongs to a context that was
\* created, and the current watcher of a connection lists what its context has
\* started.
Fresh ==
    /\ \A c \in Conns : watcher[c].ctx <= lastCtx[c]
    /\ \A l \in Loops : loop[l] # "none" =>
        /\ l[3] <= lastCtx[l[1]]
        /\ watcher[l[1]].ctx = l[3] => l[2] \in watcher[l[1]].types

\* Who may close a channel: it is open while it is in m.watches, and while its
\* cleanup goroutine waits unless the store has been closed; a channel exists
\* only once its watchLoop has subscribed.
Open ==
    /\ fault # "doubleclose"
    /\ watching \cap closed = {}
    /\ store = "open" => cleaner \cap closed = {}
    /\ \A l \in watching \cup closed \cup cleaner : loop[l] \in {"running", "gone"}

ChanInv == ChanType /\ Fresh /\ Open

chan == <<watching, closed, cleaner, loop, lastCtx, watcher, fault, store>>

-----------------------------------------------------------------------------
\* A new registry has no channels.
LEMMA ChanInit == Init => ChanInv
<1> SUFFICES ASSUME Init PROVE ChanInv
  OBVIOUS
<1> USE DEF Init
<1>1. ChanType
  BY DEF ChanType, NoWatcher
<1>2. Fresh
  BY DEF Fresh, NoWatcher
<1>3. Open
  BY DEF Open
<1>4. QED
  BY <1>1, <1>2, <1>3 DEF ChanInv

\* Only the requests that start a watchLoop, disconnects, the watchLoops, the
\* cleanup goroutines and MemoryStore.Close touch channels.
LEMMA QuietSteps ==
    ASSUME ChanInv, [Next]_vars
    PROVE  \/ \E c \in Conns : \/ \E t \in Types : HandleWatch(c, t)
                               \/ SubscribeWatch(c) \/ OnDisconnect(c)
           \/ \E l \in Loops : Looping(l) \/ Cleanup(l)
           \/ CloseStore
           \/ UNCHANGED chan /\ sub' \in [Conns -> SUBSET Types]
<1> USE DEF chan, storeVars, regVars, snapVars, connVars, loopVars, clientVars
<1>0. sub \in [Conns -> SUBSET Types]
  BY DEF ChanInv, ChanType
<1>1. ASSUME NEW n \in Nodes, Register(n) \/ Heartbeat(n) \/ Lapse(n)
      PROVE  UNCHANGED chan /\ sub' = sub
  BY <1>1 DEF Register, Heartbeat, Lapse
<1>2. ASSUME NEW n \in Nodes, Sending(n)
      PROVE  UNCHANGED chan /\ sub' = sub
  BY <1>2 DEF Sending, SendJoin, DropJoin, PanicJoin, RegisterReply
<1>3. ASSUME SweepExpired PROVE UNCHANGED chan /\ sub' = sub
  BY <1>3 DEF SweepExpired
<1>4. ASSUME NEW c \in Conns, NEW T \in SUBSET Types, HandleDiscover(c, T)
      PROVE  UNCHANGED chan /\ sub' = sub
  BY <1>4 DEF HandleDiscover
<1>5. ASSUME NEW c \in Conns,
             \/ \E T \in SUBSET Types : HandleSubscribe(c, T)
             \/ \E t \in Types : SubscribeSnapshot(c, t)
      PROVE  UNCHANGED chan /\ sub' \in [Conns -> SUBSET Types]
  BY <1>0, <1>5 DEF HandleSubscribe, SubscribeSnapshot
<1>6. ASSUME NEW c \in Conns, Shutdown(c) \/ Deliver(c)
      PROVE  UNCHANGED chan /\ sub' = sub
  BY <1>6 DEF Shutdown, Deliver
<1>7. ASSUME StopServer \/ StopWatchers PROVE UNCHANGED chan /\ sub' = sub
  BY <1>7 DEF StopServer, StopWatchers
<1>8. ASSUME UNCHANGED vars PROVE UNCHANGED chan /\ sub' = sub
  BY <1>8 DEF vars
<1>9. QED
  BY <1>0, <1>1, <1>2, <1>3, <1>4, <1>5, <1>6, <1>7, <1>8 DEF Next

-----------------------------------------------------------------------------
(* The steps that touch channels                                           *)

\* A Watch request starts a watchLoop under a context that is new.
LEMMA WatchKeeps ==
    ASSUME ChanInv, NEW c \in Conns, NEW t \in Types, HandleWatch(c, t)
    PROVE  ChanInv'
<1> DEFINE k == lastCtx[c] + 1
           new == <<c, t, k>>
<1>1. k \in Nat /\ k \in Ctxs /\ new \in Loops /\ new[1] = c /\ new[2] = t /\ new[3] = k
  BY CapsAssumption DEF HandleWatch, ChanInv, ChanType, Ctxs, Loops
<1>2. loop[new] = "none"
  BY <1>1 DEF ChanInv, ChanType, Fresh
<1>3. /\ watcher' = [watcher EXCEPT ![c] = [ctx |-> k, types |-> {t}, watch |-> TRUE]]
      /\ lastCtx' = [lastCtx EXCEPT ![c] = k]
      /\ loop' = [loop EXCEPT ![new] = "starting"]
      /\ UNCHANGED <<watching, closed, cleaner, fault, store, sub>>
  BY DEF HandleWatch, storeVars
<1>4. ChanType'
  BY <1>1, <1>3 DEF ChanInv, ChanType
<1>5. Fresh'
  <2>1. \A d \in Conns : watcher'[d].ctx <= lastCtx'[d]
    BY <1>1, <1>3 DEF ChanInv, ChanType, Fresh
  <2>2. ASSUME NEW l \in Loops, loop'[l] # "none"
        PROVE  /\ l[3] <= lastCtx'[l[1]]
               /\ watcher'[l[1]].ctx = l[3] => l[2] \in watcher'[l[1]].types
    <3>1. l[1] \in Conns /\ l[3] \in Nat /\ l[3] >= 1
      BY DEF Loops, Ctxs
    <3>2. CASE l = new
      BY <1>1, <1>3, <3>1, <3>2 DEF ChanInv, ChanType
    <3>3. CASE l # new
      BY <1>1, <1>3, <2>2, <3>1, <3>3 DEF ChanInv, ChanType, Fresh
    <3>4. QED
      BY <3>2, <3>3
  <2>3. QED
    BY <2>1, <2>2 DEF Fresh
<1>6. Open'
  BY <1>1, <1>2, <1>3 DEF ChanInv, ChanType, Open
<1>7. QED
  BY <1>4, <1>5, <1>6 DEF ChanInv

\* A Subscribe request starts a watchLoop per type its watcher did not list:
\* under a context that is new, or one that has not started that type.
LEMMA SubscribeKeeps ==
    ASSUME ChanInv, NEW c \in Conns, SubscribeWatch(c)
    PROVE  ChanInv'
<1> DEFINE w == watcher[c]
           new == sub[c] \ w.types
           k == IF w.ctx = 0 THEN lastCtx[c] + 1 ELSE w.ctx
           started == {c} \X new \X {k}
<1>1. /\ w \in [ctx : Nat, types : SUBSET Types, watch : BOOLEAN]
      /\ lastCtx[c] \in Nat /\ k \in Nat /\ new \subseteq Types
  BY DEF ChanInv, ChanType
<1>2. /\ watcher' = [watcher EXCEPT ![c] = [ctx |-> k, types |-> w.types \cup new, watch |-> w.watch]]
      /\ lastCtx' = [lastCtx EXCEPT ![c] = IF w.ctx = 0 THEN k ELSE lastCtx[c]]
      /\ loop' = [l \in Loops |-> IF l \in started THEN "starting" ELSE loop[l]]
      /\ sub' = [sub EXCEPT ![c] = {}]
      /\ fault' = IF w.watch /\ new # {} THEN "nilctx" ELSE fault
      /\ UNCHANGED <<watching, closed, cleaner, store>>
  BY DEF SubscribeWatch
<1>3. ASSUME NEW l \in Loops, l \in started
      PROVE  l[1] = c /\ l[2] \in new /\ l[3] = k
  BY <1>3
<1>4. ASSUME NEW l \in Loops, l \in started PROVE loop[l] = "none"
  <2>1. l[1] = c /\ l[2] \notin w.types /\ l[3] = k
    BY <1>3, <1>4
  <2>2. QED
    BY <1>1, <2>1 DEF ChanInv, ChanType, Fresh
<1>5. ChanType'
  <2>1. watcher' \in [Conns -> [ctx : Nat, types : SUBSET Types, watch : BOOLEAN]]
    <3>1. [ctx |-> k, types |-> w.types \cup new, watch |-> w.watch]
              \in [ctx : Nat, types : SUBSET Types, watch : BOOLEAN]
      BY <1>1
    <3>2. QED
      BY <1>2, <3>1 DEF ChanInv, ChanType
  <2>2. loop' \in [Loops -> {"none", "starting", "running", "gone"}]
    BY <1>2 DEF ChanInv, ChanType
  <2>3. lastCtx' \in [Conns -> Nat]
    BY <1>1, <1>2 DEF ChanInv, ChanType
  <2>4. QED
    BY <1>2, <2>1, <2>2, <2>3 DEF ChanInv, ChanType
<1>6. Fresh'
  <2>1. \A d \in Conns : watcher'[d].ctx <= lastCtx'[d]
    BY <1>1, <1>2 DEF ChanInv, ChanType, Fresh
  <2>2. ASSUME NEW l \in Loops, loop'[l] # "none"
        PROVE  /\ l[3] <= lastCtx'[l[1]]
               /\ watcher'[l[1]].ctx = l[3] => l[2] \in watcher'[l[1]].types
    <3>1. l[1] \in Conns /\ l[3] \in Nat /\ l[3] >= 1
      BY DEF Loops, Ctxs
    <3>2. CASE l \in started
      <4>1. l[1] = c /\ l[2] \in new /\ l[3] = k
        BY <1>3, <3>2
      <4>2. QED
        BY <1>1, <1>2, <4>1 DEF ChanInv, ChanType, Fresh
    <3>3. CASE l \notin started
      <4>1. loop[l] # "none"
        BY <1>2, <2>2, <3>3
      <4>2. /\ l[3] <= lastCtx[l[1]]
            /\ watcher[l[1]].ctx = l[3] => l[2] \in watcher[l[1]].types
        BY <4>1 DEF ChanInv, Fresh
      <4>3. QED
        BY <1>1, <1>2, <3>1, <4>2 DEF ChanInv, ChanType, Fresh
    <3>4. QED
      BY <3>2, <3>3
  <2>3. QED
    BY <2>1, <2>2 DEF Fresh
<1>7. Open'
  <2>1. ASSUME NEW l \in watching \cup closed \cup cleaner
        PROVE  loop'[l] = loop[l]
    BY <1>2, <1>4 DEF ChanInv, ChanType, Open
  <2>2. QED
    BY <1>2, <2>1 DEF ChanInv, ChanType, Open
<1>8. QED
  BY <1>5, <1>6, <1>7 DEF ChanInv

\* A disconnect forgets the watcher; no context has number 0.
LEMMA DisconnectKeeps ==
    ASSUME ChanInv, NEW c \in Conns, OnDisconnect(c)
    PROVE  ChanInv'
<1>1. /\ watcher' = [watcher EXCEPT ![c] = NoWatcher]
      /\ UNCHANGED <<watching, closed, cleaner, loop, lastCtx, fault, store, sub>>
  BY DEF OnDisconnect, storeVars, loopVars
<1>2. NoWatcher \in [ctx : Nat, types : SUBSET Types, watch : BOOLEAN] /\ NoWatcher.ctx = 0
  BY DEF NoWatcher
<1>3. ChanType'
  BY <1>1, <1>2 DEF ChanInv, ChanType
<1>4. \A l \in Loops : l[1] \in Conns /\ l[3] \in Nat /\ l[3] >= 1
  BY DEF Loops, Ctxs
<1>5. Fresh'
  BY <1>1, <1>2, <1>4 DEF ChanInv, ChanType, Fresh
<1>6. Open'
  BY <1>1 DEF ChanInv, Open
<1>7. QED
  BY <1>3, <1>5, <1>6 DEF ChanInv

\* watchLoop subscribes once, before its channel can be closed.
LEMMA LoopKeeps ==
    ASSUME ChanInv, NEW l \in Loops, Looping(l)
    PROVE  ChanInv'
<1> USE DEF storeVars, connVars
<1>1. \E s \in {"running", "gone"} :
          loop' \in {loop, [loop EXCEPT ![l] = s]} /\ loop[l] \in {"starting", "running"}
  BY DEF Looping, StartLoop, StartRefused, Forward, EndLoop
<1>2. UNCHANGED <<lastCtx, watcher, sub, closed, fault, store>>
  BY DEF Looping, StartLoop, StartRefused, Forward, EndLoop
<1>3. \/ UNCHANGED <<watching, cleaner>>
      \/ /\ loop[l] = "starting" /\ loop' = [loop EXCEPT ![l] = "running"]
         /\ watching' = watching \cup {l} /\ cleaner' = cleaner \cup {l}
  BY DEF Looping, StartLoop, StartRefused, Forward, EndLoop
<1>4. ChanType'
  BY <1>1, <1>2, <1>3 DEF ChanInv, ChanType
<1>5. Fresh'
  <2>1. ASSUME NEW m \in Loops, loop'[m] # "none" PROVE loop[m] # "none"
    BY <1>1, <2>1 DEF ChanInv, ChanType
  <2>2. QED
    BY <1>2, <2>1 DEF ChanInv, Fresh
<1>6. Open'
  BY <1>1, <1>2, <1>3 DEF ChanInv, ChanType, Open
<1>7. QED
  BY <1>4, <1>5, <1>6 DEF ChanInv

\* The cleanup goroutine closes its own channel, unless Close has been there.
LEMMA CleanupKeeps ==
    ASSUME ChanInv, NEW l \in Loops, Cleanup(l)
    PROVE  ChanInv'
<1> DEFINE mine == IF store = "open" THEN {l} ELSE {}
<1>1. /\ l \in cleaner /\ cleaner' = cleaner \ {l} /\ watching' = watching \ mine
      /\ closed' = closed \cup mine
      /\ fault' = IF mine \cap closed = {} THEN fault ELSE "doubleclose"
      /\ UNCHANGED <<loop, lastCtx, watcher, sub, store>>
  BY DEF Cleanup, CloseAll, connVars
<1>2. mine \cap closed = {}
  BY <1>1 DEF ChanInv, Open
<1>3. ChanType'
  BY <1>1 DEF ChanInv, ChanType
<1>4. Fresh'
  BY <1>1 DEF ChanInv, Fresh
<1>5. Open'
  BY <1>1, <1>2 DEF ChanInv, Open
<1>6. QED
  BY <1>3, <1>4, <1>5 DEF ChanInv

\* MemoryStore.Close closes what is in m.watches; no cleanup follows.
LEMMA CloseKeeps ==
    ASSUME ChanInv, CloseStore
    PROVE  ChanInv'
<1>1. /\ watching' = {} /\ closed' = closed \cup watching /\ store' = "closed"
      /\ fault' = IF watching \cap closed = {} THEN fault ELSE "doubleclose"
      /\ UNCHANGED <<loop, cleaner, lastCtx, watcher, sub>>
  BY DEF CloseStore, CloseAll, connVars, loopVars
<1>2. ChanType'
  BY <1>1 DEF ChanInv, ChanType
<1>3. Fresh'
  BY <1>1 DEF ChanInv, Fresh
<1>4. Open'
  BY <1>1 DEF ChanInv, Open
<1>5. QED
  BY <1>2, <1>3, <1>4 DEF ChanInv

-----------------------------------------------------------------------------
LEMMA ChanInductive == Spec => []ChanInv
<1>1. ChanInv /\ [Next]_vars => ChanInv'
  <2>1. SUFFICES ASSUME ChanInv, [Next]_vars PROVE ChanInv'
    OBVIOUS
  <2>2. ASSUME UNCHANGED chan, sub' \in [Conns -> SUBSET Types] PROVE ChanInv'
    BY <2>1, <2>2 DEF chan, ChanInv, ChanType, Fresh, Open
  <2>3. QED
    BY <2>1, <2>2, QuietSteps, WatchKeeps, SubscribeKeeps, DisconnectKeeps,
       LoopKeeps, CleanupKeeps, CloseKeeps
<1>2. QED
  BY <1>1, ChanInit, PTL DEF Spec

\* Cancellation, late subscription and MemoryStore.Close never close a channel
\* twice, however requests, disconnects and shutdown interleave: subscribeInternal
\* and Close of memory_store.go.
THEOREM ChannelsClosedOnce == Spec => []ClosedOnce
<1>1. ChanInv => ClosedOnce
  BY DEF ChanInv, Open, ClosedOnce
<1>2. QED
  BY <1>1, ChanInductive, PTL
-----------------------------------------------------------------------------
(* Types                                                                   *)

\* A Subscribe request under way has a context to create.
Room == \A c \in Conns : sub[c] # {} => lastCtx[c] < MaxCtx

TypeInv == TypeOK /\ Room

\* SendProto keeps writeCh within its capacity.
LEMMA SendTyped ==
    ASSUME TypeOK, NEW c \in Conns, NEW m \in Message, SendProto(c, m)
    PROVE  out' \in [Conns -> Seq(Message)] /\ \A d \in Conns : Len(out'[d]) <= SendCap
<1>1. CASE SendOk(c)
  <2>1. out' = [out EXCEPT ![c] = Append(out[c], m)] /\ Len(out[c]) < SendCap
    BY <1>1 DEF SendProto, SendOk
  <2>2. /\ out[c] \in Seq(Message) /\ Len(out[c]) \in Nat
        /\ Append(out[c], m) \in Seq(Message) /\ Len(Append(out[c], m)) = Len(out[c]) + 1
    BY DEF TypeOK
  <2>3. QED
    BY <2>1, <2>2, CapsAssumption DEF TypeOK
<1>2. CASE ~SendOk(c)
  BY <1>2 DEF SendProto, TypeOK
<1>3. QED
  BY <1>1, <1>2

\* Handlers of registering nodes, heartbeats and the sweeper.
LEMMA RegisterTyped ==
    ASSUME TypeInv, NEW n \in Nodes, Register(n) \/ Sending(n) \/ Heartbeat(n) \/ Lapse(n)
    PROVE  TypeInv'
<1> USE DEF storeVars, regVars, snapVars, connVars, loopVars, clientVars, Told
<1>1. CASE Register(n)
  BY <1>1, CapsAssumption DEF Register, TypeInv, TypeOK, Room
<1>2. CASE Heartbeat(n) \/ Lapse(n)
  <2>1. nodes' = [nodes EXCEPT ![n] = "fresh"] \/ nodes' = [nodes EXCEPT ![n] = "stale"]
    BY <1>2 DEF Heartbeat, Lapse
  <2>2. nodes' \in [Nodes -> {"absent", "fresh", "stale"}]
    BY <2>1 DEF TypeInv, TypeOK
  <2>3. QED
    BY <1>2, <2>2 DEF Heartbeat, Lapse, TypeInv, TypeOK, Room
<1>3. ASSUME NEW l \in Loops, SendJoin(n, l) PROVE TypeInv'
  <2>1. /\ buf[l] \in Seq(Nodes) /\ Len(buf[l]) \in Nat /\ Len(buf[l]) < EventCap
        /\ Append(buf[l], n) \in Seq(Nodes) /\ Len(Append(buf[l], n)) = Len(buf[l]) + 1
    BY <1>3 DEF SendJoin, TypeInv, TypeOK
  <2>2. buf' \in [Loops -> Seq(Nodes)] /\ \A k \in Loops : Len(buf'[k]) <= EventCap
    BY <1>3, <2>1, CapsAssumption DEF SendJoin, TypeInv, TypeOK
  <2>3. reg' \in [Nodes -> [busy : BOOLEAN, todo : SUBSET Loops]]
    BY <1>3 DEF SendJoin, TypeInv, TypeOK
  <2>4. QED
    BY <1>3, <2>2, <2>3 DEF SendJoin, TypeInv, TypeOK, Room
<1>4. ASSUME NEW l \in Loops, DropJoin(n, l) \/ PanicJoin(n, l) PROVE TypeInv'
  <2>1. reg' \in [Nodes -> [busy : BOOLEAN, todo : SUBSET Loops]]
    <3>1. CASE DropJoin(n, l)
      BY <3>1 DEF DropJoin, TypeInv, TypeOK
    <3>2. CASE PanicJoin(n, l)
      BY <3>2 DEF PanicJoin, TypeInv, TypeOK
    <3>3. QED
      BY <1>4, <3>1, <3>2
  <2>2. owed' \in [Loops -> SUBSET Nodes]
    <3>1. CASE DropJoin(n, l)
      BY <3>1 DEF DropJoin, TypeInv, TypeOK
    <3>2. CASE PanicJoin(n, l)
      BY <3>2 DEF PanicJoin, TypeInv, TypeOK
    <3>3. QED
      BY <1>4, <3>1, <3>2
  <2>3. QED
    BY <1>4, <2>1, <2>2 DEF DropJoin, PanicJoin, TypeInv, TypeOK, Room
<1>5. CASE RegisterReply(n)
  BY <1>5 DEF RegisterReply, TypeInv, TypeOK, Room
<1>6. QED
  BY <1>1, <1>2, <1>3, <1>4, <1>5 DEF Sending

\* Requests and the end of a watching connection.
LEMMA RequestTyped ==
    ASSUME TypeInv, NEW c \in Conns,
           \/ \E T \in SUBSET Types : HandleDiscover(c, T) \/ HandleSubscribe(c, T)
           \/ \E t \in Types : HandleWatch(c, t) \/ SubscribeSnapshot(c, t)
           \/ SubscribeWatch(c) \/ Shutdown(c) \/ OnDisconnect(c) \/ Deliver(c)
    PROVE  TypeInv'
<1> USE DEF storeVars, regVars, snapVars, connVars, loopVars, clientVars
<1>1. ASSUME NEW T \in SUBSET Types, HandleDiscover(c, T) \/ HandleSubscribe(c, T) PROVE TypeInv'
  <2>1. CASE HandleDiscover(c, T)
    <3>1. SendProto(c, Snapshot(Discover(T))) /\ Snapshot(Discover(T)) \in Message
      BY <2>1 DEF HandleDiscover, Snapshot, Discover, Message
    <3>2. out' \in [Conns -> Seq(Message)] /\ \A d \in Conns : Len(out'[d]) <= SendCap
      BY <3>1, SendTyped DEF TypeInv
    <3>3. QED
      BY <2>1, <3>2 DEF HandleDiscover, TypeInv, TypeOK, Room
  <2>2. CASE HandleSubscribe(c, T)
    BY <2>2 DEF HandleSubscribe, TypeInv, TypeOK, Room
  <2>3. QED
    BY <1>1, <2>1, <2>2
<1>0. ASSUME NEW t \in Types, SubscribeSnapshot(c, t) PROVE TypeInv'
  <2> DEFINE got == found[c] \cup Discover({t})
  <2>1. got \subseteq Nodes /\ Snapshot(got) \in Message
    BY DEF TypeInv, TypeOK, Discover, Snapshot, Message
  <2>2. out' \in [Conns -> Seq(Message)] /\ \A d \in Conns : Len(out'[d]) <= SendCap
    BY <1>0, <2>1, SendTyped DEF SubscribeSnapshot, TypeInv, TypeOK
  <2>3. unread' \in [Conns -> SUBSET Types] /\ found' \in [Conns -> SUBSET Nodes]
    BY <1>0, <2>1 DEF SubscribeSnapshot, TypeInv, TypeOK
  <2>4. QED
    BY <1>0, <2>2, <2>3 DEF SubscribeSnapshot, TypeInv, TypeOK, Room
<1>2. ASSUME NEW t \in Types, HandleWatch(c, t) PROVE TypeInv'
  <2> DEFINE k == lastCtx[c] + 1
  <2>1. k \in 0..MaxCtx /\ sub[c] = {}
    BY <1>2, CapsAssumption DEF HandleWatch, Reading, TypeInv, TypeOK
  <2>2. /\ watcher' = [watcher EXCEPT ![c] = [ctx |-> k, types |-> {t}, watch |-> TRUE]]
        /\ lastCtx' = [lastCtx EXCEPT ![c] = k]
        /\ loop' = [loop EXCEPT ![<<c, t, k>>] = "starting"]
        /\ UNCHANGED <<nodes, watching, closed, buf, mu, store, fault, reg, regs, conn, sub,
                       unread, found, cancelled, cleaner, out, view, owed, server>>
    BY <1>2 DEF HandleWatch
  <2> HIDE DEF k
  <2>3. TypeOK'
    BY <2>1, <2>2 DEF TypeInv, TypeOK
  <2>4. Room'
    BY <2>1, <2>2 DEF TypeInv, TypeOK, Room
  <2>5. QED
    BY <2>3, <2>4 DEF TypeInv
<1>3. CASE SubscribeWatch(c)
  <2> DEFINE w == watcher[c]
             new == sub[c] \ w.types
             k == IF w.ctx = 0 THEN lastCtx[c] + 1 ELSE w.ctx
  <2>1. /\ w \in [ctx : 0..MaxCtx, types : SUBSET Types, watch : BOOLEAN]
        /\ new \subseteq Types /\ lastCtx[c] \in 0..MaxCtx /\ lastCtx[c] < MaxCtx
    BY <1>3 DEF SubscribeWatch, TypeInv, TypeOK, Room
  <2>2. k \in 0..MaxCtx
    BY <2>1, CapsAssumption
  <2>3. [ctx |-> k, types |-> w.types \cup new, watch |-> w.watch]
            \in [ctx : 0..MaxCtx, types : SUBSET Types, watch : BOOLEAN]
    BY <2>1, <2>2
  <2>4. /\ sub' = [sub EXCEPT ![c] = {}]
        /\ watcher' = [watcher EXCEPT ![c] = [ctx |-> k, types |-> w.types \cup new, watch |-> w.watch]]
        /\ lastCtx' = [lastCtx EXCEPT ![c] = IF w.ctx = 0 THEN k ELSE lastCtx[c]]
        /\ fault' \in {fault, "nilctx"}
        /\ loop' = [l \in Loops |-> IF l \in {c} \X new \X {k} THEN "starting" ELSE loop[l]]
        /\ UNCHANGED <<nodes, watching, closed, buf, mu, store, reg, regs, conn,
                       unread, found, cancelled, cleaner, out, view, owed, server>>
    BY <1>3 DEF SubscribeWatch
  <2> HIDE DEF w, new, k
  <2>5. TypeOK'
    <3>1. watcher' \in [Conns -> [ctx : 0..MaxCtx, types : SUBSET Types, watch : BOOLEAN]]
      BY <2>3, <2>4 DEF TypeInv, TypeOK
    <3>2. lastCtx' \in [Conns -> 0..MaxCtx] /\ sub' \in [Conns -> SUBSET Types]
      BY <2>1, <2>2, <2>4 DEF TypeInv, TypeOK
    <3>3. loop' \in [Loops -> {"none", "starting", "running", "gone"}]
      BY <2>4 DEF TypeInv, TypeOK
    <3>4. QED
      BY <2>4, <3>1, <3>2, <3>3 DEF TypeInv, TypeOK
  <2>6. Room'
    BY <2>1, <2>4 DEF TypeInv, TypeOK, Room
  <2>7. QED
    BY <2>5, <2>6 DEF TypeInv
<1>4. CASE Shutdown(c)
  BY <1>4, CapsAssumption DEF Shutdown, TypeInv, TypeOK, Room
<1>5. CASE OnDisconnect(c)
  <2>1. watcher' \in [Conns -> [ctx : 0..MaxCtx, types : SUBSET Types, watch : BOOLEAN]]
    BY <1>5, CapsAssumption DEF OnDisconnect, NoWatcher, TypeInv, TypeOK
  <2>2. cancelled' \subseteq Conns \X Ctxs
    <3>1. watcher[c].ctx \in 0..MaxCtx
      BY DEF TypeInv, TypeOK
    <3>2. watcher[c].ctx # 0 => <<c, watcher[c].ctx>> \in Conns \X Ctxs
      BY <3>1, CapsAssumption DEF Ctxs
    <3>3. QED
      BY <1>5, <3>2 DEF OnDisconnect, TypeInv, TypeOK
  <2>3. QED
    BY <1>5, <2>1, <2>2 DEF OnDisconnect, TypeInv, TypeOK, Room
<1>6. CASE Deliver(c)
  <2>1. out[c] \in Seq(Message) /\ out[c] # <<>>
    BY <1>6 DEF Deliver, TypeInv, TypeOK
  <2>2. Head(out[c]) \in Message /\ Tail(out[c]) \in Seq(Message) /\ Len(Tail(out[c])) = Len(out[c]) - 1
        /\ Len(out[c]) \in Nat
    BY <2>1
  <2>3. Head(out[c]).nodes \subseteq Nodes
    BY <2>2 DEF Message
  <2>4. out' \in [Conns -> Seq(Message)] /\ \A d \in Conns : Len(out'[d]) <= SendCap
    BY <1>6, <2>2, CapsAssumption DEF Deliver, TypeInv, TypeOK
  <2>5. view' \in [Conns -> SUBSET Nodes]
    BY <1>6, <2>3 DEF Deliver, TypeInv, TypeOK
  <2>6. QED
    BY <1>6, <2>4, <2>5 DEF Deliver, TypeInv, TypeOK, Room
<1>7. QED
  BY <1>0, <1>1, <1>2, <1>3, <1>4, <1>5, <1>6

\* watchLoops, cleanup goroutines, the sweeper and the shutdown.
LEMMA LoopTyped ==
    ASSUME TypeInv,
           \/ \E l \in Loops : Looping(l) \/ Cleanup(l)
           \/ SweepExpired \/ StopServer \/ StopWatchers \/ CloseStore \/ UNCHANGED vars
    PROVE  TypeInv'
<1> USE DEF storeVars, regVars, snapVars, connVars, loopVars, clientVars
<1>1. ASSUME NEW l \in Loops, StartLoop(l) \/ StartRefused(l) \/ EndLoop(l) PROVE TypeInv'
  <2>1. loop' \in [Loops -> {"none", "starting", "running", "gone"}]
    BY <1>1 DEF StartLoop, StartRefused, EndLoop, TypeInv, TypeOK
  <2>2. QED
    BY <1>1, <2>1 DEF StartLoop, StartRefused, EndLoop, TypeInv, TypeOK, Room
<1>2. ASSUME NEW l \in Loops, Forward(l) PROVE TypeInv'
  <2>1. ConnOf(l) \in Conns /\ buf[l] \in Seq(Nodes) /\ buf[l] # <<>>
    BY <1>2 DEF Forward, Loops, ConnOf, TypeInv, TypeOK
  <2>2. /\ Head(buf[l]) \in Nodes /\ Tail(buf[l]) \in Seq(Nodes)
        /\ Len(Tail(buf[l])) = Len(buf[l]) - 1 /\ Len(buf[l]) \in Nat
    BY <2>1
  <2>3. Event(Head(buf[l])) \in Message
    BY <2>2 DEF Event, Message
  <2>4. out' \in [Conns -> Seq(Message)] /\ \A d \in Conns : Len(out'[d]) <= SendCap
    BY <1>2, <2>1, <2>3, SendTyped DEF Forward, TypeInv
  <2>5. buf' \in [Loops -> Seq(Nodes)] /\ \A k \in Loops : Len(buf'[k]) <= EventCap
    BY <1>2, <2>2, CapsAssumption DEF Forward, TypeInv, TypeOK
  <2>6. loop' \in [Loops -> {"none", "starting", "running", "gone"}]
    BY <1>2 DEF Forward, TypeInv, TypeOK
  <2>7. QED
    BY <1>2, <2>4, <2>5, <2>6 DEF Forward, TypeInv, TypeOK, Room
<1>3. ASSUME NEW l \in Loops, Cleanup(l) PROVE TypeInv'
  BY <1>3 DEF Cleanup, CloseAll, TypeInv, TypeOK, Room
<1>4. CASE SweepExpired \/ StopServer
  BY <1>4 DEF SweepExpired, StopServer, TypeInv, TypeOK, Room
<1>5. CASE StopWatchers
  <2>1. \A c \in Conns : watcher[c].ctx # 0 => <<c, watcher[c].ctx>> \in Conns \X Ctxs
    <3>1. \A c \in Conns : watcher[c].ctx \in 0..MaxCtx
      BY DEF TypeInv, TypeOK
    <3>2. QED
      BY <3>1, CapsAssumption DEF Ctxs
  <2>2. cancelled' \subseteq Conns \X Ctxs
    BY <1>5, <2>1 DEF StopWatchers, TypeInv, TypeOK
  <2>3. QED
    BY <1>5, <2>2 DEF StopWatchers, TypeInv, TypeOK, Room
<1>6. CASE CloseStore
  BY <1>6 DEF CloseStore, CloseAll, TypeInv, TypeOK, Room
<1>7. CASE UNCHANGED vars
  BY <1>7 DEF vars, TypeInv, TypeOK, Room
<1>8. QED
  BY <1>1, <1>2, <1>3, <1>4, <1>5, <1>6, <1>7 DEF Looping

LEMMA TypeInductive == Spec => []TypeInv
<1>1. Init => TypeInv
  BY CapsAssumption DEF Init, NoWatcher, TypeInv, TypeOK, Room
<1>2. TypeInv /\ [Next]_vars => TypeInv'
  BY RegisterTyped, RequestTyped, LoopTyped DEF Next
<1>3. QED
  BY <1>1, <1>2, PTL DEF Spec

\* Every reachable state of the registry is well typed: event channels and
\* writeCh never exceed their capacity and contexts their bound (memory_store.go,
\* server.go).
THEOREM Typed == Spec => []TypeOK
BY TypeInductive, PTL DEF TypeInv
-----------------------------------------------------------------------------
(* JOIN events                                                             *)

\* A Register handler that has answered has told everybody, and nobody is owed
\* an event before its channel is in m.watches.
Idle   == \A n \in Nodes : ~reg[n].busy => reg[n].todo = {}
Unowed == \A l \in Loops : loop[l] \in {"none", "starting"} => owed[l] = {}

JoinInv == Idle /\ Unowed /\ NoJoinLost

\* What a client knows or what is on its way to it: the nodes in its writeCh,
\* those in the channel and those whose handlers have still to tell it.
Carried(c) == UNION {m.nodes : m \in ToSet(out[c])}
Telling(l) == {n \in Nodes : l \in reg[n].todo}
Known(l) == view[ConnOf(l)] \cup (ToSet(buf[l]) \cup Carried(ConnOf(l)) \cup Telling(l))

\* NoJoinLost in these terms, now and after a step.
LEMMA KnownIs ==
    /\ NoJoinLost <=> \A l \in Loops : loop[l] = "running" /\ conn[ConnOf(l)] = "open" =>
                                           owed[l] \subseteq Known(l)
    /\ NoJoinLost' <=> \A l \in Loops : loop'[l] = "running" /\ conn'[ConnOf(l)] = "open" =>
                                            owed'[l] \subseteq Known(l)'
<1>1. \A l \in Loops : InFlight(l) = ToSet(buf[l]) \cup Carried(ConnOf(l)) \cup Telling(l)
  BY DEF InFlight, Carried, Telling
<1>2. \A l \in Loops : InFlight(l)' = (ToSet(buf[l]) \cup Carried(ConnOf(l)) \cup Telling(l))'
  BY DEF InFlight, Carried, Telling
<1>3. QED
  BY <1>1, <1>2 DEF NoJoinLost, Known

\* What a queue holds after an append, and before its head is taken.
LEMMA SetOfQueue ==
    ASSUME NEW S, NEW s \in Seq(S)
    PROVE  /\ \A x \in S : ToSet(Append(s, x)) = ToSet(s) \cup {x}
           /\ s # <<>> => ToSet(s) = {Head(s)} \cup ToSet(Tail(s))
<1>1. ASSUME NEW x \in S PROVE ToSet(Append(s, x)) = ToSet(s) \cup {x}
  <2> DEFINE u == Append(s, x)
  <2>1. /\ Len(s) \in Nat /\ DOMAIN s = 1..Len(s) /\ DOMAIN u = 1..(Len(s) + 1)
        /\ u[Len(s) + 1] = x /\ \A i \in 1..Len(s) : u[i] = s[i]
    OBVIOUS
  <2>2. DOMAIN u = DOMAIN s \cup {Len(s) + 1}
    BY <2>1
  <2> HIDE DEF u
  <2>3. {u[i] : i \in DOMAIN u} = {s[i] : i \in DOMAIN s} \cup {x}
    BY <2>1, <2>2
  <2>4. QED
    BY <2>3 DEF u, ToSet
<1>2. ASSUME s # <<>> PROVE ToSet(s) = {Head(s)} \cup ToSet(Tail(s))
  <2> DEFINE u == Tail(s)
  <2>1. /\ Len(s) \in Nat \ {0} /\ DOMAIN s = 1..Len(s) /\ DOMAIN u = 1..(Len(s) - 1)
        /\ Head(s) = s[1] /\ \A i \in 1..(Len(s) - 1) : u[i] = s[i + 1]
    BY <1>2
  <2> HIDE DEF u
  <2>2. \A i \in DOMAIN s : i = 1 \/ (i - 1 \in DOMAIN u /\ u[i - 1] = s[i])
    <3> SUFFICES ASSUME NEW i \in DOMAIN s, i # 1 PROVE i - 1 \in DOMAIN u /\ u[i - 1] = s[i]
      OBVIOUS
    <3>1. i - 1 \in 1..(Len(s) - 1) /\ (i - 1) + 1 = i
      BY <2>1
    <3>2. QED
      BY <2>1, <3>1
  <2>3. \A i \in DOMAIN u : i + 1 \in DOMAIN s /\ u[i] = s[i + 1]
    BY <2>1
  <2>4. 1 \in DOMAIN s
    BY <2>1
  <2>5. {s[i] : i \in DOMAIN s} = {s[1]} \cup {u[i] : i \in DOMAIN u}
    BY <2>2, <2>3, <2>4
  <2>6. QED
    BY <2>1, <2>5 DEF u, ToSet
<1>3. QED
  BY <1>1, <1>2

\* It is enough that a step takes nothing from what a running watchLoop's client
\* knows or will know, owes it nothing new and starts no watchLoop.
LEMMA JoinKeeps ==
    ASSUME JoinInv, Idle', Unowed',
           \A l \in Loops : loop'[l] = "running" /\ conn'[ConnOf(l)] = "open" =>
               /\ loop[l] = "running" /\ conn[ConnOf(l)] = "open"
               /\ owed'[l] \subseteq owed[l] /\ Known(l) \subseteq Known(l)'
    PROVE  JoinInv'
<1>1. NoJoinLost'
  BY KnownIs DEF JoinInv
<1>2. QED
  BY <1>1 DEF JoinInv

\* Nothing changes for the channels.
LEMMA JoinStutters ==
    ASSUME JoinInv, UNCHANGED <<reg, owed, loop, conn, buf, out, view>>
    PROVE  JoinInv'
BY DEF JoinInv, Idle, Unowed, NoJoinLost, InFlight

\* Register owes the event to those it is going to tell, and tells them, or
\* finds their channel full or closed.
LEMMA RegisterJoins ==
    ASSUME TypeInv, ChanInv, JoinInv, NEW n \in Nodes, Register(n) \/ Sending(n)
    PROVE  JoinInv'
<1> USE DEF storeVars, regVars, snapVars, connVars, loopVars, clientVars, Told
<1>0. reg \in [Nodes -> [busy : BOOLEAN, todo : SUBSET Loops]] /\ owed \in [Loops -> SUBSET Nodes]
  BY DEF TypeInv, TypeOK
<1>1. CASE Register(n)
  <2> DEFINE told == {l \in watching : SvcOf(l) = TypeOf[n]}
  <2>1. /\ reg' = [reg EXCEPT ![n] = [busy |-> TRUE, todo |-> told]] /\ reg[n].todo = {}
        /\ owed' = [l \in Loops |-> IF l \in told THEN owed[l] \cup {n} ELSE owed[l]]
        /\ UNCHANGED <<loop, conn, buf, out, view>>
    BY <1>1 DEF Register, JoinInv, Idle
  <2>2. \A l \in told : l \in Loops /\ loop[l] \in {"running", "gone"}
    BY DEF ChanInv, ChanType, Open
  <2> HIDE DEF told
  <2>3. Idle' /\ Unowed'
    BY <1>0, <2>1, <2>2 DEF JoinInv, Idle, Unowed
  <2>4. \A m \in Nodes : /\ m # n => reg'[m].todo = reg[m].todo
                         /\ m = n => reg'[m].todo = told
    BY <1>0, <2>1
  <2>5. ASSUME NEW l \in Loops
        PROVE  Known(l) \subseteq Known(l)' /\ (l \in told => n \in Known(l)')
    <3>1. Telling(l) \subseteq Telling(l)' /\ (l \in told => n \in Telling(l)')
      BY <2>1, <2>4 DEF Telling
    <3>2. Carried(ConnOf(l))' = Carried(ConnOf(l))
      BY <2>1 DEF Carried
    <3>3. QED
      BY <2>1, <3>1, <3>2 DEF Known
  <2>6. NoJoinLost'
    BY <2>1, <2>5, KnownIs DEF JoinInv
  <2>7. QED
    BY <2>3, <2>6 DEF JoinInv
<1>2. ASSUME NEW l \in Loops, SendJoin(n, l) PROVE JoinInv'
  <2>1. /\ buf' = [buf EXCEPT ![l] = Append(@, n)]
        /\ reg' = [reg EXCEPT ![n].todo = @ \ {l}] /\ l \in reg[n].todo
        /\ UNCHANGED <<owed, loop, conn, out, view>>
    BY <1>2 DEF SendJoin
  <2>2. \A m \in Nodes : reg'[m].busy = reg[m].busy
                      /\ reg'[m].todo = IF m = n THEN reg[n].todo \ {l} ELSE reg[m].todo
    BY <1>0, <2>1
  <2>3. Idle' /\ Unowed'
    BY <2>1, <2>2 DEF JoinInv, Idle, Unowed
  <2>4. \A k \in Loops : ToSet(buf'[k]) = IF k = l THEN ToSet(buf[l]) \cup {n} ELSE ToSet(buf[k])
    <3>1. buf \in [Loops -> Seq(Nodes)]
      BY DEF TypeInv, TypeOK
    <3>2. ToSet(Append(buf[l], n)) = ToSet(buf[l]) \cup {n}
      BY <3>1, SetOfQueue
    <3>3. \A k \in Loops : buf'[k] = IF k = l THEN Append(buf[l], n) ELSE buf[k]
      BY <2>1, <3>1
    <3>4. QED
      BY <3>2, <3>3
  <2>5. ASSUME NEW k \in Loops PROVE Known(k) \subseteq Known(k)'
    <3>1. Telling(k) \subseteq Telling(k)' \cup (IF k = l THEN {n} ELSE {})
      BY <2>2 DEF Telling
    <3>2. Carried(ConnOf(k))' = Carried(ConnOf(k))
      BY <2>1 DEF Carried
    <3>3. QED
      BY <2>1, <2>4, <3>1, <3>2 DEF Known
  <2>6. QED
    BY <2>1, <2>3, <2>5, JoinKeeps
<1>3. ASSUME NEW l \in Loops, DropJoin(n, l) PROVE JoinInv'
  <2>1. /\ owed' = [owed EXCEPT ![l] = @ \ {n}]
        /\ reg' = [reg EXCEPT ![n].todo = @ \ {l}] /\ l \in reg[n].todo
        /\ UNCHANGED <<loop, conn, buf, out, view>>
    BY <1>3 DEF DropJoin
  <2>2. \A m \in Nodes : reg'[m].busy = reg[m].busy
                      /\ reg'[m].todo = IF m = n THEN reg[n].todo \ {l} ELSE reg[m].todo
    BY <1>0, <2>1
  <2>3. \A k \in Loops : owed'[k] = IF k = l THEN owed[l] \ {n} ELSE owed[k]
    BY <1>0, <2>1
  <2>4. Idle' /\ Unowed'
    BY <2>1, <2>2, <2>3 DEF JoinInv, Idle, Unowed
  <2>5. ASSUME NEW k \in Loops PROVE Known(k) \subseteq Known(k)' \cup (IF k = l THEN {n} ELSE {})
    <3>1. Telling(k) \subseteq Telling(k)' \cup (IF k = l THEN {n} ELSE {})
      BY <2>2 DEF Telling
    <3>2. Carried(ConnOf(k))' = Carried(ConnOf(k))
      BY <2>1 DEF Carried
    <3>3. QED
      BY <2>1, <3>1, <3>2 DEF Known
  <2>6. NoJoinLost'
    BY <2>1, <2>3, <2>5, KnownIs DEF JoinInv
  <2>7. QED
    BY <2>4, <2>6 DEF JoinInv
<1>4. ASSUME NEW l \in Loops, PanicJoin(n, l) PROVE JoinInv'
  <2>1. /\ owed' = [k \in Loops |-> IF k \in reg[n].todo THEN owed[k] \ {n} ELSE owed[k]]
        /\ reg' = [reg EXCEPT ![n] = [busy |-> FALSE, todo |-> {}]]
        /\ UNCHANGED <<loop, conn, buf, out, view>>
    BY <1>4 DEF PanicJoin
  <2>2. \A m \in Nodes : /\ m # n => reg'[m] = reg[m]
                         /\ m = n => reg'[m].todo = {}
    BY <1>0, <2>1
  <2>3. Idle' /\ Unowed'
    BY <2>1, <2>2 DEF JoinInv, Idle, Unowed
  <2>4. ASSUME NEW k \in Loops
        PROVE  Known(k) \subseteq Known(k)' \cup (IF k \in reg[n].todo THEN {n} ELSE {})
    <3>1. Telling(k) \subseteq Telling(k)' \cup (IF k \in reg[n].todo THEN {n} ELSE {})
      BY <2>2 DEF Telling
    <3>2. Carried(ConnOf(k))' = Carried(ConnOf(k))
      BY <2>1 DEF Carried
    <3>3. QED
      BY <2>1, <3>1, <3>2 DEF Known
  <2>5. NoJoinLost'
    BY <2>1, <2>4, KnownIs DEF JoinInv
  <2>6. QED
    BY <2>3, <2>5 DEF JoinInv
<1>5. CASE RegisterReply(n)
  <2>1. \A m \in Nodes : reg'[m].todo = reg[m].todo /\ (m # n => reg'[m] = reg[m])
    BY <1>0, <1>5 DEF RegisterReply
  <2>2. reg[n].todo = {} /\ UNCHANGED <<owed, loop, conn, buf, out, view>>
    BY <1>5 DEF RegisterReply
  <2>3. Idle' /\ Unowed'
    BY <2>1, <2>2 DEF JoinInv, Idle, Unowed
  <2>4. \A k \in Loops : Known(k) \subseteq Known(k)'
    BY <2>1, <2>2 DEF Known, Telling, Carried
  <2>5. QED
    BY <2>2, <2>3, <2>4, JoinKeeps
<1>6. QED
  BY <1>1, <1>2, <1>3, <1>4, <1>5 DEF Sending

\* SendProto takes nothing out of a writeCh, and puts the message in if there
\* is room for it.
LEMMA SendCarries ==
    ASSUME TypeInv, NEW c \in Conns, NEW m \in Message, SendProto(c, m)
    PROVE  /\ \A d \in Conns : Carried(d) \subseteq Carried(d)'
           /\ SendOk(c) => m.nodes \subseteq Carried(c)'
<1>1. out \in [Conns -> Seq(Message)]
  BY DEF TypeInv, TypeOK
<1>2. CASE SendOk(c)
  <2>1. \A d \in Conns : out'[d] = IF d = c THEN Append(out[c], m) ELSE out[d]
    BY <1>1, <1>2 DEF SendProto
  <2>2. ToSet(Append(out[c], m)) = ToSet(out[c]) \cup {m}
    BY <1>1, SetOfQueue
  <2>3. QED
    BY <2>1, <2>2 DEF Carried
<1>3. CASE ~SendOk(c)
  BY <1>3 DEF SendProto, Carried
<1>4. QED
  BY <1>2, <1>3

\* Requests of a connection, its end and the client's callback.
LEMMA RequestJoins ==
    ASSUME TypeInv, ChanInv, JoinInv, NEW c \in Conns,
           \/ \E T \in SUBSET Types : HandleDiscover(c, T) \/ HandleSubscribe(c, T)
           \/ \E t \in Types : HandleWatch(c, t) \/ SubscribeSnapshot(c, t)
           \/ SubscribeWatch(c) \/ Shutdown(c) \/ OnDisconnect(c) \/ Deliver(c)
    PROVE  JoinInv'
<1> USE DEF storeVars, regVars, snapVars, connVars, loopVars, clientVars
<1>0. \A l \in Loops : ConnOf(l) \in Conns
  BY DEF Loops, ConnOf
<1>10. ASSUME UNCHANGED <<reg, owed, loop, conn, buf, view>>,
              \/ UNCHANGED out
              \/ \E S \in SUBSET Nodes : SendProto(c, Snapshot(S))
       PROVE  JoinInv'
  <2>1. \A l \in Loops : Known(l) \subseteq Known(l)'
    <3>1. CASE UNCHANGED out
      BY <1>10, <3>1 DEF Known, Telling, Carried
    <3>2. ASSUME NEW S \in SUBSET Nodes, SendProto(c, Snapshot(S))
          PROVE  \A l \in Loops : Known(l) \subseteq Known(l)'
      <4>1. Snapshot(S) \in Message
        BY DEF Snapshot, Message
      <4>2. QED
        BY <1>0, <1>10, <3>2, <4>1, SendCarries DEF Known, Telling, Carried
    <3>3. QED
      BY <1>10, <3>1, <3>2
  <2>2. QED
    BY <1>10, <2>1, JoinKeeps DEF JoinInv, Idle, Unowed
<1>1. ASSUME NEW T \in SUBSET Types, HandleDiscover(c, T) \/ HandleSubscribe(c, T) PROVE JoinInv'
  <2>1. Discover(T) \in SUBSET Nodes
    BY DEF Discover
  <2>2. QED
    BY <1>1, <1>10, <2>1 DEF HandleDiscover, HandleSubscribe
<1>11. ASSUME NEW t \in Types, SubscribeSnapshot(c, t) PROVE JoinInv'
  <2>1. found[c] \cup Discover({t}) \in SUBSET Nodes
    BY DEF TypeInv, TypeOK, Discover
  <2>2. QED
    BY <1>10, <1>11, <2>1 DEF SubscribeSnapshot
<1>2. ASSUME UNCHANGED <<reg, owed, conn, buf, out, view>>,
             \A l \in Loops : loop'[l] # loop[l] => loop[l] = "none" /\ loop'[l] = "starting"
      PROVE  JoinInv'
  <2>1. \A l \in Loops : loop'[l] = "running" => loop[l] = "running"
    BY <1>2
  <2>2. Idle' /\ Unowed'
    BY <1>2 DEF JoinInv, Idle, Unowed
  <2>3. NoJoinLost'
    BY <1>2, <2>1 DEF JoinInv, NoJoinLost, InFlight
  <2>4. QED
    BY <2>2, <2>3 DEF JoinInv
<1>3. ASSUME NEW t \in Types, HandleWatch(c, t) PROVE JoinInv'
  <2> DEFINE new == <<c, t, lastCtx[c] + 1>>
  <2>1. new \in Loops => loop[new] = "none"
    <3> SUFFICES ASSUME new \in Loops, loop[new] # "none" PROVE FALSE
      OBVIOUS
    <3>1. lastCtx[c] + 1 <= lastCtx[c] /\ lastCtx[c] \in Nat
      BY DEF ChanInv, ChanType, Fresh
    <3>2. QED
      BY <3>1
  <2>2. \A l \in Loops : loop'[l] # loop[l] => loop[l] = "none" /\ loop'[l] = "starting"
    BY <1>3, <2>1 DEF HandleWatch, ChanInv, ChanType
  <2>3. UNCHANGED <<reg, owed, conn, buf, out, view>>
    BY <1>3 DEF HandleWatch
  <2>4. QED
    BY <1>2, <2>2, <2>3
<1>4. CASE SubscribeWatch(c)
  <2> DEFINE w == watcher[c]
             new == sub[c] \ w.types
             k == IF w.ctx = 0 THEN lastCtx[c] + 1 ELSE w.ctx
             started == {c} \X new \X {k}
  <2>1. loop' = [l \in Loops |-> IF l \in started THEN "starting" ELSE loop[l]]
    BY <1>4 DEF SubscribeWatch
  <2>2. ASSUME NEW l \in Loops, l \in started PROVE loop[l] = "none"
    <3>1. l[1] = c /\ l[2] \notin w.types /\ l[3] = k
      BY <2>2
    <3>2. w \in [ctx : Nat, types : SUBSET Types, watch : BOOLEAN] /\ lastCtx[c] \in Nat
      BY DEF ChanInv, ChanType
    <3>3. QED
      BY <3>1, <3>2 DEF ChanInv, Fresh
  <2> HIDE DEF started
  <2>3. \A l \in Loops : loop'[l] # loop[l] => loop[l] = "none" /\ loop'[l] = "starting"
    BY <2>1, <2>2
  <2>4. UNCHANGED <<reg, owed, conn, buf, out, view>>
    BY <1>4 DEF SubscribeWatch
  <2>5. QED
    BY <1>2, <2>3, <2>4
<1>5. CASE Shutdown(c)
  <2>1. /\ conn' = [conn EXCEPT ![c] = "closing"] /\ out' = [out EXCEPT ![c] = <<>>]
        /\ view' = [view EXCEPT ![c] = {}] /\ UNCHANGED <<reg, owed, loop, buf>>
    BY <1>5 DEF Shutdown
  <2>2. \A d \in Conns : /\ conn'[d] = "open" => d # c /\ conn[d] = "open"
                         /\ d # c => out'[d] = out[d] /\ view'[d] = view[d]
    BY <2>1 DEF TypeInv, TypeOK
  <2>3. QED
    BY <1>0, <2>1, <2>2, JoinKeeps DEF JoinInv, Idle, Unowed, Known, Carried, Telling
<1>6. CASE OnDisconnect(c)
  <2>1. \A d \in Conns : conn'[d] = "open" => conn[d] = "open"
    BY <1>6 DEF OnDisconnect, TypeInv, TypeOK
  <2>2. UNCHANGED <<reg, owed, loop, buf, out, view>>
    BY <1>6 DEF OnDisconnect
  <2>3. QED
    BY <1>0, <2>1, <2>2, JoinKeeps DEF JoinInv, Idle, Unowed, Known, Carried, Telling
<1>7. CASE Deliver(c)
  <2>1. /\ view' = [view EXCEPT ![c] = @ \cup Head(out[c]).nodes]
        /\ out' = [out EXCEPT ![c] = Tail(@)] /\ out[c] # <<>>
        /\ UNCHANGED <<reg, owed, loop, conn, buf>>
    BY <1>7 DEF Deliver
  <2>2. ToSet(out[c]) = {Head(out[c])} \cup ToSet(Tail(out[c]))
    BY <2>1, SetOfQueue DEF TypeInv, TypeOK
  <2>3. \A d \in Conns : /\ out'[d] = IF d = c THEN Tail(out[c]) ELSE out[d]
                         /\ view'[d] = IF d = c THEN view[c] \cup Head(out[c]).nodes ELSE view[d]
    BY <2>1 DEF TypeInv, TypeOK
  <2>4. \A d \in Conns : view[d] \cup Carried(d) \subseteq view'[d] \cup Carried(d)'
    BY <2>2, <2>3 DEF Carried
  <2>5. \A l \in Loops : Known(l) \subseteq Known(l)'
    BY <1>0, <2>1, <2>4 DEF Known, Telling, Carried
  <2>6. QED
    BY <2>1, <2>5, JoinKeeps DEF JoinInv, Idle, Unowed
<1>8. QED
  BY <1>1, <1>11, <1>3, <1>4, <1>5, <1>6, <1>7

\* watchLoop: what leaves the channel enters writeCh, or the loop ends.
LEMMA LoopJoins ==
    ASSUME TypeInv, JoinInv, NEW l \in Loops, Looping(l) \/ Cleanup(l)
    PROVE  JoinInv'
<1> USE DEF storeVars, regVars, snapVars, connVars, loopVars, clientVars
<1>0. loop \in [Loops -> {"none", "starting", "running", "gone"}] /\ ConnOf(l) \in Conns
  BY DEF TypeInv, TypeOK, Loops, ConnOf
<1>1. CASE StartLoop(l)
  <2>1. owed[l] = {} /\ loop' = [loop EXCEPT ![l] = "running"]
        /\ UNCHANGED <<reg, owed, conn, buf, out, view>>
    BY <1>1 DEF StartLoop, JoinInv, Unowed
  <2>2. Idle' /\ Unowed'
    BY <1>0, <2>1 DEF JoinInv, Idle, Unowed
  <2>3. NoJoinLost'
    BY <1>0, <2>1 DEF JoinInv, NoJoinLost, InFlight
  <2>4. QED
    BY <2>2, <2>3 DEF JoinInv
<1>2. CASE StartRefused(l) \/ EndLoop(l)
  <2>1. loop' = [loop EXCEPT ![l] = "gone"] /\ UNCHANGED <<reg, owed, conn, buf, out, view>>
    BY <1>2 DEF StartRefused, EndLoop
  <2>2. Idle' /\ Unowed'
    BY <1>0, <2>1 DEF JoinInv, Idle, Unowed
  <2>3. NoJoinLost'
    BY <1>0, <2>1 DEF JoinInv, NoJoinLost, InFlight
  <2>4. QED
    BY <2>2, <2>3 DEF JoinInv
<1>3. CASE Forward(l)
  <2> DEFINE c == ConnOf(l)
             e == Event(Head(buf[l]))
  <2>1. /\ loop[l] = "running" /\ buf[l] # <<>> /\ buf' = [buf EXCEPT ![l] = Tail(@)]
        /\ SendProto(c, e) /\ loop' = IF SendOk(c) THEN loop ELSE [loop EXCEPT ![l] = "gone"]
        /\ UNCHANGED <<reg, owed, conn, view>>
    BY <1>3 DEF Forward
  <2>2. buf \in [Loops -> Seq(Nodes)] /\ buf[l] \in Seq(Nodes)
    BY DEF TypeInv, TypeOK
  <2>3. Head(buf[l]) \in Nodes
    BY <2>1, <2>2
  <2>4. e \in Message /\ e.nodes = {Head(buf[l])}
    BY <2>3 DEF Event, Message
  <2>5. ToSet(buf[l]) = {Head(buf[l])} \cup ToSet(Tail(buf[l]))
    BY <2>1, <2>2, SetOfQueue
  <2>6. \A k \in Loops : buf'[k] = IF k = l THEN Tail(buf[l]) ELSE buf[k]
    BY <2>1, <2>2
  <2>7. /\ \A d \in Conns : Carried(d) \subseteq Carried(d)'
        /\ SendOk(c) => {Head(buf[l])} \subseteq Carried(c)'
    BY <1>0, <2>1, <2>4, SendCarries
  <2>8. Idle' /\ Unowed'
    BY <1>0, <2>1 DEF JoinInv, Idle, Unowed
  <2>9. ASSUME NEW k \in Loops, loop'[k] = "running" PROVE loop[k] = "running" /\ (k = l => SendOk(c))
    BY <1>0, <2>1, <2>9
  <2>10. ASSUME NEW k \in Loops, loop'[k] = "running" PROVE Known(k) \subseteq Known(k)'
    <3>1. ConnOf(k) \in Conns
      BY DEF Loops, ConnOf
    <3>2. CASE k = l
      BY <2>1, <2>5, <2>6, <2>7, <2>9, <2>10, <3>1, <3>2 DEF Known, Telling, Carried
    <3>3. CASE k # l
      BY <2>1, <2>6, <2>7, <3>1, <3>3 DEF Known, Telling, Carried
    <3>4. QED
      BY <3>2, <3>3
  <2>11. QED
    BY <2>1, <2>8, <2>9, <2>10, JoinKeeps
<1>4. CASE Cleanup(l)
  BY <1>4, JoinStutters DEF Cleanup
<1>5. QED
  BY <1>1, <1>2, <1>3, <1>4 DEF Looping

\* Register, subscribeInternal and watchLoop lose no JOIN by their interleaving:
\* while the watchLoop of an open connection runs, its client knows of every node
\* that registered since the channel was added, or is going to be told, unless
\* the channel was full or the registering handler panicked.
THEOREM JoinsArrive == Spec => []NoJoinLost
<1>1. Init => JoinInv
  BY DEF Init, JoinInv, Idle, Unowed, NoJoinLost
<1>2. TypeInv /\ ChanInv /\ JoinInv /\ [Next]_vars => JoinInv'
  <2> SUFFICES ASSUME TypeInv, ChanInv, JoinInv, [Next]_vars PROVE JoinInv'
    OBVIOUS
  <2>1. ASSUME NEW n \in Nodes, Heartbeat(n) \/ Lapse(n) PROVE JoinInv'
    BY <2>1, JoinStutters DEF Heartbeat, Lapse, regVars, snapVars, connVars, loopVars, clientVars
  <2>2. CASE SweepExpired \/ StopServer \/ StopWatchers \/ CloseStore \/ UNCHANGED vars
    BY <2>2, JoinStutters DEF SweepExpired, StopServer, StopWatchers, CloseStore, vars,
       storeVars, regVars, snapVars, connVars, loopVars, clientVars
  <2>3. QED
    BY <2>1, <2>2, RegisterJoins, RequestJoins, LoopJoins DEF Next
<1>3. JoinInv => NoJoinLost
  BY DEF JoinInv
<1>4. QED
  BY <1>1, <1>2, <1>3, TypeInductive, ChanInductive, PTL DEF Spec
=============================================================================
