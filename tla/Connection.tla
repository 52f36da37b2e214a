----------------------------- MODULE Connection -----------------------------
(***************************************************************************)
(* One connection of the C++ network library: AsyncTCPConnection           *)
(* (net/async/tcp_connection.cpp) or WebSocketConnection                   *)
(* (net/async/ws_connection.cpp), its event loop (event_loop.cpp) and the  *)
(* threads that use it.                                                    *)
(*                                                                         *)
(* The loop thread runs the libuv callbacks, the posted tasks and the      *)
(* application's callbacks; any thread may call Send, Close and            *)
(* CloseAfterWrite.  A step is one critical section of write_mtx_ or one   *)
(* access to an atomic; what only the loop thread touches is folded into   *)
(* the step around it.  A message is one unit of write_queue_bytes_.       *)
(* libuv is external: uv_write ends in success or failure, uv_close        *)
(* cancels the write in flight and then calls back.                        *)
(***************************************************************************)
EXTENDS Integers, Sequences, FiniteSets

CONSTANTS
  Kinds,            \* the transports checked: a subset of {"tcp", "ws"}
  Callers,          \* the threads other than the loop that use the connection
  Loop,             \* the loop thread
  MaxSends,         \* bound: messages sent in a behaviour
  MaxTasks,         \* bound: tasks waiting in the loop
  MaxWriteQueue,    \* MAX_WRITE_QUEUE_BYTES
  ResumeThreshold,  \* WRITE_RESUME_THRESHOLD
  MaxBatch          \* MAX_BATCH: buffers of one uv_write

ASSUME ConnectionAssumption ==
  /\ Kinds \subseteq {"tcp", "ws"}
  /\ Loop \notin Callers
  /\ MaxSends \in Nat /\ MaxTasks \in Nat
  /\ MaxBatch \in Nat \ {0}
  /\ ResumeThreshold \in Nat /\ MaxWriteQueue \in Nat
  /\ ResumeThreshold <= MaxWriteQueue

Threads == Callers \cup {Loop}

VARIABLES
  kind,       \* which of the two classes this object is
  closed, closing, close_after_write, writing, read_paused, \* its flags
  queue,      \* messages in write_queue_
  inflight,   \* messages of the uv_write in progress, 0 when there is none
  handle,     \* the uv_tcp_t: "open", "closing" (uv_close called), "gone"
  reading,    \* uv_read_start is in force
  tasks,      \* AsyncEventLoop's task queue: "write", "close" or "stop"
  pc,         \* where each thread stands in Send or CloseAfterWrite
  sealing,    \* SendCloseAndDrain on the loop: "no", "frame" or "seal" to come
  \* histories
  pushed,     \* messages ever queued
  written,    \* messages whose uv_write succeeded
  due,        \* messages queued when a Send last returned
  owed,       \* due when the first request to close after writing was marked
  hard,       \* a Close() or a failed write gives up what is queued
  overtaken,  \* reading was resumed while a stop was still on its way
  told        \* calls of on_close_

flags == <<closed, closing, close_after_write>>
write == <<writing, queue, inflight>>
read  == <<read_paused, reading, overtaken>>
hist  == <<pushed, written, due, owed, hard, told>>
vars  == <<kind, flags, write, read, handle, tasks, pc, sealing, hist>>

Init ==
  /\ kind \in Kinds
  /\ closed = FALSE /\ closing = FALSE /\ close_after_write = FALSE
  /\ writing = FALSE /\ queue = 0 /\ inflight = 0
  /\ read_paused = FALSE /\ reading = TRUE /\ overtaken = FALSE
  /\ handle = "open" /\ tasks = <<>> /\ sealing = "no"
  /\ pc = [t \in Threads |-> "idle"]
  /\ pushed = 0 /\ written = 0 /\ due = 0 /\ owed = 0 /\ hard = FALSE /\ told = 0

Least(a, b) == IF a < b THEN a ELSE b
Goto(t, l)  == pc' = [pc EXCEPT ![t] = l]

\* The loop thread is between two callbacks.
LoopIdle == pc[Loop] = "idle" /\ sealing = "no"

\* The check that Send, SendBatch, SendMessage and CloseAfterWrite begin with.
IsWritable == ~closed /\ ~closing /\ ~close_after_write /\ handle # "gone"

Stops(t) == pc[t] = "stop"
StopPending == (\E t \in Threads : Stops(t)) \/ \E i \in DOMAIN tasks : tasks[i] = "stop"
-----------------------------------------------------------------------------
(* Effects on the loop thread that several callbacks share.                *)

\* Plausible bug: uv_is_closing is tested the wrong way round.
DoCloseInverted ==
  /\ closing' = IF kind = "ws" THEN TRUE ELSE closing
  /\ UNCHANGED <<handle, reading>>

\* DoClose: uv_close, which also ends reading.
DoClose ==
  /\ closing' = IF kind = "ws" THEN TRUE ELSE closing
  /\ handle' = IF handle = "open" THEN "closing" ELSE handle
  /\ reading' = IF handle = "open" THEN FALSE ELSE reading

\* Close() on the loop thread, where Post runs DoClose at once; r tells
\* whether the peer was being read when it was called.
CloseInline(r) ==
  /\ closed' = TRUE
  /\ IF closed \/ closing
     THEN reading' = r /\ UNCHANGED <<closing, handle>>
     ELSE /\ closing' = TRUE
          /\ handle' = IF handle = "open" THEN "closing" ELSE handle
          /\ reading' = (r /\ handle # "open")

\* ProcessWriteQueue finds the handle closing.
ProcessClosing ==
  /\ handle # "open"
  /\ writing' = (kind = "tcp")
  /\ UNCHANGED <<flags, queue, read, handle, hard>>

\* Plausible bug: writing_ is not taken back when the queue is empty.
ProcessEmptyBusy ==
  /\ handle = "open" /\ queue = 0 /\ ~close_after_write
  /\ writing' = TRUE
  /\ UNCHANGED <<flags, queue, read, handle, hard>>

\* Plausible bug: the WebSocket calls Close() as the TCP connection does.
ProcessEmptyClose ==
  /\ handle = "open" /\ queue = 0
  /\ writing' = FALSE /\ close_after_write' = FALSE
  /\ IF close_after_write THEN CloseInline(reading) ELSE UNCHANGED <<closed, closing, handle, reading>>
  /\ UNCHANGED <<queue, read_paused, overtaken, hard>>

\* ProcessWriteQueue finds nothing to write: the requested close is now due.
ProcessEmpty ==
  /\ handle = "open" /\ queue = 0
  /\ writing' = FALSE /\ close_after_write' = FALSE
  /\ IF ~close_after_write THEN UNCHANGED <<closed, closing, handle, reading>>
     ELSE IF kind = "tcp"  THEN CloseInline(reading)
     ELSE DoClose /\ UNCHANGED closed
  /\ UNCHANGED <<queue, read_paused, overtaken, hard>>

\* ProcessWriteQueue takes a batch and resumes reading below the threshold.
TakeBatch(n) ==
  /\ handle = "open" /\ queue > 0
  /\ queue' = queue - n
  /\ IF read_paused /\ queue - n < ResumeThreshold
     THEN read_paused' = FALSE /\ overtaken' = (overtaken \/ StopPending)
     ELSE UNCHANGED <<read_paused, overtaken>>

\* Plausible bug: the flag is cleared and uv_read_start forgotten.
NotResumed == FALSE

\* uv_read_start is called.
Resumed == read_paused /\ ~read_paused'

\* ProcessWriteQueue; got is the number of messages handed to uv_write.
ProcessWriteQueue(got) ==
  LET n == Least(queue, MaxBatch) IN
  \/ got = 0 /\ ProcessClosing
  \/ got = 0 /\ ProcessEmpty
  \/ /\ got = n /\ TakeBatch(n)
     /\ writing' = TRUE
     /\ reading' = (reading \/ Resumed)
     /\ UNCHANGED <<flags, handle, hard>>
  \/ /\ got = 0 /\ TakeBatch(n)          \* uv_write refuses
     /\ writing' = FALSE /\ hard' = TRUE
     /\ CloseInline(reading \/ Resumed)
     /\ UNCHANGED close_after_write
-----------------------------------------------------------------------------
(* Callers: Send, SendBatch and the WebSocket frames.                      *)

\* A thread may enter a call: the loop only from a callback of its own.
MayCall(t) == pc[t] = "idle" /\ (t = Loop => LoopIdle)

\* The unlocked checks of Send pass.  (A WebSocket looks at the flags again in
\* QueueFrameParts; a frame it drops there is as if it had not been sent.)
SendChecked(t) ==
  /\ MayCall(t) /\ IsWritable /\ pushed < MaxSends
  /\ Goto(t, "push")
  /\ UNCHANGED <<kind, flags, write, read, handle, tasks, sealing, hist>>

\* Plausible bug: write_queue_bytes_ counts what is already on the socket.
PushTwice(t, n) ==
  /\ pc[t] = "push" /\ Goto(t, "kick")
  /\ queue' = queue + 2 * n /\ pushed' = pushed + n
  /\ UNCHANGED <<kind, flags, writing, inflight, read, handle, tasks, sealing,
                 written, due, owed, hard, told>>

\* Under write_mtx_: n messages are queued, and the peer is no longer read
\* when the queue is too long.
Push(t, n) ==
  /\ pc[t] = "push"
  /\ queue' = queue + n /\ pushed' = pushed + n
  /\ IF queue + n > MaxWriteQueue /\ ~read_paused
     THEN read_paused' = TRUE /\ Goto(t, "stop")
     ELSE Goto(t, "kick") /\ UNCHANGED read_paused
  /\ UNCHANGED <<kind, flags, writing, inflight, reading, overtaken, handle, tasks, sealing,
                 written, due, owed, hard, told>>

\* uv_read_stop: TCP calls it from the sending thread, WebSocket posts it.
StopRead(t) ==
  /\ Stops(t) /\ Goto(t, "kick")
  /\ IF kind = "ws" /\ t # Loop
     THEN /\ Len(tasks) < MaxTasks /\ tasks' = Append(tasks, "stop")
          /\ UNCHANGED reading
     ELSE reading' = FALSE /\ UNCHANGED tasks
  /\ UNCHANGED <<kind, flags, write, read_paused, overtaken, handle, sealing, hist>>

\* Whoever sets writing_ starts the writer; the others leave it to him.
Wake(t) ==
  \/ /\ writing
     /\ UNCHANGED <<flags, write, read, handle, tasks, hard>>
  \/ /\ ~writing /\ t # Loop /\ Len(tasks) < MaxTasks
     /\ writing' = TRUE /\ tasks' = Append(tasks, "write")
     /\ UNCHANGED <<flags, queue, inflight, read, handle, hard>>
  \/ /\ ~writing /\ t = Loop
     /\ \E got \in 0 .. MaxBatch : ProcessWriteQueue(got) /\ inflight' = got
     /\ UNCHANGED tasks

\* The end of Send: from here on the caller may rely on the message.
Kick(t) ==
  /\ pc[t] = "kick" /\ Goto(t, "idle")
  /\ Wake(t)
  /\ due' = pushed
  /\ UNCHANGED <<kind, sealing, pushed, written, owed, told>>

\* Close() on another thread: both exchanges and the post of DoClose.
Close(t) ==
  /\ t # Loop /\ pc[t] = "idle"
  /\ ~closed /\ closed' = TRUE
  /\ IF closing THEN UNCHANGED <<closing, tasks>>
     ELSE /\ Len(tasks) < MaxTasks
          /\ closing' = TRUE /\ tasks' = Append(tasks, "close")
  /\ hard' = TRUE
  /\ UNCHANGED <<kind, close_after_write, write, read, handle, pc, sealing, pushed, written, due, owed, told>>

\* Close() inside a callback of the loop: end of file, a read error, a bad
\* packet, a timeout or the application.
CloseOnLoop ==
  /\ LoopIdle /\ ~closed /\ handle = "open"
  /\ CloseInline(reading) /\ hard' = TRUE
  /\ UNCHANGED <<kind, close_after_write, write, read_paused, overtaken, tasks, pc, sealing,
                 pushed, written, due, owed, told>>

\* CloseAfterWrite: the checks pass.
CloseAfterWrite(t) ==
  /\ MayCall(t) /\ IsWritable
  /\ Goto(t, "mark")
  /\ UNCHANGED <<kind, flags, write, read, handle, tasks, sealing, hist>>

\* CloseAfterWrite stores closed_ and close_after_write_.
Mark(t) ==
  /\ pc[t] = "mark" /\ Goto(t, "wake")
  /\ closed' = TRUE /\ close_after_write' = TRUE
  /\ owed' = IF closed THEN owed ELSE due
  /\ UNCHANGED <<kind, closing, write, read, handle, tasks, sealing, pushed, written, due, hard, told>>

\* CloseAfterWrite wakes the writer.
MarkWake(t) ==
  /\ pc[t] = "wake" /\ Goto(t, "idle")
  /\ Wake(t)
  /\ UNCHANGED <<kind, sealing, pushed, written, due, owed, told>>

\* SendCloseAndDrain on a bad or a close frame: its checks pass.
SendCloseFrame ==
  /\ kind = "ws" /\ LoopIdle /\ pushed < MaxSends
  /\ ~closed /\ ~closing /\ handle = "open"
  /\ sealing' = "frame"
  /\ UNCHANGED <<kind, flags, write, read, handle, tasks, pc, hist>>

\* QueueFrame looks again at the flags before it queues the close frame.
QueueCloseFrame ==
  /\ sealing = "frame" /\ sealing' = "seal"
  /\ IF closed \/ closing THEN UNCHANGED pc ELSE Goto(Loop, "push")
  /\ UNCHANGED <<kind, flags, write, read, handle, tasks, hist>>

\* Plausible bug: the drain is not waited for.
SealNow ==
  /\ sealing = "seal" /\ pc[Loop] = "idle" /\ sealing' = "no"
  /\ closed' = TRUE /\ close_after_write' = TRUE
  /\ owed' = IF closed THEN owed ELSE due
  /\ DoClose
  /\ UNCHANGED <<kind, write, read_paused, overtaken, tasks, pc, pushed, written, due, hard, told>>

\* The end of SendCloseAndDrain: close now if nobody is writing.
Seal ==
  /\ sealing = "seal" /\ pc[Loop] = "idle" /\ sealing' = "no"
  /\ closed' = TRUE /\ close_after_write' = TRUE
  /\ owed' = IF closed THEN owed ELSE due
  /\ IF writing THEN UNCHANGED <<closing, handle, reading>> ELSE DoClose
  /\ UNCHANGED <<kind, write, read_paused, overtaken, tasks, pc, pushed, written, due, hard, told>>
-----------------------------------------------------------------------------
(* The loop thread: posted tasks and libuv's callbacks.                    *)

\* OnAsyncWake runs the oldest task.
RunTask ==
  /\ LoopIdle /\ tasks # <<>> /\ tasks' = Tail(tasks)
  /\ \/ /\ Head(tasks) = "write"
        /\ \E got \in 0 .. MaxBatch : ProcessWriteQueue(got) /\ inflight' = got
     \/ /\ Head(tasks) = "close" /\ DoClose
        /\ UNCHANGED <<closed, close_after_write, write, read_paused, overtaken, hard>>
     \/ /\ Head(tasks) = "stop" /\ reading' = FALSE
        /\ UNCHANGED <<flags, write, read_paused, overtaken, handle, hard>>
  /\ UNCHANGED <<kind, pc, sealing, pushed, written, due, owed, told>>

\* OnWriteDone, status 0: the next batch.
OnWriteDone ==
  /\ LoopIdle /\ inflight > 0
  /\ written' = written + inflight
  /\ \E got \in 0 .. MaxBatch : ProcessWriteQueue(got) /\ inflight' = got
  /\ UNCHANGED <<kind, tasks, pc, sealing, pushed, due, owed, told>>

\* OnWriteDone, status < 0: the peer is gone, or uv_close cancelled the write.
OnWriteFailed ==
  /\ LoopIdle /\ inflight > 0
  /\ inflight' = 0 /\ hard' = TRUE
  /\ CloseInline(reading)
  /\ UNCHANGED <<kind, close_after_write, writing, queue, read_paused, overtaken, tasks, pc, sealing,
                 pushed, written, due, owed, told>>

\* OnCloseDone, after the write in flight was cancelled.
OnCloseDone ==
  /\ LoopIdle /\ handle = "closing" /\ inflight = 0
  /\ handle' = "gone" /\ told' = told + 1
  /\ UNCHANGED <<kind, flags, write, read, tasks, pc, sealing, pushed, written, due, owed, hard>>

Caller(t) ==
  \/ SendChecked(t) \/ StopRead(t) \/ Kick(t) \/ Close(t)
  \/ CloseAfterWrite(t) \/ Mark(t) \/ MarkWake(t)
  \/ \E n \in 1 .. 2 : Push(t, n)

Next ==
  \/ \E t \in Threads : Caller(t)
  \/ CloseOnLoop \/ SendCloseFrame \/ QueueCloseFrame \/ Seal
  \/ RunTask \/ OnWriteDone \/ OnWriteFailed \/ OnCloseDone

\* A call that was begun goes on; the loop runs its tasks and callbacks; a
\* write ends one way or the other.  Nobody has to call anything.
Fairness ==
  /\ \A t \in Threads :
       /\ WF_vars(\E n \in 1 .. 2 : Push(t, n)) /\ WF_vars(StopRead(t))
       /\ WF_vars(Kick(t)) /\ WF_vars(Mark(t)) /\ WF_vars(MarkWake(t))
  /\ WF_vars(QueueCloseFrame) /\ WF_vars(Seal)
  /\ WF_vars(RunTask) /\ WF_vars(OnCloseDone)
  /\ WF_vars(OnWriteDone \/ OnWriteFailed)

Spec == Init /\ [][Next]_vars /\ Fairness
-----------------------------------------------------------------------------
TypeOK ==
  /\ kind \in Kinds
  /\ {closed, closing, close_after_write, writing, read_paused, reading, hard, overtaken} \subseteq BOOLEAN
  /\ queue \in Nat /\ inflight \in 0 .. MaxBatch
  /\ handle \in {"open", "closing", "gone"} /\ sealing \in {"no", "frame", "seal"}
  /\ tasks \in Seq({"write", "close", "stop"}) /\ Len(tasks) <= MaxTasks
  /\ pc \in [Threads -> {"idle", "push", "stop", "kick", "mark", "wake"}]
  /\ pushed = written + inflight + queue \/ hard
  /\ due <= pushed /\ owed <= due /\ told \in 0 .. 1

\* The writer at work, posted or in the hands of libuv.
Writers ==
  Cardinality({i \in DOMAIN tasks : tasks[i] = "write"}) + (IF inflight > 0 THEN 1 ELSE 0)

\* A queued message always has exactly one to write it: there is never more
\* than one writer (write_req_ is one object, used again for every batch), and
\* when there is none a sender is about to wake it (the push under write_mtx_
\* against the store of writing_ in ProcessWriteQueue).
OneWriter ==
  /\ Writers <= 1
  /\ (queue > 0 /\ handle = "open" /\ ~hard) =>
        Writers = 1 \/ \E t \in Threads : pc[t] \in {"stop", "kick"}

\* Reading is in force exactly when back pressure does not forbid it, unless
\* a resume overtook the stop it answers.
ReadingWhenAllowed ==
  (handle = "open" /\ ~StopPending /\ ~overtaken) => (reading <=> ~read_paused)

\* A connection that closes because its queue was drained has written every
\* message whose Send had returned before the close was asked for
\* (CloseAfterWrite, SendCloseAndDrain).
DrainedBeforeClose ==
  [][handle = "open" /\ handle' = "closing" /\ ~hard' => written' >= owed']_vars

\* A request to close that the class has lost: Close() and end of file return
\* at once when closed is set, so nothing closes a connection that CloseAfterWrite
\* or SendCloseAndDrain has marked but its drained queue. That never closes a TCP
\* connection (ClosesAfterWrite), and a WebSocket not after a failed write.
Lapsed == closed /\ ~closing /\ (kind = "tcp" \/ hard)

\* The class implements the promise of IConnection: whichever way it was asked
\* to close, by Close, CloseAfterWrite, SendCloseAndDrain, a peer or a failed
\* write, it closes, unless the request has lapsed.
Life == INSTANCE ConnLife WITH
  asked <- closed \/ closing, life <- handle, accepted <- pushed, wire <- written, told <- told,
  lapsed <- Lapsed
ImplementsLife == Life!Spec

\* A WebSocket that is to close once its queue is written does close, unless a
\* write fails on the way.
DrainEnds ==
  (kind = "ws" /\ close_after_write) ~> (handle = "gone" \/ hard)

\* What tcp_connection.hpp says of CloseAfterWrite: once the queued writes
\* are drained the connection is closed.
ClosesAfterWrite ==
  close_after_write ~> (handle = "gone" \/ hard)
=============================================================================
