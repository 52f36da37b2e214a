-------------------------- MODULE ConnectionProofs --------------------------
(***************************************************************************)
(* Theorems about Connection, for either transport, any number of threads  *)
(* and messages and any queue limits, and its refinement of ConnLife.      *)
(***************************************************************************)
EXTENDS Connection, SequenceTheorems, FiniteSetTheorems, TLAPS

Task == {"write", "close", "stop"}
Labels == {"idle", "push", "stop", "kick", "mark", "wake"}

\* A task of this kind is posted; at most one is.
Posted(x) == \E i \in DOMAIN tasks : tasks[i] = x
Once(x) == \A i, j \in DOMAIN tasks : tasks[i] = x /\ tasks[j] = x => i = j

\* Every accepted message is on the wire, in flight or queued, or was given up.
Counted ==
  /\ pushed \in Nat /\ written \in Nat /\ due \in Nat /\ owed \in Nat
  /\ written + inflight + queue <= pushed
  /\ told = IF handle = "gone" THEN 1 ELSE 0

\* The counts of TypeOK.
Adds ==
  /\ queue \in Nat /\ inflight \in 0 .. MaxBatch
  /\ pushed = written + inflight + queue \/ hard
  /\ due <= pushed /\ owed <= due /\ told \in 0 .. 1

\* The flags are Booleans, after as well as before a step.
Flagged ==
  {closed, closing, close_after_write, writing, read_paused, reading, hard, overtaken} \subseteq BOOLEAN

\* writing_ is the lock of the writer: who is at work holds it, and until the
\* connection fails or closes whoever holds it is at work.
Locked ==
  /\ Once("write")
  /\ inflight > 0 => ~Posted("write") /\ writing /\ handle # "gone"
  /\ Posted("write") => writing
  /\ handle = "open" /\ ~hard /\ writing => inflight > 0 \/ Posted("write")

\* Without a writer every message whose Send returned is written, and who
\* queued another one has yet to look at writing_.
Fed ==
  handle = "open" /\ ~hard /\ ~writing =>
    /\ due <= written
    /\ queue > 0 => \E t \in Threads : pc[t] \in {"stop", "kick"}

\* closing_ is set before the handle is closed.
Announced ==
  /\ handle # "open" => closing
  /\ Posted("close") => closing /\ hard
  /\ sealing # "no" => kind = "ws"

\* Only who paused reading has a stop under way, unless a resume overtook it.
Paused ==
  handle = "open" /\ ~overtaken =>
    /\ StopPending => read_paused
    /\ ~StopPending => (reading <=> ~read_paused)

Inv == TypeOK /\ Counted /\ Locked /\ Fed /\ Announced /\ Paused
-----------------------------------------------------------------------------
(* Tasks of the event loop.                                                *)

\* Post adds a task at the end.
LEMMA Posting ==
  ASSUME NEW x \in Task, tasks \in Seq(Task), tasks' = Append(tasks, x)
  PROVE  /\ tasks' \in Seq(Task) /\ Len(tasks') = Len(tasks) + 1
         /\ \A y \in Task : Posted(y)' <=> Posted(y) \/ y = x
         /\ Once("write") /\ (Posted("write") => x # "write") => Once("write")'
<1>1. /\ tasks' \in Seq(Task) /\ Len(tasks') = Len(tasks) + 1
      /\ DOMAIN tasks = 1 .. Len(tasks) /\ DOMAIN tasks' = 1 .. (Len(tasks) + 1)
      /\ \A i \in 1 .. Len(tasks) : tasks'[i] = tasks[i]
      /\ tasks'[Len(tasks) + 1] = x
  BY AppendProperties
<1>2. Len(tasks) \in Nat
  OBVIOUS
<1>3. ASSUME NEW y \in Task PROVE Posted(y)' <=> Posted(y) \/ y = x
  BY <1>1, <1>2 DEF Posted
<1>4. ASSUME Once("write"), Posted("write") => x # "write" PROVE Once("write")'
  BY <1>1, <1>2, <1>4 DEF Posted, Once
<1>5. QED
  BY <1>1, <1>3, <1>4

\* OnAsyncWake takes the first task.
LEMMA Taking ==
  ASSUME tasks \in Seq(Task), tasks # <<>>, tasks' = Tail(tasks)
  PROVE  /\ tasks' \in Seq(Task) /\ Len(tasks') = Len(tasks) - 1
         /\ Head(tasks) \in Task /\ Posted(Head(tasks))
         /\ \A y \in Task : /\ Posted(y)' => Posted(y)
                            /\ Posted(y) => Posted(y)' \/ y = Head(tasks)
         /\ Once("write") => Once("write")' /\ (Head(tasks) = "write" => ~Posted("write")')
<1>1. /\ tasks' \in Seq(Task) /\ Len(tasks') = Len(tasks) - 1
      /\ Len(tasks) \in Nat \ {0}
      /\ DOMAIN tasks = 1 .. Len(tasks) /\ DOMAIN tasks' = 1 .. (Len(tasks) - 1)
      /\ Head(tasks) = tasks[1] /\ Head(tasks) \in Task
      /\ \A i \in 1 .. (Len(tasks) - 1) : tasks'[i] = tasks[i + 1]
  BY HeadTailProperties, EmptySeq
<1>2. Posted(Head(tasks))
  BY <1>1 DEF Posted
<1>3. ASSUME NEW y \in Task, Posted(y)' PROVE Posted(y)
  <2>1. PICK i \in 1 .. (Len(tasks) - 1) : tasks'[i] = y
    BY <1>1, <1>3 DEF Posted
  <2>2. i + 1 \in DOMAIN tasks /\ tasks[i + 1] = y
    BY <1>1, <2>1
  <2>3. QED
    BY <2>2 DEF Posted
<1>4. ASSUME NEW y \in Task, Posted(y), y # Head(tasks) PROVE Posted(y)'
  <2>1. PICK i \in 1 .. Len(tasks) : tasks[i] = y
    BY <1>1, <1>4 DEF Posted
  <2>2. i - 1 \in 1 .. (Len(tasks) - 1) /\ tasks'[i - 1] = y
    BY <1>1, <1>4, <2>1
  <2>3. QED
    BY <1>1, <2>2 DEF Posted
<1>5. ASSUME Once("write") PROVE Once("write")' /\ (Head(tasks) = "write" => ~Posted("write")')
  <2>1. Once("write")'
    <3>1. SUFFICES ASSUME NEW i \in DOMAIN tasks', NEW j \in DOMAIN tasks',
                          tasks'[i] = "write", tasks'[j] = "write"
                   PROVE  i = j
      BY DEF Once
    <3>2. i + 1 \in DOMAIN tasks /\ j + 1 \in DOMAIN tasks
      BY <1>1, <3>1
    <3>3. tasks[i + 1] = "write" /\ tasks[j + 1] = "write"
      BY <1>1, <3>1
    <3>4. i + 1 = j + 1
      BY <1>5, <3>2, <3>3 DEF Once
    <3>5. QED
      BY <1>1, <3>1, <3>4
  <2>2. ASSUME Head(tasks) = "write", Posted("write")' PROVE FALSE
    <3>1. PICK i \in 1 .. (Len(tasks) - 1) : tasks'[i] = "write"
      BY <1>1, <2>2 DEF Posted
    <3>2. i + 1 \in DOMAIN tasks /\ tasks[i + 1] = "write" /\ 1 \in DOMAIN tasks /\ tasks[1] = "write"
      BY <1>1, <2>2, <3>1
    <3>3. i + 1 = 1
      BY <1>5, <3>2 DEF Once
    <3>4. QED
      BY <3>1, <3>3
  <2>3. QED
    BY <2>1, <2>2
<1>6. QED
  BY <1>1, <1>2, <1>3, <1>4, <1>5

-----------------------------------------------------------------------------
(* The loop's side of a write.                                             *)

\* What the calls and callbacks around ProcessWriteQueue leave to it: the
\* finished batch is counted, nobody else writes, stops stay under way.
Around ==
  /\ written' = written + inflight /\ ~Posted("write")'
  /\ (StopPending' <=> StopPending)
  /\ Posted("close")' => Posted("close")
  /\ inflight > 0 => handle # "gone"
  /\ tasks' \in Seq(Task) /\ Len(tasks') <= MaxTasks
  /\ pc' \in [Threads -> Labels]
  /\ due' = due \/ due' = pushed
  /\ UNCHANGED <<kind, sealing, pushed, owed, told>>

\* ProcessWriteQueue keeps the invariant, whichever way it ends.
LEMMA Processing ==
  ASSUME Inv, NEW got \in 0 .. MaxBatch, ProcessWriteQueue(got), inflight' = got, Around
  PROVE  Inv'
<1> DEFINE n == Least(queue, MaxBatch)
<1> USE ConnectionAssumption DEF Around, flags, read
<1>1. /\ n \in 0 .. MaxBatch /\ n <= queue /\ (queue > 0 => n > 0)
      /\ queue \in Nat /\ inflight \in 0 .. MaxBatch /\ pushed \in Nat /\ written \in Nat /\ due \in Nat /\ owed \in Nat
      /\ written + inflight + queue <= pushed
      /\ ~hard => written + inflight + queue = pushed
  BY DEF Inv, TypeOK, Counted, Least
<1> HIDE DEF n
<1>2. CASE got = 0 /\ ProcessClosing
  <2>0. Flagged'
    BY <1>2 DEF Inv, TypeOK, Flagged, ProcessClosing
  <2>a. Counted' /\ Adds'
    BY <1>1, <1>2 DEF Inv, TypeOK, Counted, Adds, ProcessClosing
  <2>1. TypeOK' /\ Counted'
    BY <1>2, <2>0, <2>a DEF Inv, TypeOK, Flagged, Adds, ProcessClosing, Task, Labels
  <2>2. Locked' /\ Fed' /\ Announced' /\ Paused'
    BY <1>1, <1>2 DEF Inv, TypeOK, Locked, Fed, Announced, Paused, ProcessClosing, Posted, Once
  <2>3. QED
    BY <2>1, <2>2 DEF Inv
<1>3. CASE got = 0 /\ ProcessEmpty
  <2>0. Flagged'
    BY <1>3 DEF Inv, TypeOK, Flagged, ProcessEmpty, CloseInline, DoClose
  <2>e. /\ queue = 0 /\ queue' = 0 /\ inflight' = 0 /\ hard' = hard
        /\ handle = "open" /\ handle' \in {"open", "closing"}
        /\ writing' = FALSE
    BY <1>3 DEF ProcessEmpty, CloseInline, DoClose
  <2>a. Counted' /\ Adds'
    BY <1>1, <2>e DEF Inv, TypeOK, Counted, Adds
  <2>1. TypeOK' /\ Counted'
    BY <1>3, <2>0, <2>a DEF Inv, TypeOK, Flagged, Adds, ProcessEmpty, CloseInline, DoClose, Task, Labels
  <2>2. Locked' /\ Fed'
    BY <1>1, <2>e DEF Inv, TypeOK, Locked, Fed, Posted, Once
  <2>4. Announced' /\ Paused'
    BY <1>3 DEF Inv, TypeOK, Announced, Paused, ProcessEmpty, CloseInline, DoClose
  <2>3. QED
    BY <2>1, <2>2, <2>4 DEF Inv
<1>4. CASE got = n /\ TakeBatch(n) /\ writing' = TRUE /\ reading' = (reading \/ Resumed)
           /\ UNCHANGED <<flags, handle, hard>>
  <2>0. Flagged'
    BY <1>4 DEF Inv, TypeOK, Flagged, TakeBatch, Resumed
  <2>e. /\ queue' = queue - n /\ inflight' = n /\ hard' = hard /\ handle' = handle
    BY <1>4 DEF TakeBatch
  <2>a. Counted' /\ Adds'
    BY <1>1, <2>e DEF Inv, TypeOK, Counted, Adds
  <2>1. TypeOK' /\ Counted'
    BY <1>4, <2>0, <2>a DEF Inv, TypeOK, Flagged, Adds, TakeBatch, Task, Labels
  <2>2. Locked' /\ Fed' /\ Announced'
    BY <1>1, <1>4 DEF Inv, TypeOK, Locked, Fed, Announced, TakeBatch, Posted, Once
  <2>3. Paused'
    BY <1>1, <1>4 DEF Inv, TypeOK, Paused, TakeBatch, Resumed
  <2>4. QED
    BY <2>1, <2>2, <2>3 DEF Inv
<1>5. CASE got = 0 /\ TakeBatch(n) /\ writing' = FALSE /\ hard' = TRUE
           /\ CloseInline(reading \/ Resumed) /\ UNCHANGED close_after_write
  <2>0. Flagged'
    BY <1>5 DEF Inv, TypeOK, Flagged, TakeBatch, Resumed, CloseInline
  <2>a. Counted' /\ Adds'
    BY <1>1, <1>5 DEF Inv, TypeOK, Counted, Adds, TakeBatch, CloseInline
  <2>1. TypeOK' /\ Counted'
    BY <1>5, <2>0, <2>a DEF Inv, TypeOK, Flagged, Adds, TakeBatch, CloseInline, Task, Labels
  <2>2. Locked' /\ Fed' /\ Announced'
    BY <1>1, <1>5 DEF Inv, TypeOK, Locked, Fed, Announced, TakeBatch, CloseInline, Posted, Once
  <2>3. Paused'
    BY <1>1, <1>5 DEF Inv, TypeOK, Paused, TakeBatch, Resumed, CloseInline
  <2>4. QED
    BY <2>1, <2>2, <2>3 DEF Inv
<1>6. QED
  BY <1>2, <1>3, <1>4, <1>5 DEF ProcessWriteQueue, n

\* What TypeOK says of tasks and threads, in the names used here.
LEMMA Typing ==
  ASSUME Inv
  PROVE  tasks \in Seq(Task) /\ Len(tasks) <= MaxTasks /\ pc \in [Threads -> Labels] /\ Flagged /\ Adds
  BY DEF Inv, TypeOK, Task, Labels, Flagged, Adds

\* OnWriteDone continues with the next batch.
LEMMA WriteDoneKeeps ==
  ASSUME Inv, OnWriteDone
  PROVE  Inv'
<1>1. PICK got \in 0 .. MaxBatch : ProcessWriteQueue(got) /\ inflight' = got
  BY DEF OnWriteDone
<1>2. Around
  BY Typing DEF OnWriteDone, Around, Inv, Locked, Posted, StopPending, Stops
<1>3. QED
  BY <1>1, <1>2, Processing

\* The end of Send and of CloseAfterWrite: a writer is woken if there is none.
LEMMA WakeKeeps ==
  ASSUME Inv, NEW t \in Threads, pc[t] \in {"kick", "wake"}, Goto(t, "idle"), Wake(t),
         due' = due \/ due' = pushed,
         UNCHANGED <<kind, sealing, pushed, written, owed, told>>
  PROVE  Inv'
<1> USE ConnectionAssumption DEF flags, write, read
<1>1. /\ pc' \in [Threads -> Labels]
      /\ \A u \in Threads : Stops(u)' <=> Stops(u)
  BY Typing DEF Goto, Labels, Stops
<1>2. CASE /\ writing
           /\ UNCHANGED <<flags, write, read, handle, tasks, hard>>
  <2>1. StopPending' <=> StopPending
    BY <1>1, <1>2 DEF StopPending
  <2>2. TypeOK' /\ Counted'
    BY <1>1, <1>2 DEF Inv, TypeOK, Counted, Labels
  <2>3. Locked' /\ Fed' /\ Announced' /\ Paused'
    BY <1>2, <2>1 DEF Inv, Locked, Fed, Announced, Paused, Posted, Once
  <2>4. QED
    BY <2>2, <2>3 DEF Inv
<1>3. CASE /\ ~writing /\ t # Loop /\ Len(tasks) < MaxTasks
           /\ writing' = TRUE /\ tasks' = Append(tasks, "write")
           /\ UNCHANGED <<flags, queue, inflight, read, handle, hard>>
  <2>1. /\ tasks' \in Seq(Task) /\ Len(tasks') = Len(tasks) + 1
        /\ Posted("write")'
        /\ (Posted("close")' <=> Posted("close")) /\ (Posted("stop")' <=> Posted("stop"))
        /\ Once("write")'
    BY <1>3, Posting, Typing DEF Task, Inv, Locked
  <2>2. StopPending' <=> StopPending
    BY <1>1, <2>1 DEF StopPending, Posted
  <2>3. TypeOK' /\ Counted'
    <3>1. Len(tasks') <= MaxTasks
      BY <1>3, <2>1, Typing
    <3>2. QED
      BY <1>1, <1>3, <2>1, <3>1 DEF Inv, TypeOK, Counted, Labels, Task
  <2>4. Locked' /\ Fed' /\ Announced' /\ Paused'
    BY <1>3, <2>1, <2>2 DEF Inv, TypeOK, Locked, Fed, Announced, Paused
  <2>5. QED
    BY <2>3, <2>4 DEF Inv
<1>4. CASE /\ ~writing /\ t = Loop
           /\ \E got \in 0 .. MaxBatch : ProcessWriteQueue(got) /\ inflight' = got
           /\ UNCHANGED tasks
  <2>1. inflight = 0 /\ ~Posted("write")'
    BY <1>4 DEF Inv, Locked, Posted, TypeOK
  <2>2. Around
    BY <1>1, <1>4, <2>1, Typing DEF Around, Inv, Counted, Posted, StopPending
  <2>3. QED
    BY <1>4, <2>2, Processing
<1>5. QED
  BY <1>2, <1>3, <1>4 DEF Wake

\* OnAsyncWake runs a task.
LEMMA TaskKeeps ==
  ASSUME Inv, RunTask
  PROVE  Inv'
<1> USE ConnectionAssumption DEF flags, write, read
<1>1. /\ tasks' \in Seq(Task) /\ Len(tasks') <= MaxTasks
      /\ Posted(Head(tasks)) /\ Head(tasks) \in Task
      /\ \A y \in Task : Posted(y)' => Posted(y)
      /\ \A y \in Task : Posted(y) => Posted(y)' \/ y = Head(tasks)
      /\ Once("write")' /\ (Head(tasks) = "write" => ~Posted("write")')
  BY Taking, Typing DEF RunTask, Inv, Locked
<1>2. UNCHANGED <<kind, pc, sealing, pushed, written, due, owed, told>> /\ pc' \in [Threads -> Labels]
  BY Typing DEF RunTask
<1>3. ASSUME Head(tasks) = "write",
             \E got \in 0 .. MaxBatch : ProcessWriteQueue(got) /\ inflight' = got
      PROVE  Inv'
  <2>1. inflight = 0
    BY <1>1, <1>3 DEF Inv, Locked, TypeOK
  <2>2. StopPending' <=> StopPending
    BY <1>1, <1>2, <1>3 DEF StopPending, Posted, Stops, Task
  <2>3. Around
    BY <1>1, <1>2, <1>3, <2>1, <2>2 DEF Around, Inv, Counted, Task
  <2>4. QED
    BY <1>3, <2>3, Processing
<1>4. ASSUME Head(tasks) = "close", DoClose,
             UNCHANGED <<closed, close_after_write, write, read_paused, overtaken, hard>>
      PROVE  Inv'
  <2>1. closing /\ hard
    BY <1>1, <1>4 DEF Inv, Announced
  <2>2. /\ handle' # "open" /\ (handle' = "gone" <=> handle = "gone") /\ closing'
        /\ handle' \in {"open", "closing", "gone"} /\ reading' \in BOOLEAN
    BY <1>4, <2>1 DEF DoClose, Inv, TypeOK
  <2>3. TypeOK' /\ Counted'
    BY <1>1, <1>2, <1>4, <2>2 DEF Inv, TypeOK, Counted, Task, DoClose
  <2>4. Locked' /\ Fed' /\ Announced' /\ Paused'
    BY <1>1, <1>2, <1>4, <2>1, <2>2 DEF Inv, Locked, Fed, Announced, Paused, Task
  <2>5. QED
    BY <2>3, <2>4 DEF Inv
<1>5. ASSUME Head(tasks) = "stop", reading' = FALSE,
             UNCHANGED <<flags, write, read_paused, overtaken, handle, hard>>
      PROVE  Inv'
  <2>1. StopPending
    BY <1>1, <1>5 DEF StopPending, Posted
  <2>2. TypeOK' /\ Counted'
    BY <1>1, <1>2, <1>5 DEF Inv, TypeOK, Counted, Task
  <2>3. Locked' /\ Fed' /\ Announced' /\ Paused'
    BY <1>1, <1>2, <1>5, <2>1 DEF Inv, TypeOK, Locked, Fed, Announced, Paused, Task
  <2>4. QED
    BY <2>2, <2>3 DEF Inv
<1>6. QED
  BY <1>3, <1>4, <1>5 DEF RunTask

-----------------------------------------------------------------------------
(* The callers.                                                            *)

\* Send queues its messages and may pause reading.
LEMMA PushKeeps ==
  ASSUME Inv, NEW t \in Threads, NEW n \in 1 .. 2, Push(t, n)
  PROVE  Inv'
<1> USE ConnectionAssumption DEF flags, Push
<1>1. /\ pc' \in [Threads -> Labels] /\ pc'[t] \in {"stop", "kick"}
      /\ \A u \in Threads \ {t} : pc'[u] = pc[u]
  BY Typing DEF Goto, Labels
<1>2. queue' = queue + n /\ pushed' = pushed + n /\ queue \in Nat /\ pushed \in Nat
  BY DEF Inv, TypeOK, Counted
<1>3. TypeOK' /\ Counted'
  <2>1. Counted' /\ Adds'
    BY <1>2 DEF Inv, TypeOK, Counted, Adds
  <2>2. read_paused' \in BOOLEAN
    BY DEF Inv, TypeOK
  <2>3. QED
    BY <1>1, <2>1, <2>2 DEF Inv, TypeOK, Adds, Labels
<1>4. Locked' /\ Announced'
  BY DEF Inv, Locked, Announced, Posted, Once
<1>5. Fed'
  BY <1>1 DEF Inv, Fed
<1>6. Paused'
  <2>1. CASE queue + n > MaxWriteQueue /\ ~read_paused
    <3>1. StopPending' /\ read_paused'
      BY <1>1, <2>1, Typing DEF StopPending, Stops, Goto
    <3>2. QED
      BY <3>1 DEF Paused
  <2>2. CASE ~(queue + n > MaxWriteQueue /\ ~read_paused)
    <3>1. pc'[t] = "kick" /\ read_paused' = read_paused /\ pc[t] = "push"
      BY <2>2, Typing DEF Goto
    <3>2. StopPending' <=> StopPending
      BY <1>1, <3>1 DEF StopPending, Stops
    <3>3. QED
      BY <3>1, <3>2 DEF Inv, Paused
  <2>3. QED
    BY <2>1, <2>2
<1>7. QED
  BY <1>3, <1>4, <1>5, <1>6 DEF Inv

\* uv_read_stop, at once or posted.
LEMMA StopKeeps ==
  ASSUME Inv, NEW t \in Threads, StopRead(t)
  PROVE  Inv'
<1> USE ConnectionAssumption DEF flags, write, hist
<1>1. /\ pc' \in [Threads -> Labels] /\ pc'[t] = "kick"
      /\ \A u \in Threads \ {t} : pc'[u] = pc[u]
  BY Typing DEF StopRead, Goto, Labels
<1>2. /\ StopPending
      /\ UNCHANGED <<kind, flags, write, read_paused, overtaken, handle, sealing, hist>>
  BY DEF StopPending, StopRead
<1>3. Fed'
  BY <1>1, <1>2 DEF Inv, Fed
<1>4. CASE kind = "ws" /\ t # Loop
  <2>1. /\ tasks' \in Seq(Task) /\ Len(tasks') = Len(tasks) + 1 /\ Len(tasks) < MaxTasks
        /\ Posted("stop")' /\ Once("write")' /\ reading' = reading
        /\ (Posted("close")' <=> Posted("close")) /\ (Posted("write")' <=> Posted("write"))
    BY <1>4, Posting, Typing DEF Task, Inv, Locked, StopRead
  <2>2. StopPending'
    BY <2>1 DEF StopPending, Posted
  <2>3. TypeOK' /\ Counted'
    <3>1. Len(tasks') <= MaxTasks
      BY <2>1, Typing
    <3>2. QED
      BY <1>1, <1>2, <2>1, <3>1 DEF Inv, TypeOK, Counted, Labels, Task
  <2>4. Locked' /\ Announced' /\ Paused'
    BY <1>2, <2>1, <2>2 DEF Inv, Locked, Announced, Paused
  <2>5. QED
    BY <1>3, <2>3, <2>4 DEF Inv
<1>5. CASE ~(kind = "ws" /\ t # Loop)
  <2>1. reading' = FALSE /\ tasks' = tasks
    BY <1>5 DEF StopRead
  <2>2. TypeOK' /\ Counted'
    BY <1>1, <1>2, <2>1 DEF Inv, TypeOK, Counted, Labels
  <2>3. Locked' /\ Announced' /\ Paused'
    BY <1>2, <2>1 DEF Inv, TypeOK, Locked, Announced, Paused, Posted, Once
  <2>4. QED
    BY <1>3, <2>2, <2>3 DEF Inv
<1>6. QED
  BY <1>4, <1>5

\* Close() of another thread.
LEMMA CloseKeeps ==
  ASSUME Inv, NEW t \in Threads, Close(t)
  PROVE  Inv'
<1> USE ConnectionAssumption DEF write, read, Close
<1>1. CASE closing
  <2>1. closing' = closing /\ tasks' = tasks
    BY <1>1
  <2>2. TypeOK' /\ Counted'
    BY <2>1 DEF Inv, TypeOK, Counted
  <2>3. Locked' /\ Fed' /\ Announced' /\ Paused'
    BY <2>1 DEF Inv, Locked, Fed, Announced, Paused, Posted, Once, StopPending, Stops
  <2>4. QED
    BY <2>2, <2>3 DEF Inv
<1>2. CASE ~closing
  <2>1. /\ tasks' \in Seq(Task) /\ Len(tasks') = Len(tasks) + 1 /\ Len(tasks) < MaxTasks
        /\ closing' = TRUE /\ Once("write")'
        /\ (Posted("stop")' <=> Posted("stop")) /\ (Posted("write")' <=> Posted("write"))
    BY <1>2, Posting, Typing DEF Task, Inv, Locked
  <2>2. StopPending' <=> StopPending
    BY <2>1 DEF StopPending, Posted, Stops
  <2>3. TypeOK' /\ Counted'
    <3>1. Len(tasks') <= MaxTasks
      BY <2>1, Typing
    <3>2. QED
      BY <2>1, <3>1 DEF Inv, TypeOK, Counted, Task
  <2>4. Locked' /\ Fed' /\ Announced' /\ Paused'
    BY <2>1, <2>2 DEF Inv, Locked, Fed, Announced, Paused
  <2>5. QED
    BY <2>3, <2>4 DEF Inv
<1>3. QED
  BY <1>1, <1>2

\* Calls that only move on, and the marks of the two drains.
LEMMA MarkKeeps ==
  ASSUME Inv,
         \/ \E t \in Threads : SendChecked(t) \/ CloseAfterWrite(t) \/ Mark(t)
         \/ SendCloseFrame \/ QueueCloseFrame
  PROVE  Inv'
<1> USE ConnectionAssumption DEF flags, write, read, hist
<1>1. /\ pc' \in [Threads -> Labels]
      /\ \A u \in Threads : pc'[u] # pc[u] => {pc[u], pc'[u]} \cap {"stop", "kick"} = {}
  BY Typing DEF SendChecked, CloseAfterWrite, Mark, SendCloseFrame, QueueCloseFrame, MayCall, LoopIdle,
     Goto, Labels, Threads
<1>2. /\ UNCHANGED <<kind, closing, write, read, handle, tasks, pushed, written, due, hard, told>>
      /\ closed' \in BOOLEAN /\ close_after_write' \in BOOLEAN
      /\ owed' = owed \/ owed' = due
      /\ sealing' \in {"no", "frame", "seal"}
      /\ sealing' # "no" => sealing # "no" \/ kind = "ws"
  BY DEF Inv, TypeOK, SendChecked, CloseAfterWrite, Mark, SendCloseFrame, QueueCloseFrame
<1>3. StopPending' <=> StopPending
  BY <1>1, <1>2 DEF StopPending, Stops
<1>4. TypeOK' /\ Counted'
  BY <1>1, <1>2 DEF Inv, TypeOK, Counted, Labels
<1>5. Locked' /\ Announced' /\ Paused'
  BY <1>2, <1>3 DEF Inv, Locked, Announced, Paused, Posted, Once
<1>6. Fed'
  BY <1>1, <1>2 DEF Inv, Fed
<1>7. QED
  BY <1>4, <1>5, <1>6 DEF Inv

\* What closes the handle, or fails, on the loop.
LEMMA LoopCloses ==
  ASSUME Inv, CloseOnLoop \/ Seal \/ OnWriteFailed \/ OnCloseDone
  PROVE  Inv'
<1> USE ConnectionAssumption DEF flags, write, read
<1>1. /\ UNCHANGED <<kind, writing, queue, read_paused, overtaken, tasks, pc, pushed, written, due>>
      /\ StopPending' <=> StopPending
      /\ \A y \in Task : Posted(y)' <=> Posted(y)
      /\ Once("write")' <=> Once("write")
  BY DEF CloseOnLoop, Seal, OnWriteFailed, OnCloseDone, StopPending, Stops, Posted, Once
<1>2. Flagged'
  BY Typing DEF CloseOnLoop, Seal, OnWriteFailed, OnCloseDone, CloseInline, DoClose, Flagged
<1>3. /\ inflight' = inflight \/ (inflight' = 0 /\ hard')
      /\ owed' = owed \/ owed' = due
      /\ hard => hard'
      /\ handle' \in {"open", "closing", "gone"} /\ sealing' \in {"no", sealing}
      /\ handle # "open" => handle' # "open"
      /\ handle' # "open" => closing'
      /\ closing => closing'
      /\ reading' = reading \/ handle' # "open"
  BY DEF CloseOnLoop, Seal, OnWriteFailed, OnCloseDone, CloseInline, DoClose, Inv, TypeOK, Announced
<1>4. (handle' = "gone" => inflight' = 0) /\ told' = IF handle' = "gone" THEN 1 ELSE 0
  <2>1. CASE OnCloseDone
    BY <2>1 DEF OnCloseDone, Inv, Counted
  <2>2. CASE CloseOnLoop \/ Seal \/ OnWriteFailed
    <3>1. /\ handle' = "gone" <=> handle = "gone"
          /\ told' = told
          /\ inflight' = inflight \/ inflight' = 0
      BY <2>2 DEF CloseOnLoop, Seal, OnWriteFailed, CloseInline, DoClose
    <3>2. handle = "gone" => inflight = 0
      BY DEF Inv, Locked, TypeOK
    <3>3. QED
      BY <3>1, <3>2 DEF Inv, Counted
  <2>3. QED
    BY <2>1, <2>2
<1>6. Counted' /\ Adds'
  BY <1>1, <1>3, <1>4 DEF Inv, TypeOK, Counted, Adds
<1>7. TypeOK'
  BY <1>1, <1>2, <1>3, <1>6 DEF Inv, TypeOK, Flagged, Adds
<1>8. Locked' /\ Fed' /\ Announced' /\ Paused'
  BY <1>1, <1>3, <1>4, <1>6 DEF Inv, TypeOK, Locked, Fed, Announced, Paused, Task, Adds
<1>9. QED
  BY <1>6, <1>7, <1>8 DEF Inv

-----------------------------------------------------------------------------
(* The theorems.                                                           *)

\* A new connection is read, and has nothing to write and nobody writing.
LEMMA InvInit == Init => Inv
<1> SUFFICES ASSUME Init PROVE Inv
  OBVIOUS
<1> USE ConnectionAssumption DEF Init
<1>1. ~StopPending /\ \A y \in Task : ~Posted(y)
  BY DEF StopPending, Stops, Posted
<1>2. TypeOK /\ Counted
  <2>1. Flagged
    BY DEF Flagged
  <2>4. Counted /\ Adds
    BY DEF Counted, Adds
  <2>2. tasks \in Seq({"write", "close", "stop"}) /\ Len(tasks) <= MaxTasks
    BY EmptySeq
  <2>3. QED
    BY <2>1, <2>2, <2>4 DEF TypeOK, Flagged, Adds
<1>3. Locked /\ Fed /\ Announced /\ Paused
  BY <1>1 DEF Locked, Fed, Announced, Paused, Once, Task
<1>4. QED
  BY <1>2, <1>3 DEF Inv

LEMMA InvNext == Inv /\ [Next]_vars => Inv'
<1> SUFFICES ASSUME Inv, [Next]_vars PROVE Inv'
  OBVIOUS
<1>1. ASSUME NEW t \in Threads, Caller(t) PROVE Inv'
  <2>1. CASE Kick(t) \/ MarkWake(t)
    BY <2>1, WakeKeeps DEF Kick, MarkWake
  <2>2. CASE \E n \in 1 .. 2 : Push(t, n)
    BY <2>2, PushKeeps
  <2>3. CASE StopRead(t) \/ Close(t)
    BY <2>3, StopKeeps, CloseKeeps
  <2>4. CASE SendChecked(t) \/ CloseAfterWrite(t) \/ Mark(t)
    BY <2>4, MarkKeeps
  <2>5. QED
    BY <1>1, <2>1, <2>2, <2>3, <2>4 DEF Caller
<1>2. CASE SendCloseFrame \/ QueueCloseFrame
  BY <1>2, MarkKeeps
<1>3. CASE CloseOnLoop \/ Seal \/ OnWriteFailed \/ OnCloseDone
  BY <1>3, LoopCloses
<1>4. CASE RunTask \/ OnWriteDone
  BY <1>4, TaskKeeps, WriteDoneKeeps
<1>5. CASE UNCHANGED vars
  BY <1>5 DEF vars, flags, write, read, hist, Inv, TypeOK, Counted, Locked, Fed, Announced, Paused,
     Posted, Once, StopPending, Stops
<1>6. QED
  BY <1>1, <1>2, <1>3, <1>4, <1>5 DEF Next

LEMMA Invariance == Spec => []Inv
  BY InvInit, InvNext, PTL DEF Spec

\* Types and counts of the connection: no message is written twice or comes
\* from nowhere, and on_close_ is called at most once.
THEOREM Typed == Spec => []TypeOK
<1>1. Inv => TypeOK
  BY DEF Inv
<1>2. QED
  BY <1>1, Invariance, PTL

\* Whatever the threads do, there is never a second user of write_req_, and a
\* queued message always has somebody to write it.
THEOREM SingleWriter == Spec => []OneWriter
<1>1. ASSUME Inv PROVE OneWriter
  <2> DEFINE W == {i \in DOMAIN tasks : tasks[i] = "write"}
  <2>1. inflight \in Nat
    BY <1>1, ConnectionAssumption DEF Inv, TypeOK
  <2>2. CASE Posted("write")
    <3>1. PICK i \in DOMAIN tasks : tasks[i] = "write"
      BY <2>2 DEF Posted
    <3>2. W = {i}
      BY <1>1, <3>1 DEF Inv, Locked, Once
    <3>3. Cardinality(W) = 1
      BY <3>2, FS_Singleton
    <3>4. inflight = 0
      BY <1>1, <2>1, <2>2 DEF Inv, Locked
    <3>5. Writers = 1
      BY <3>3, <3>4 DEF Writers
    <3>6. QED
      BY <3>5 DEF OneWriter
  <2>3. CASE ~Posted("write")
    <3>1. W = {}
      BY <2>3 DEF Posted
    <3>2. Cardinality(W) = 0
      BY <3>1, FS_EmptySet
    <3>3. Writers = IF inflight > 0 THEN 1 ELSE 0
      BY <3>2 DEF Writers
    <3>4. queue > 0 /\ handle = "open" /\ ~hard =>
            inflight > 0 \/ \E t \in Threads : pc[t] \in {"stop", "kick"}
      BY <1>1, <2>3 DEF Inv, Locked, Fed, TypeOK
    <3>5. QED
      BY <3>3, <3>4 DEF OneWriter
  <2>4. QED
    BY <2>2, <2>3
<1>2. QED
  BY <1>1, Invariance, PTL

\* Back pressure and reading agree, as long as no resume overtook its stop.
THEOREM ReadsWhenAllowed == Spec => []ReadingWhenAllowed
<1>1. Inv => ReadingWhenAllowed
  BY DEF Inv, Paused, ReadingWhenAllowed
<1>2. QED
  BY <1>1, Invariance, PTL

\* With an empty queue and nothing in flight nothing is owed.
LEMMA EmptyOwesNothing ==
  ASSUME Inv', ~hard', inflight' = 0, queue' = 0
  PROVE  written' >= owed'
<1>1. pushed' = written' + 0 + 0
  BY DEF Inv, TypeOK
<1>2. /\ written' \in Nat /\ owed' \in Nat /\ due' \in Nat /\ pushed' \in Nat
      /\ owed' <= due' /\ due' <= pushed'
  BY DEF Inv, TypeOK, Counted
<1>3. \A w, o, d, p \in Nat : p = w + 0 + 0 /\ o <= d /\ d <= p => w >= o
  OBVIOUS
<1>4. QED
  BY <1>1, <1>2, <1>3, Zenon

\* Who closes the handle without having failed has drained what was owed.
LEMMA DrainStep ==
  ASSUME Inv, Inv', [Next]_vars, handle = "open", handle' = "closing", ~hard'
  PROVE  written' >= owed'
<1> USE DEF flags, write, read, hist
<1>1. due \in Nat /\ owed \in Nat /\ written \in Nat /\ owed <= due
  BY DEF Inv, TypeOK, Counted
<1>2. ASSUME NEW got \in 0 .. MaxBatch, ProcessWriteQueue(got), inflight' = got
      PROVE  written' >= owed'
  <2>1. got = 0 /\ queue' = 0
    BY <1>2 DEF ProcessWriteQueue, ProcessClosing, ProcessEmpty
  <2>2. inflight' = 0
    BY <1>2, <2>1
  <2>3. QED
    BY <2>1, <2>2, EmptyOwesNothing
<1>3. CASE Seal
  <2>1. ~hard /\ ~writing /\ written' = written /\ (owed' = owed \/ owed' = due)
    BY <1>3 DEF Seal
  <2>2. due <= written
    BY <2>1 DEF Inv, Fed
  <2>3. QED
    BY <1>1, <2>1, <2>2
<1>4. CASE RunTask
  <2>1. CASE Head(tasks) = "close" /\ hard' = hard
    BY <1>4, <2>1, Taking, Typing DEF RunTask, Inv, Announced
  <2>2. QED
    BY <1>2, <1>4, <2>1 DEF RunTask
<1>5. CASE OnWriteDone \/ \E t \in Threads : Kick(t) \/ MarkWake(t)
  BY <1>2, <1>5 DEF OnWriteDone, Kick, MarkWake, Wake
<1>6. CASE \/ CloseOnLoop \/ OnWriteFailed \/ OnCloseDone \/ SendCloseFrame \/ QueueCloseFrame
           \/ UNCHANGED vars
  BY <1>6 DEF CloseOnLoop, OnWriteFailed, OnCloseDone, SendCloseFrame, QueueCloseFrame, vars
<1>7. ASSUME NEW t \in Threads,
             \/ SendChecked(t) \/ StopRead(t) \/ Close(t) \/ CloseAfterWrite(t) \/ Mark(t)
             \/ \E n \in 1 .. 2 : Push(t, n)
      PROVE  FALSE
  BY <1>7 DEF SendChecked, StopRead, Close, CloseAfterWrite, Mark, Push
<1>8. QED
  BY <1>3, <1>4, <1>5, <1>6, <1>7 DEF Next, Caller

\* CloseAfterWrite and SendCloseAndDrain give up no message whose Send had
\* returned before them.
THEOREM Drained == Spec => DrainedBeforeClose
<1>1. Inv /\ Inv' /\ [Next]_vars
        => [handle = "open" /\ handle' = "closing" /\ ~hard' => written' >= owed']_vars
  BY DrainStep
<1>2. QED
  BY <1>1, Invariance, PTL DEF Spec, DrainedBeforeClose
-----------------------------------------------------------------------------
(* The connection implements ConnLife.                                     *)

\* What ConnLife sees of the flags stays as it is.
AskedBefore == (closed' \/ closing') = (closed \/ closing)

\* A round of ProcessWriteQueue is a write, with the close it may set off.
LEMMA ProcessLife ==
  ASSUME Inv, Inv', NEW got \in 0 .. MaxBatch, ProcessWriteQueue(got),
         written' = written + inflight, UNCHANGED <<pushed, told>>
  PROVE  Life!Write \/ UNCHANGED Life!vars
<1> USE DEF flags
<1>1. \/ AskedBefore /\ UNCHANGED handle
      \/ handle = "open" /\ closing' = TRUE /\ handle' = "closing"
  <2> USE DEF AskedBefore
  <2>1. CASE ProcessClosing \/ UNCHANGED <<flags, handle, hard>>
    BY <2>1 DEF ProcessClosing
  <2>2. CASE ProcessEmpty
    <3>1. CASE UNCHANGED <<closed, closing, handle, reading>>
      BY <3>1
    <3>2. CASE CloseInline(reading)
      BY <2>2, <3>2 DEF ProcessEmpty, CloseInline
    <3>3. CASE kind = "ws" /\ DoClose
      BY <2>2, <3>3 DEF ProcessEmpty, DoClose
    <3>4. QED
      BY <2>2, <3>1, <3>2, <3>3, ConnectionAssumption DEF ProcessEmpty, Inv, TypeOK
  <2>3. CASE handle = "open" /\ CloseInline(reading \/ Resumed)
    BY <2>3 DEF CloseInline
  <2>4. QED
    BY <2>1, <2>2, <2>3 DEF ProcessWriteQueue, TakeBatch
<1>2. /\ written \in Nat /\ written' \in Nat /\ pushed \in Nat /\ inflight \in Nat
      /\ written' <= pushed
  BY ConnectionAssumption DEF Inv, TypeOK, Counted
<1>3. written' \in written .. pushed
  BY <1>2
<1>4. CASE handle = "gone"
  <2>1. inflight = 0
    BY <1>2, <1>4 DEF Inv, Locked
  <2>2. QED
    BY <1>1, <1>2, <1>4, <2>1 DEF Life!vars, AskedBefore
<1>5. CASE handle # "gone"
  <2>1. CASE AskedBefore /\ UNCHANGED handle
    BY <1>3, <1>5, <2>1 DEF Life!Write, AskedBefore
  <2>2. CASE handle = "open" /\ closing' = TRUE /\ handle' = "closing"
    BY <1>3, <1>5, <2>2 DEF Life!Write
  <2>3. QED
    BY <1>1, <2>1, <2>2
<1>6. QED
  BY <1>4, <1>5

\* Every step of the connection is a step of ConnLife or changes nothing of it.
LEMMA LifeStep ==
  ASSUME Inv, Inv', [Next]_vars
  PROVE  [Life!Next]_(Life!vars)
<1> USE DEF flags, write, read, hist
<1>0. closing \in BOOLEAN /\ handle \in {"open", "closing", "gone"} /\ (handle # "open" => closing)
  BY DEF Inv, TypeOK, Announced
<1>1. ASSUME NEW t \in Threads, Kick(t) \/ MarkWake(t) PROVE [Life!Next]_(Life!vars)
  <2>1. UNCHANGED <<pushed, told, written>>
    BY <1>1 DEF Kick, MarkWake
  <2>2. CASE UNCHANGED <<closed, closing, handle>>
    BY <2>1, <2>2 DEF Life!vars
  <2>3. CASE ~writing /\ \E got \in 0 .. MaxBatch : ProcessWriteQueue(got) /\ inflight' = got
    <3>1. inflight = 0 /\ written \in Nat
      BY <2>3 DEF Inv, Locked, TypeOK, Counted
    <3>2. QED
      BY <2>1, <2>3, <3>1, ProcessLife DEF Life!Next
  <2>4. QED
    BY <1>1, <2>2, <2>3 DEF Kick, MarkWake, Wake
<1>2. CASE RunTask
  <2>1. UNCHANGED <<pushed, told, written>> /\ Posted(Head(tasks))
    BY <1>2, Taking, Typing DEF RunTask
  <2>2. CASE Head(tasks) = "write" /\ \E got \in 0 .. MaxBatch : ProcessWriteQueue(got)
    <3>1. inflight = 0 /\ written \in Nat
      BY <2>1, <2>2 DEF Inv, Locked, TypeOK, Counted
    <3>2. QED
      BY <2>1, <2>2, <3>1, ProcessLife DEF Life!Next
  <2>3. CASE Head(tasks) = "close" /\ DoClose
    <3>1. closing
      BY <2>1, <2>3 DEF Inv, Announced
    <3>2. closing' = closing /\ (closed' \/ closing') = (closed \/ closing)
      BY <1>0, <2>3, <3>1 DEF DoClose
    <3>3. CASE handle = "open"
      BY <2>1, <2>3, <3>1, <3>2, <3>3 DEF DoClose, Life!Next, Life!Begin
    <3>4. CASE handle # "open"
      BY <2>1, <2>3, <3>2, <3>4 DEF DoClose, Life!vars
    <3>5. QED
      BY <3>3, <3>4
  <2>4. CASE Head(tasks) = "stop" /\ UNCHANGED <<flags, handle>>
    BY <2>1, <2>4 DEF Life!vars
  <2>5. QED
    BY <1>2, <2>2, <2>3, <2>4 DEF RunTask
<1>3. CASE OnWriteDone
  BY <1>3, ProcessLife DEF OnWriteDone, Life!Next
<1>4. CASE CloseOnLoop \/ OnWriteFailed
  <2>1. UNCHANGED <<pushed, told, written>> /\ CloseInline(reading)
    BY <1>4 DEF CloseOnLoop, OnWriteFailed
  <2>2. CASE closed \/ closing
    BY <2>1, <2>2 DEF CloseInline, Life!vars
  <2>3. CASE ~(closed \/ closing)
    <3>1. closing' = TRUE /\ handle' = "closing" /\ handle = "open"
      BY <1>0, <2>1, <2>3 DEF CloseInline
    <3>2. QED
      BY <2>1, <2>3, <3>1 DEF Life!Next, Life!Ask
  <2>4. QED
    BY <2>2, <2>3
<1>5. CASE Seal
  <2>1. kind = "ws" /\ UNCHANGED <<pushed, told, written>>
    BY <1>5 DEF Inv, Announced, Seal
  <2>2. CASE UNCHANGED <<closing, handle>>
    <3>1. closed' = TRUE
      BY <1>5 DEF Seal
    <3>2. CASE closed \/ closing
      BY <2>1, <2>2, <3>1, <3>2 DEF Life!vars
    <3>3. CASE ~(closed \/ closing)
      BY <1>0, <2>1, <2>2, <3>1, <3>3 DEF Life!Next, Life!Ask
    <3>4. QED
      BY <3>2, <3>3
  <2>3. CASE DoClose
    <3>1. closing' = TRUE /\ (handle = "open" => handle' = "closing") /\ (handle # "open" => handle' = handle)
      BY <2>1, <2>3 DEF DoClose
    <3>2. CASE (closed \/ closing) /\ handle = "open"
      BY <2>1, <3>1, <3>2 DEF Life!Next, Life!Begin
    <3>3. CASE ~(closed \/ closing)
      BY <1>0, <2>1, <3>1, <3>3 DEF Life!Next, Life!Ask
    <3>4. CASE handle # "open"
      BY <1>0, <2>1, <3>1, <3>4 DEF Life!vars
    <3>5. QED
      BY <3>2, <3>3, <3>4
  <2>4. QED
    BY <1>5, <2>2, <2>3 DEF Seal
<1>6. CASE OnCloseDone
  BY <1>6 DEF OnCloseDone, Life!Next, Life!Finish
<1>7. ASSUME NEW t \in Threads, Close(t) \/ Mark(t) PROVE [Life!Next]_(Life!vars)
  <2>1. closed' = TRUE /\ UNCHANGED <<handle, pushed, told, written>>
    BY <1>7 DEF Close, Mark
  <2>2. CASE closed \/ closing
    BY <2>1, <2>2 DEF Life!vars
  <2>3. CASE ~(closed \/ closing)
    BY <1>0, <2>1, <2>3 DEF Life!Next, Life!Ask
  <2>4. QED
    BY <2>2, <2>3
<1>8. ASSUME NEW t \in Threads, NEW n \in 1 .. 2, Push(t, n) PROVE [Life!Next]_(Life!vars)
  <2>1. pushed' \in Nat /\ pushed' > pushed
    BY <1>8 DEF Push, Inv, Counted
  <2>2. QED
    BY <1>8, <2>1 DEF Push, Life!Next, Life!Accept
<1>9. ASSUME NEW t \in Threads, SendChecked(t) \/ StopRead(t) \/ CloseAfterWrite(t)
      PROVE  UNCHANGED Life!vars
  BY <1>9 DEF SendChecked, StopRead, CloseAfterWrite, Life!vars
<1>10. CASE SendCloseFrame \/ QueueCloseFrame \/ UNCHANGED vars
  BY <1>10 DEF SendCloseFrame, QueueCloseFrame, vars, Life!vars
<1>11. QED
  BY <1>1, <1>2, <1>3, <1>4, <1>5, <1>6, <1>7, <1>8, <1>9, <1>10 DEF Next, Caller

\* The safety half of ImplementsLife: what the class does, seen through the
\* mapping, is what IConnection promises. (Its fairness, and with it what lapses, is
\* left to TLC.)
THEOREM RefinesLife == Spec => Life!Safe
<1>1. Init => Life!Init
  BY DEF Init, Life!Init
<1>2. Inv /\ Inv' /\ [Next]_vars => [Life!Next]_(Life!vars)
  BY LifeStep
<1>3. QED
  BY <1>1, <1>2, Invariance, PTL DEF Spec, Life!Safe
=============================================================================
