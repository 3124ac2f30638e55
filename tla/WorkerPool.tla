----------------------------- MODULE WorkerPool -----------------------------
(***************************************************************************)
(* ls::utils::WorkerPool: worker threads that share one task queue.  The   *)
(* client pushes tasks, flushes, waits, resizes and destroys the pool; a   *)
(* worker runs thread_loop, and execute_tasks while the pool is not        *)
(* paused.  The last worker to leave execute_tasks pauses the pool.        *)
(*                                                                         *)
(* A step is a critical section (nothing in one blocks, and mutexes order  *)
(* them) or one access of an atomic.  A worker waits on mExecCond with no  *)
(* predicate, so a notification sent before it waits is not seen; the      *)
(* library may also wake it for no reason.  The queue is the ring buffer   *)
(* of TaskRing: no capacity is how the workers learn that they are done,   *)
(* and a push may run over what is in it.                                  *)
(*                                                                         *)
(* The client is one thread and keeps the documented protocol: flush only  *)
(* after ready().  The pool it copies or moves from is at rest, as the     *)
(* operator's w.wait() sees to.  Bounds: MaxTasks tasks, MaxClears calls   *)
(* of clear_pending, MaxResizes calls of concurrency(n) and operator=.     *)
(***************************************************************************)
EXTENDS TaskRing, FiniteSets

CONSTANTS MaxWorkers, InitialWorkers, BusyWaitModes, MaxTasks, MaxClears, MaxResizes

Workers == 1..MaxWorkers
Tasks   == 1..MaxTasks

VARIABLES mBusyWait, mIsPaused, mThreadsRunning,
          mThreads,                 \* how many threads the vector holds
          pc, outOfTasks, task,     \* per worker: place, and its two locals
          client,                   \* where the client is
          call,                     \* the call it is in, and what that is to leave
          pushed, started,          \* history: tasks pushed, tasks taken, in order
          due, dropped,             \* history: see FlushedTasksAreNotDropped
          clears, resizes           \* counters for the bounds

shared == <<mBusyWait, mIsPaused, mThreadsRunning, ringVars, mThreads>>
locals == <<pc, outOfTasks, task>>
history == <<pushed, started, due, dropped, clears, resizes>>
vars == <<shared, locals, client, call, history>>

\* stored: what the queue holds when the call is done.
Call(op, n, stored) == [op |-> op, threads |-> n, stored |-> stored]
NoCall == Call("none", 0, "none")

Spawned(n) == [w \in Workers |-> IF w <= n THEN "loop" ELSE "none"]

Init ==
    /\ mBusyWait \in BusyWaitModes
    /\ mIsPaused = TRUE
    /\ mThreadsRunning = 0
    /\ mTasks = <<>> /\ ring = Reserved(2) /\ lapped = {}
    /\ mThreads \in 1..InitialWorkers
    /\ pc = Spawned(mThreads)
    /\ outOfTasks = [w \in Workers |-> FALSE]
    /\ task = [w \in Workers |-> 0]
    /\ client = "idle" /\ call = NoCall
    /\ pushed = 0 /\ started = <<>> /\ due = {} /\ dropped = {}
    /\ clears = 0 /\ resizes = 0

-----------------------------------------------------------------------------
(* Worker: thread_loop *)

Goto(w, place) == pc' = [pc EXCEPT ![w] = place]

At(w, place) == pc[w] = place

LeaveClient == UNCHANGED <<client, call, history>>

\* amDone and outOfTasks are read together, under mPushLock.
ReadQueue(w) ==
    /\ At(w, "loop")
    /\ \/ ~HasCapacity /\ Goto(w, "exited") /\ UNCHANGED outOfTasks
       \/ /\ HasCapacity
          /\ outOfTasks' = [outOfTasks EXCEPT ![w] = mTasks = <<>>]
          /\ Goto(w, "decide")
    /\ UNCHANGED <<shared, task>> /\ LeaveClient

ReadPaused(w) ==
    /\ At(w, "decide")
    /\ \/ (outOfTasks[w] \/ mIsPaused) /\ Goto(w, "nothingToDo")
       \/ ~outOfTasks[w] /\ ~mIsPaused /\ Goto(w, "enter")
    /\ UNCHANGED <<shared, outOfTasks, task>> /\ LeaveClient

ReadBusyWait(w) ==
    /\ At(w, "nothingToDo")
    /\ \/ mBusyWait /\ Goto(w, "loop")
       \/ ~mBusyWait /\ Goto(w, "park")
    /\ UNCHANGED <<shared, outOfTasks, task>> /\ LeaveClient

\* mExecCond.wait without a predicate
Park(w) ==
    /\ At(w, "park")
    /\ Goto(w, "parked")
    /\ UNCHANGED <<shared, outOfTasks, task>> /\ LeaveClient

SpuriousWakeup(w) ==
    /\ At(w, "parked")
    /\ Goto(w, "loop")
    /\ UNCHANGED <<shared, outOfTasks, task>> /\ LeaveClient

NotifyExec == pc' = [w \in Workers |-> IF At(w, "parked") THEN "loop" ELSE pc[w]]

-----------------------------------------------------------------------------
(* Worker: execute_tasks *)

EnterExecute(w) ==
    /\ At(w, "enter")
    /\ mThreadsRunning' = mThreadsRunning + 1
    /\ Goto(w, "take")
    /\ UNCHANGED <<mBusyWait, mIsPaused, ringVars, mThreads, outOfTasks, task>>
    /\ LeaveClient

\* Mutant: the task is read but not taken off the queue.
TakeTask_Peeks(w) ==
    /\ At(w, "take")
    /\ \/ mTasks = <<>> /\ Goto(w, "leave") /\ UNCHANGED <<task, started>>
       \/ /\ mTasks # <<>>
          /\ task' = [task EXCEPT ![w] = Head(mTasks)]
          /\ started' = Append(started, Head(mTasks))
          /\ Goto(w, "run")
    /\ UNCHANGED <<shared, outOfTasks, client, call, pushed, due, dropped, clears, resizes>>

TakeTask(w) ==
    /\ At(w, "take")
    /\ \/ mTasks = <<>> /\ Goto(w, "leave") /\ UNCHANGED <<ringVars, task, started>>
       \/ /\ mTasks # <<>>
          /\ Dequeue
          /\ task' = [task EXCEPT ![w] = Head(mTasks)]
          /\ started' = Append(started, Head(mTasks))
          /\ Goto(w, "run")
    /\ UNCHANGED <<mBusyWait, mIsPaused, mThreadsRunning, mThreads,
                   outOfTasks, client, call, pushed, due, dropped, clears, resizes>>

RunTask(w) ==
    /\ At(w, "run")
    /\ task' = [task EXCEPT ![w] = 0]
    /\ Goto(w, "take")
    /\ UNCHANGED <<shared, outOfTasks>> /\ LeaveClient

LeaveExecute(w) ==
    /\ At(w, "leave")
    /\ mThreadsRunning' = mThreadsRunning - 1
    /\ Goto(w, IF mThreadsRunning = 1 THEN "pause" ELSE "loop")
    /\ UNCHANGED <<mBusyWait, mIsPaused, ringVars, mThreads, outOfTasks, task>>
    /\ LeaveClient

NotifyWait == client' = IF client = "sleeping" THEN "waiting" ELSE client

\* Mutant: the pool is paused without looking at the queue again.
PausePool_NoRecheck(w) ==
    /\ At(w, "pause")
    /\ mIsPaused' = TRUE /\ NotifyWait
    /\ Goto(w, "loop")
    /\ UNCHANGED <<mBusyWait, mThreadsRunning, ringVars, mThreads,
                   outOfTasks, task, call, history>>

\* Mutant: the client is notified, but the pool stays as it is.
PausePool_StaysRunning(w) ==
    /\ At(w, "pause")
    /\ \/ mTasks = <<>> /\ NotifyWait
       \/ mTasks # <<>> /\ UNCHANGED client
    /\ Goto(w, "loop")
    /\ UNCHANGED <<shared, outOfTasks, task, call, history>>

\* The last worker out, under mWaitMtx and mPushLock.
PausePool(w) ==
    /\ At(w, "pause")
    /\ \/ mTasks = <<>> /\ mIsPaused' = TRUE /\ NotifyWait
       \/ mTasks # <<>> /\ UNCHANGED <<mIsPaused, client>>
    /\ Goto(w, "loop")
    /\ UNCHANGED <<mBusyWait, mThreadsRunning, ringVars, mThreads,
                   outOfTasks, task, call, history>>

-----------------------------------------------------------------------------
(* Client *)

\* push and emplace, at any time the queue has storage.
Push ==
    /\ client = "idle" /\ HasCapacity
    /\ pushed < MaxTasks
    /\ pushed' = pushed + 1
    /\ Enqueue(pushed + 1)
    /\ due' = IF mIsPaused THEN due ELSE due \cup ToSet(mTasks')
    /\ UNCHANGED <<mBusyWait, mIsPaused, mThreadsRunning, mThreads, locals,
                   client, call, started, dropped, clears, resizes>>

\* flush reads the queue under mPushLock ...
Flush ==
    /\ client = "idle" /\ mIsPaused
    /\ mTasks # <<>>
    /\ client' = "flushing"
    /\ UNCHANGED <<shared, locals, call, history>>

\* ... and wakes the workers under mExecMtx.
FlushWake ==
    /\ client = "flushing"
    /\ mIsPaused' = FALSE
    /\ NotifyExec
    /\ client' = "idle"
    /\ due' = due \cup ToSet(mTasks)
    /\ UNCHANGED <<mBusyWait, mThreadsRunning, ringVars, mThreads,
                   outOfTasks, task, call, pushed, started, dropped, clears, resizes>>

ClearPending ==
    /\ client = "idle" /\ clears < MaxClears
    /\ clears' = clears + 1
    /\ ClearQueue
    /\ due' = due \ ToSet(mTasks)
    /\ UNCHANGED <<mBusyWait, mIsPaused, mThreadsRunning, mThreads, locals, client,
                   call, pushed, started, dropped, resizes>>

ToggleBusyWait ==
    /\ client = "idle"
    /\ mBusyWait' \in BusyWaitModes \ {mBusyWait}
    /\ UNCHANGED <<mIsPaused, mThreadsRunning, ringVars, mThreads, locals,
                   client, call, history>>

\* wait(), on its own or as the first thing concurrency(n) and operator= do.
CallWait ==
    /\ client = "idle"
    /\ client' = "waiting" /\ call' = Call("wait", mThreads, "none")
    /\ UNCHANGED <<shared, locals, history>>

\* concurrency(n) reserves storage unless n is 0, or there is no memory.
CallConcurrency(n) ==
    /\ client = "idle" /\ resizes < MaxResizes
    /\ n # mThreads
    /\ resizes' = resizes + 1
    /\ client' = "waiting"
    /\ \/ call' = Call("resize", n, "none")
       \/ n # 0 /\ call' = Call("resize", n, "reserved")
    /\ UNCHANGED <<shared, locals, pushed, started, due, dropped, clears>>

\* operator=: what the pool gets of the other one's queue.  A copy of an empty
\* queue has no storage; a moved one keeps what it had.
CallAssign(n, stored) ==
    /\ client = "idle" /\ resizes < MaxResizes
    /\ stored = "task" => pushed < MaxTasks
    /\ resizes' = resizes + 1
    /\ client' = "waiting" /\ call' = Call("assign", n, stored)
    /\ UNCHANGED <<shared, locals, pushed, started, due, dropped, clears>>

\* The destructor is stop_threads alone.
CallDestructor ==
    /\ client = "idle"
    /\ client' = "stopping" /\ call' = Call("destroy", 0, "none")
    /\ UNCHANGED <<shared, locals, history>>

Wait ==
    /\ client = "waiting"
    /\ \/ mIsPaused /\ call.op = "wait" /\ client' = "idle" /\ call' = NoCall
       \/ mIsPaused /\ call.op # "wait" /\ client' = "stopping" /\ UNCHANGED call
       \/ ~mIsPaused /\ ~mBusyWait /\ client' = "sleeping" /\ UNCHANGED call
    /\ UNCHANGED <<shared, locals, history>>

\* Mutant: the destructor does not wait for the workers to pause.
StopClear_Unready ==
    /\ client = "stopping"
    /\ ClearQueue
    /\ dropped' = dropped \cup ToSet(mTasks)
    /\ mIsPaused' = FALSE
    /\ NotifyExec
    /\ client' = "joining"
    /\ UNCHANGED <<mBusyWait, mThreadsRunning, mThreads, outOfTasks, task, call,
                   pushed, started, due, clears, resizes>>

\* stop_threads spins until ready(), then empties the queue and wakes everyone.
StopClear ==
    /\ client = "stopping" /\ mIsPaused
    /\ ClearQueue
    /\ dropped' = dropped \cup ToSet(mTasks)
    /\ mIsPaused' = FALSE
    /\ NotifyExec
    /\ client' = "joining"
    /\ UNCHANGED <<mBusyWait, mThreadsRunning, mThreads, outOfTasks, task, call,
                   pushed, started, due, clears, resizes>>

RingsOf(stored) ==
    CASE stored = "none" -> {NoStorage}
      [] stored = "reserved" -> {Reserved(2)}
      [] stored \in {"empty", "task"} -> OtherRings

Exited(w) == pc[w] \in {"none", "exited"}

Join ==
    /\ client = "joining"
    /\ \A w \in Workers : Exited(w)
    /\ mIsPaused' = TRUE
    /\ mThreadsRunning' = 0
    /\ ring' \in RingsOf(call.stored)
    /\ \/ call.stored = "task" /\ pushed' = pushed + 1 /\ mTasks' = <<pushed'>>
       \/ call.stored # "task" /\ UNCHANGED <<pushed, mTasks>>
    /\ mBusyWait' \in IF call.op = "assign" THEN BusyWaitModes ELSE {mBusyWait}
    /\ mThreads' = call.threads
    /\ pc' = Spawned(call.threads)
    /\ client' = IF call.op = "destroy" THEN "destroyed" ELSE "idle"
    /\ call' = NoCall
    /\ UNCHANGED <<lapped, outOfTasks, task, started, due, dropped, clears, resizes>>

-----------------------------------------------------------------------------
Worker(w) ==
    \/ ReadQueue(w) \/ ReadPaused(w) \/ ReadBusyWait(w) \/ Park(w)
    \/ EnterExecute(w) \/ TakeTask(w) \/ RunTask(w) \/ LeaveExecute(w) \/ PausePool(w)

InCall == FlushWake \/ Wait \/ StopClear \/ Join

Client ==
    \/ Push \/ Flush \/ ClearPending \/ ToggleBusyWait
    \/ CallWait \/ CallDestructor
    \/ \E n \in 0..MaxWorkers :
         CallConcurrency(n) \/ \E stored \in {"none", "empty", "task"} : CallAssign(n, stored)

Next ==
    \/ \E w \in Workers : Worker(w) \/ SpuriousWakeup(w)
    \/ InCall
    \/ Client

Spec == Init /\ [][Next]_vars

\* Threads that can run do: each worker, and the client inside a call.  The
\* client need not call anything; spurious wake-ups need not come.
FairSpec ==
    Spec /\ WF_vars(InCall) /\ \A w \in Workers : WF_vars(Worker(w))

-----------------------------------------------------------------------------
Executing == {w \in Workers : pc[w] \in {"take", "run", "leave"}}

(* Types, and mThreadsRunning counts the workers inside execute_tasks: the *)
(* choice of the one that pauses the pool hangs on it.                     *)
TypeOK ==
    /\ {mBusyWait, mIsPaused} \subseteq BOOLEAN
    /\ mThreadsRunning = Cardinality(Executing)
    /\ mTasks \in Seq(Tasks)
    /\ RingOK
    /\ mThreads \in 0..MaxWorkers
    /\ \A w \in Workers : w > mThreads <=> pc[w] = "none"
    /\ task \in [Workers -> Tasks \cup {0}]
    /\ \A w \in Workers : task[w] # 0 <=> pc[w] = "run"

(* No task runs twice or before one pushed earlier, however many workers   *)
(* take from the queue: tasks start in the order they were pushed.         *)
TasksStartOnceInOrder == TasksInOrder(started \o mTasks)

(* A task that was in the queue while the pool was running is run: neither *)
(* concurrency(n) nor the destructor throws it away.  It is in the queue,  *)
(* started, removed by clear_pending, or run over by a later push; and it  *)
(* is not in the queue of a paused pool.  (Tasks pushed and never flushed  *)
(* are thrown away.)                                                       *)
FlushedTasksAreNotDropped ==
    /\ due \cap dropped = {}
    /\ due \subseteq ToSet(mTasks) \cup ToSet(started) \cup lapped
    /\ mIsPaused => due \subseteq ToSet(started) \cup lapped

(* With one worker that busy-waits, what is flushed gets run or run over;  *)
(* and wait(), concurrency(n), operator= and the destructor return, unless *)
(* tasks were run over: a queue that looks empty keeps the pool running.   *)
OneBusyWorker == mBusyWait /\ (mThreads = 1 \/ client = "destroyed") /\ clears = 0

BusyWorkerServes ==
    []OneBusyWorker =>
        /\ [](lapped = {}) =>
             (client \in {"waiting", "sleeping", "stopping", "joining"}
                ~> client \in {"idle", "destroyed"})
        /\ \A k \in Tasks : k \in due ~> k \in ToSet(started) \cup lapped

(* ready() and wait() promise that the tasks are finished: no worker runs  *)
(* one while the pool is paused.                                           *)
PausedMeansIdle == mIsPaused => \A w \in Workers : pc[w] # "run"

(* A worker that waits on its condition variable is reached by the next    *)
(* flush: what is flushed gets run.                                        *)
FlushReachesWorkers == \A k \in Tasks : k \in due ~> k \in ToSet(started)

(* ready() promises that all tasks are finished: when the pool is paused,  *)
(* all that was flushed, and not cleared, has been started.                *)
PausedMeansStarted == mIsPaused => due \subseteq ToSet(started)
=============================================================================
