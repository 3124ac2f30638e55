---------------------------- MODULE WorkerThread ----------------------------
(***************************************************************************)
(* ls::utils::WorkerThread: one thread with a task queue of its own.  The  *)
(* client pushes tasks, flushes, waits, assigns and destroys; the thread   *)
(* runs thread_loop, takes every task there is and pauses itself.          *)
(*                                                                         *)
(* A step is a critical section or one access of an atomic.  The thread    *)
(* waits on mExecCond with a predicate.  operator= writes mTasks without   *)
(* mPushLock; the copying one empties the queue before it fills it, and    *)
(* the thread may look in between.  The queue is the ring buffer of        *)
(* TaskRing: a thread that finds it without capacity ends, and a push may  *)
(* run over what is in it.                                                 *)
(*                                                                         *)
(* The client is one thread and keeps the documented protocol: flush only  *)
(* after ready().  Bounds: MaxTasks tasks, MaxClears calls of              *)
(* clear_pending, MaxAssigns assignments to or from this thread.           *)
(***************************************************************************)
EXTENDS TaskRing

CONSTANTS MaxTasks, MaxClears, MaxAssigns

ASSUME BoundsAreNats == {MaxTasks, MaxClears, MaxAssigns} \subseteq Nat

Tasks == 1..MaxTasks

VARIABLES mBusyWait, mIsPaused,
          pc, outOfTasks, task,     \* the thread: place, and its two locals
          client,                   \* where the client is
          call,                     \* the call it is in
          pushed, started,          \* history: tasks pushed, tasks taken, in order
          due,                      \* history: tasks flushed and not cleared
          clears, assigns           \* counters for the bounds

shared == <<mBusyWait, mIsPaused, ringVars>>
locals == <<pc, outOfTasks, task>>
history == <<pushed, started, due, clears, assigns>>
vars == <<shared, locals, client, call, history>>

Init ==
    /\ mBusyWait = FALSE /\ mIsPaused = TRUE
    /\ mTasks = <<>> /\ ring = Reserved(2) /\ lapped = {}
    /\ pc = "loop" /\ outOfTasks = FALSE /\ task = 0
    /\ client = "idle" /\ call = "none"
    /\ pushed = 0 /\ started = <<>> /\ due = {}
    /\ clears = 0 /\ assigns = 0

-----------------------------------------------------------------------------
(* The thread: thread_loop *)

LeaveClient == UNCHANGED <<client, call, history>>

\* amDone and outOfTasks are read together, under mPushLock.
ReadQueue ==
    /\ pc = "loop"
    /\ outOfTasks' = (mTasks = <<>>)
    /\ pc' = IF HasCapacity THEN "decide" ELSE "exited"
    /\ UNCHANGED <<shared, task>> /\ LeaveClient

ReadPaused ==
    /\ pc = "decide"
    /\ pc' = IF outOfTasks \/ mIsPaused THEN "nothingToDo" ELSE "take"
    /\ UNCHANGED <<shared, outOfTasks, task>> /\ LeaveClient

ReadBusyWait ==
    /\ pc = "nothingToDo"
    /\ pc' = IF mBusyWait THEN "loop" ELSE "park"
    /\ UNCHANGED <<shared, outOfTasks, task>> /\ LeaveClient

\* mExecCond.wait looks at mIsPaused before it waits and when it wakes, under
\* mExecMtx.  It falls through to execute_tasks.
Park ==
    /\ pc = "park"
    /\ pc' = IF mIsPaused THEN "parked" ELSE "take"
    /\ UNCHANGED <<shared, outOfTasks, task>> /\ LeaveClient

SpuriousWakeup ==
    /\ pc = "parked"
    /\ pc' = "park"
    /\ UNCHANGED <<shared, outOfTasks, task>> /\ LeaveClient

NotifyExec == pc' = IF pc = "parked" THEN "park" ELSE pc

-----------------------------------------------------------------------------
(* The thread: execute_tasks *)

\* Mutant: the task is read but not taken off the queue.
TakeTask_Peeks ==
    /\ pc = "take"
    /\ \/ mTasks = <<>> /\ pc' = "pause" /\ UNCHANGED <<task, started>>
       \/ /\ mTasks # <<>>
          /\ task' = Head(mTasks)
          /\ started' = Append(started, Head(mTasks))
          /\ pc' = "run"
    /\ UNCHANGED <<shared, outOfTasks, client, call, pushed, due, clears, assigns>>

TakeTask ==
    /\ pc = "take"
    /\ \/ mTasks = <<>> /\ pc' = "pause" /\ UNCHANGED <<ringVars, task, started>>
       \/ /\ mTasks # <<>>
          /\ Dequeue
          /\ task' = Head(mTasks)
          /\ started' = Append(started, Head(mTasks))
          /\ pc' = "run"
    /\ UNCHANGED <<mBusyWait, mIsPaused, outOfTasks, client, call,
                   pushed, due, clears, assigns>>

\* Mutant: the thread pauses after one task.
RunTask_Once ==
    /\ pc = "run"
    /\ pc' = "pause" /\ task' = 0
    /\ UNCHANGED <<shared, outOfTasks>> /\ LeaveClient

RunTask ==
    /\ pc = "run"
    /\ pc' = "take" /\ task' = 0
    /\ UNCHANGED <<shared, outOfTasks>> /\ LeaveClient

\* Mutant: the client is not notified.
PauseThread_NoNotify ==
    /\ pc = "pause"
    /\ pc' = "loop" /\ mIsPaused' = TRUE
    /\ UNCHANGED <<mBusyWait, ringVars, outOfTasks, task>> /\ LeaveClient

\* Under mWaitMtx, without another look at the queue.
PauseThread ==
    /\ pc = "pause"
    /\ pc' = "loop" /\ mIsPaused' = TRUE
    /\ client' = IF client = "sleeping" THEN "waiting" ELSE client
    /\ UNCHANGED <<mBusyWait, ringVars, outOfTasks, task, call, history>>

-----------------------------------------------------------------------------
(* Client: the queue *)

\* push and emplace, at any time the queue has storage.
Push ==
    /\ client = "idle" /\ HasCapacity
    /\ pushed < MaxTasks
    /\ pushed' = pushed + 1
    /\ Enqueue(pushed + 1)
    /\ UNCHANGED <<mBusyWait, mIsPaused, locals, client, call,
                   started, due, clears, assigns>>

\* flush reads the queue under mPushLock ...
Flush ==
    /\ client = "idle" /\ mIsPaused
    /\ mTasks # <<>>
    /\ client' = "flushing"
    /\ UNCHANGED <<shared, locals, call, history>>

\* ... and wakes the thread under mExecMtx.
FlushWake ==
    /\ client = "flushing"
    /\ mIsPaused' = FALSE
    /\ NotifyExec
    /\ client' = "idle"
    /\ due' = due \cup ToSet(mTasks)
    /\ UNCHANGED <<mBusyWait, ringVars, outOfTasks, task, call,
                   pushed, started, clears, assigns>>

ClearPending ==
    /\ client = "idle" /\ clears < MaxClears
    /\ clears' = clears + 1
    /\ ClearQueue
    /\ due' = due \ ToSet(mTasks)
    /\ UNCHANGED <<mBusyWait, mIsPaused, locals, client, call, pushed, started, assigns>>

ToggleBusyWait ==
    /\ client = "idle"
    /\ mBusyWait' = ~mBusyWait
    /\ UNCHANGED <<mIsPaused, ringVars, locals, client, call, history>>

-----------------------------------------------------------------------------
(* Client: wait, operator= and the destructor *)

CallWait ==
    /\ client = "idle"
    /\ client' = "waiting" /\ call' = "wait"
    /\ UNCHANGED <<shared, locals, history>>

\* operator= waits for both threads: this one is the target of a copy or a
\* move, or the thread that is moved from.
CallAssign(kind) ==
    /\ client = "idle" /\ assigns < MaxAssigns
    /\ assigns' = assigns + 1
    /\ client' = "waiting" /\ call' = kind
    /\ UNCHANGED <<shared, locals, pushed, started, due, clears>>

Wait ==
    /\ client = "waiting"
    /\ \/ mIsPaused /\ call = "wait" /\ client' = "idle" /\ call' = "none"
       \/ mIsPaused /\ call # "wait" /\ client' = "assigning" /\ UNCHANGED call
       \/ ~mIsPaused /\ ~mBusyWait /\ client' = "sleeping" /\ UNCHANGED call
    /\ UNCHANGED <<shared, locals, history>>

Returned == client' = "idle" /\ call' = "none"

\* A copy first clears the target's queue, and stays so if the other is empty.
CopyClears ==
    /\ client = "assigning" /\ call = "copy"
    /\ mBusyWait' \in BOOLEAN /\ mIsPaused' = TRUE
    /\ ClearQueue
    /\ due' = due \ ToSet(mTasks)
    /\ \/ client' = "copying" /\ pushed < MaxTasks /\ UNCHANGED call
       \/ Returned
    /\ UNCHANGED <<locals, pushed, started, clears, assigns>>

CopyFills ==
    /\ client = "copying"
    /\ pushed' = pushed + 1
    /\ mTasks' = <<pushed'>> /\ ring' \in OtherRings
    /\ Returned
    /\ UNCHANGED <<lapped, mBusyWait, mIsPaused, locals, started, due, clears, assigns>>

\* A move takes the other queue as it is, empty or not, without storage or with.
MoveInto ==
    /\ client = "assigning" /\ call = "move"
    /\ mBusyWait' \in BOOLEAN /\ mIsPaused' = TRUE
    /\ \/ mTasks' = <<>> /\ ring' \in OtherRings \cup {NoStorage} /\ UNCHANGED pushed
       \/ /\ pushed < MaxTasks
          /\ pushed' = pushed + 1
          /\ mTasks' = <<pushed'>> /\ ring' \in OtherRings
    /\ due' = due \ ToSet(mTasks)
    /\ Returned
    /\ UNCHANGED <<lapped, locals, started, clears, assigns>>

MovedFrom ==
    /\ client = "assigning" /\ call = "movedFrom"
    /\ mBusyWait' = FALSE
    /\ ClearQueue
    /\ due' = due \ ToSet(mTasks)
    /\ Returned
    /\ UNCHANGED <<mIsPaused, locals, pushed, started, clears, assigns>>

CallDestructor ==
    /\ client = "idle"
    /\ client' = "stopping"
    /\ UNCHANGED <<shared, locals, call, history>>

\* The destructor spins until ready(), empties the queue ...
DestroyClears ==
    /\ client = "stopping" /\ mIsPaused
    /\ ClearQueue
    /\ client' = "waking"
    /\ UNCHANGED <<mBusyWait, mIsPaused, locals, call, history>>

\* ... and wakes the thread.
DestroyWakes ==
    /\ client = "waking"
    /\ mIsPaused' = FALSE
    /\ NotifyExec
    /\ client' = "joining"
    /\ UNCHANGED <<mBusyWait, ringVars, outOfTasks, task, call, history>>

Join ==
    /\ client = "joining" /\ pc = "exited"
    /\ client' = "destroyed"
    /\ UNCHANGED <<shared, locals, call, history>>

-----------------------------------------------------------------------------
Thread ==
    \/ ReadQueue \/ ReadPaused \/ ReadBusyWait \/ Park
    \/ TakeTask \/ RunTask \/ PauseThread

InCall ==
    \/ FlushWake \/ Wait \/ CopyClears \/ CopyFills \/ MoveInto \/ MovedFrom
    \/ DestroyClears \/ DestroyWakes \/ Join

Client ==
    \/ Push \/ Flush \/ ClearPending \/ ToggleBusyWait \/ CallWait \/ CallDestructor
    \/ \E kind \in {"copy", "move", "movedFrom"} : CallAssign(kind)

Next == Thread \/ SpuriousWakeup \/ InCall \/ Client

Spec == Init /\ [][Next]_vars

\* The thread runs, and so does the client inside a call.
FairSpec == Spec /\ WF_vars(Thread) /\ WF_vars(InCall)

-----------------------------------------------------------------------------
(* Types, and what the fields say together: the indices of the ring stay   *)
(* in its storage, and the thread holds a task exactly while it runs it.   *)
TypeOK ==
    /\ {mBusyWait, mIsPaused, outOfTasks} \subseteq BOOLEAN
    /\ mTasks \in Seq(Tasks)
    /\ RingOK
    /\ pc \in {"loop", "decide", "nothingToDo", "park", "parked",
               "take", "run", "pause", "exited"}
    /\ task \in Tasks \cup {0}
    /\ task # 0 <=> pc = "run"

(* Tasks start once and in the order they were pushed, also those pushed   *)
(* while the thread empties the queue.                                     *)
TasksStartOnceInOrder == TasksInOrder(started \o mTasks)

(* ready() and wait() promise that the thread has finished: when it is     *)
(* paused it runs nothing, and all that was flushed has been started, but  *)
(* for what the ring buffer ran over.                                      *)
ReadyMeansDone == mIsPaused => pc # "run" /\ due \subseteq ToSet(started) \cup lapped

(* flush and the destructor cannot miss the thread: one that waits for     *)
(* mIsPaused to be cleared does so while it is set.                        *)
NoLostWakeup == pc = "parked" => mIsPaused

(* Unless clear_pending or operator= took the queue's storage, which ends  *)
(* the thread: flushed tasks are run or run over, and wait() and the       *)
(* destructor return, unless tasks were run over: a queue that looks empty *)
(* keeps a busy-waiting thread from pausing.                               *)
FlushServed ==
    [](clears = 0 /\ assigns = 0) =>
        /\ \A k \in Tasks : k \in due ~> k \in ToSet(started) \cup lapped
        /\ [](lapped = {}) =>
             (client \in {"waiting", "sleeping", "stopping", "waking", "joining"}
                ~> client \in {"idle", "destroyed"})
=============================================================================
