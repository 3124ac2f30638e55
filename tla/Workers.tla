------------------------------ MODULE Workers -------------------------------
(***************************************************************************)
(* An object of one of the two worker classes, WorkerThread or WorkerPool, *)
(* and its client. Both classes have a queue of tasks, the flags mIsPaused *)
(* and mBusyWait and the same calls, so the variables that bear one name   *)
(* in both modules are one here: they are those of the object there is,    *)
(* which "worker" names. What only the other class has stays as it is.     *)
(***************************************************************************)
EXTENDS WorkerThread

CONSTANTS Classes, MaxWorkers, InitialWorkers, BusyWaitModes, MaxResizes

ASSUME ClassesExist == Classes \subseteq {"WorkerThread", "WorkerPool"}
ASSUME PoolBoundsAreNats == {MaxWorkers, InitialWorkers, MaxResizes} \subseteq Nat
ASSUME InitialFit == InitialWorkers <= MaxWorkers
ASSUME ModesAreBooleans == BusyWaitModes \subseteq BOOLEAN /\ BusyWaitModes # {}

VARIABLES worker,
          mThreadsRunning, mThreads, dropped, resizes   \* of a WorkerPool alone

Pool == INSTANCE WorkerPool

poolOnly == <<mThreadsRunning, mThreads, dropped, resizes>>
allVars == <<worker, vars, poolOnly>>

InitAll ==
    /\ worker \in Classes
    /\ worker = "WorkerThread" => /\ Init
                                  /\ mThreadsRunning = 0 /\ mThreads = 1
                                  /\ dropped = {} /\ resizes = 0
    /\ worker = "WorkerPool" => Pool!Init /\ assigns = 0

OfThread(A) == worker = "WorkerThread" /\ A /\ UNCHANGED <<worker, poolOnly>>
OfPool(A) == worker = "WorkerPool" /\ A /\ UNCHANGED <<worker, assigns>>

NextAll == OfThread(Next) \/ OfPool(Pool!Next)

SpecAll == InitAll /\ [][NextAll]_allVars

\* Threads that can run do: those of the object, and the client inside a call.
\* The client need not call anything; spurious wake-ups need not come.
FairSpecAll ==
    /\ SpecAll
    /\ WF_allVars(OfThread(Thread)) /\ WF_allVars(OfThread(InCall))
    /\ WF_allVars(OfPool(Pool!InCall))
    /\ \A w \in Pool!Workers : WF_allVars(OfPool(Pool!Worker(w)))

-----------------------------------------------------------------------------
(* A WorkerThread that is ready has finished, see WorkerThread.            *)
ThreadReadyMeansDone == worker = "WorkerThread" => ReadyMeansDone

(* No flushed task of a WorkerPool is thrown away, see WorkerPool.         *)
FlushedTasksAreNotDropped == worker = "WorkerPool" => Pool!FlushedTasksAreNotDropped
(* A WorkerThread serves what was flushed, see WorkerThread.               *)
FlushIsServed == worker = "WorkerThread" => FlushServed
(* One busy-waiting worker serves everything, see WorkerPool.              *)
BusyWorkerServes == worker = "WorkerPool" => Pool!BusyWorkerServes
(* A paused WorkerPool runs no task, see WorkerPool.                       *)
PausedMeansIdle == worker = "WorkerPool" => Pool!PausedMeansIdle
(* A flush reaches the workers that wait, see WorkerPool.                  *)
FlushReachesWorkers == Pool!FlushReachesWorkers
(* A paused WorkerPool has started all that was flushed, see WorkerPool.   *)
PausedMeansStarted == Pool!PausedMeansStarted
=============================================================================
