--------------------------- MODULE Synchronisation --------------------------
(***************************************************************************)
(* What threads of a program wait for each other with: RWLock, the         *)
(* exclusive locks of Futexes and the barriers of Barrier. They share no   *)
(* state. A behaviour is one of a single object of those to be looked at,  *)
(* which "used" names; the others stay as they were constructed.           *)
(***************************************************************************)
EXTENDS RWLock

CONSTANTS Objects, MaxPauses, MaxCalls

ASSUME ObjectsExist == Objects \subseteq {"RWLock", "lock", "barrier"}
ASSUME MaxPausesPositive == MaxPauses \in Nat \ {0}

VARIABLES used,
          kind, mLock, lockPc, lockCall, currentPauses,         \* Futexes
          barrierKind, mThreadCount, mBarrierCount, mBarrier,
          barrierPc, calls                                      \* Barrier

Locks == INSTANCE Futexes WITH pc <- lockPc, call <- lockCall
Barriers == INSTANCE Barrier WITH kind <- barrierKind, pc <- barrierPc

lockVars == <<kind, mLock, lockPc, lockCall, currentPauses>>
barrierVars == <<barrierKind, mThreadCount, mBarrierCount, mBarrier, barrierPc, calls>>
allVars == <<used, vars, lockVars, barrierVars>>

InitAll ==
    /\ used \in Objects
    /\ Init /\ Locks!Init /\ Barriers!Init
    /\ used # "lock" => kind = "SpinLock"
    /\ used # "barrier" => barrierKind = "Barrier" /\ mThreadCount = 1

\* All objects but o stay as they are.
Others(o) ==
    /\ UNCHANGED used
    /\ o # "RWLock" => UNCHANGED vars
    /\ o # "lock" => UNCHANGED lockVars
    /\ o # "barrier" => UNCHANGED barrierVars

NextAll ==
    \/ used = "RWLock" /\ Next /\ Others("RWLock")
    \/ used = "lock" /\ Locks!Next /\ Others("lock")
    \/ used = "barrier" /\ Barriers!Next /\ Others("barrier")

\* Threads inside a call are scheduled, and holders of the exclusive locks
\* unlock: see FairSpec of RWLock and of Futexes, and Running of Barrier.
RWLockStep(t) == used = "RWLock" /\ Acquiring(t) /\ Others("RWLock")
LockStep(t) == used = "lock" /\ Locks!Running(t) /\ Others("lock")
UnlockStep(t) == used = "lock" /\ Locks!unlock(t) /\ Others("lock")
BarrierStep(t) == used = "barrier" /\ Barriers!Running(t) /\ Others("barrier")

SpecAll == InitAll /\ [][NextAll]_allVars

FairSpecAll ==
    /\ SpecAll
    /\ \A t \in Threads : /\ WF_allVars(RWLockStep(t))
                          /\ WF_allVars(LockStep(t)) /\ WF_allVars(UnlockStep(t))
                          /\ WF_allVars(BarrierStep(t))

-----------------------------------------------------------------------------
(* The exclusive locks have one holder at a time, see Futexes.             *)
OneHolder == Locks!MutualExclusion
(* SystemFutexLinux: nobody sleeps on a free lock for good, see Futexes.   *)
NoLostWakeup == Locks!NoLostWakeup
(* The exclusive locks serve every caller once new calls cease, see there. *)
EveryLockServed == Locks!EveryLockServed

(* The barriers: nobody leaves before enough threads have come, see        *)
(* Barrier.                                                                *)
NobodyLeavesEarly == Barriers!NobodyLeavesEarly
(* The barriers: once enough have come everybody leaves, see Barrier.      *)
EverybodyLeaves == Barriers!EverybodyLeaves
=============================================================================
