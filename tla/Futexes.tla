------------------------------ MODULE Futexes ------------------------------
(***************************************************************************)
(* The exclusive locks: SpinLock and those of Futex.hpp.  SpinLock tries a *)
(* compare-and-swap and yields.  The others do so a few times, yielding    *)
(* ever longer in between, and differ in what lock does once the pauses    *)
(* exceed mMaxPauseCount:                                                  *)
(*   Futex               keeps trying for ever,                            *)
(*   SystemFutexLinux    sleeps in FUTEX_WAIT until a wake, then restarts, *)
(*   SystemFutexPThread  blocks in pthread_mutex_lock.                     *)
(*                                                                         *)
(* A step is one atomic access or one system call.  The futex system call  *)
(* is external: FUTEX_WAIT compares the word and falls asleep in one step, *)
(* FUTEX_WAKE lets one sleeper of the kernel's choice go on, and a sleeper *)
(* may also return for no reason of the lock's (a signal).                 *)
(***************************************************************************)
EXTENDS Integers

CONSTANTS Threads,
          MaxPauses   \* mMaxPauseCount: a power of two

Kinds == {"SpinLock", "Futex", "SystemFutexLinux", "SystemFutexPThread"}

VARIABLES kind,            \* which of the classes the lock is
          mLock,
          pc,
          call,            \* "lock", "try_lock" or "none"
          currentPauses    \* local variable of lock

vars == <<kind, mLock, pc, call, currentPauses>>

Init ==
    /\ kind \in Kinds
    /\ mLock = 0
    /\ pc = [t \in Threads |-> "idle"]
    /\ call = [t \in Threads |-> "none"]
    /\ currentPauses = [t \in Threads |-> 1]

-----------------------------------------------------------------------------
Goto(t, place) == pc' = [pc EXCEPT ![t] = place] /\ UNCHANGED call

Return(t) ==
    /\ pc' = [pc EXCEPT ![t] = "idle"]
    /\ call' = [call EXCEPT ![t] = "none"]

SetPauses(t, n) == currentPauses' = [currentPauses EXCEPT ![t] = n]

Enter(t, c) ==
    /\ pc[t] = "idle"
    /\ pc' = [pc EXCEPT ![t] = "try"]
    /\ call' = [call EXCEPT ![t] = c]
    /\ SetPauses(t, 1)
    /\ UNCHANGED <<kind, mLock>>

\* What a failed attempt of lock does next.
Backoff(t) ==
    LET p == currentPauses[t]
    IN  \/ /\ kind = "SpinLock"
           /\ UNCHANGED currentPauses
           /\ Goto(t, "try")
        \/ /\ kind = "Futex"
           /\ SetPauses(t, IF p <= MaxPauses THEN 2 * p ELSE p)
           /\ Goto(t, "try")
        \/ /\ kind = "SystemFutexLinux" /\ p <= MaxPauses
           /\ SetPauses(t, 2 * p)
           /\ Goto(t, "try")
        \/ /\ kind = "SystemFutexLinux" /\ p > MaxPauses
           /\ UNCHANGED currentPauses
           /\ Goto(t, "park")
        \/ /\ kind = "SystemFutexPThread"
           /\ SetPauses(t, 2 * p)
           /\ Goto(t, IF 2 * p <= MaxPauses THEN "try" ELSE "block")

\* Mutant: the word is read and written without the compare-and-swap.
TryLock_NotAtomic(t) ==
    /\ pc[t] = "try"
    /\ mLock' = 1
    /\ Goto(t, "hold")
    /\ UNCHANGED <<kind, currentPauses>>

TryLock(t) ==
    /\ pc[t] = "try"
    /\ \/ mLock = 0 /\ mLock' = 1 /\ Goto(t, "hold") /\ UNCHANGED currentPauses
       \/ /\ mLock = 1 /\ UNCHANGED mLock
          /\ \/ call[t] = "try_lock" /\ Return(t) /\ UNCHANGED currentPauses
             \/ call[t] = "lock" /\ Backoff(t)
    /\ UNCHANGED kind

-----------------------------------------------------------------------------
(* SystemFutexLinux *)

\* Mutant: the kernel is not told which value the caller saw.
FutexWait_AnyValue(t) ==
    /\ pc[t] = "park"
    /\ Goto(t, "asleep")
    /\ UNCHANGED <<kind, mLock, currentPauses>>

FutexWait(t) ==
    /\ pc[t] = "park"
    /\ \/ mLock = 1 /\ Goto(t, "asleep") /\ UNCHANGED currentPauses
       \/ mLock # 1 /\ Goto(t, "try") /\ SetPauses(t, 1)
    /\ UNCHANGED <<kind, mLock>>

\* FUTEX_WAIT returns, whatever the reason; lock starts over.
Awake(t) == Goto(t, "try") /\ SetPauses(t, 1)

Interrupted(t) ==
    /\ pc[t] = "asleep"
    /\ Awake(t)
    /\ UNCHANGED <<kind, mLock>>

-----------------------------------------------------------------------------
(* SystemFutexPThread: the mutex itself hands the lock to a blocked thread *)
(* when it is free.                                                        *)
MutexLock(t) ==
    /\ pc[t] = "block"
    /\ mLock = 0
    /\ mLock' = 1
    /\ Goto(t, "hold")
    /\ UNCHANGED <<kind, currentPauses>>

-----------------------------------------------------------------------------
\* Mutant: unlock stores zero and leaves the sleepers alone.
unlock_NoWake(t) ==
    /\ pc[t] = "hold"
    /\ mLock' = 0
    /\ Return(t)
    /\ UNCHANGED <<kind, currentPauses>>

unlock(t) ==
    /\ pc[t] = "hold"
    /\ mLock' = 0
    /\ \/ kind = "SystemFutexLinux" /\ Goto(t, "wake")
       \/ kind # "SystemFutexLinux" /\ Return(t)
    /\ UNCHANGED <<kind, currentPauses>>

Asleep == {t \in Threads : pc[t] = "asleep"}

FutexWake(t) ==
    /\ pc[t] = "wake"
    /\ \/ \E s \in Asleep :
            /\ pc' = [pc EXCEPT ![t] = "idle", ![s] = "try"]
            /\ SetPauses(s, 1)
       \/ /\ Asleep = {}
          /\ pc' = [pc EXCEPT ![t] = "idle"]
          /\ UNCHANGED currentPauses
    /\ call' = [call EXCEPT ![t] = "none"]
    /\ UNCHANGED <<kind, mLock>>

-----------------------------------------------------------------------------
Request(t) == Enter(t, "lock") \/ Enter(t, "try_lock")

Running(t) == TryLock(t) \/ FutexWait(t) \/ MutexLock(t) \/ FutexWake(t)

Next == \E t \in Threads :
    Request(t) \/ Running(t) \/ Interrupted(t) \/ unlock(t)

Spec == Init /\ [][Next]_vars

\* Threads inside a call are scheduled and holders unlock; nobody has to
\* call, and no signal has to arrive.
FairSpec == Spec /\ \A t \in Threads : WF_vars(Running(t)) /\ WF_vars(unlock(t))

-----------------------------------------------------------------------------
TypeOK ==
    /\ kind \in Kinds
    /\ mLock \in {0, 1}
    /\ pc \in [Threads ->
         {"idle", "try", "park", "asleep", "block", "hold", "wake"}]
    /\ call \in [Threads -> {"none", "lock", "try_lock"}]
    /\ currentPauses \in [Threads -> 1..2 * MaxPauses]

(* One holder at a time, and the word is 1 exactly while there is one.     *)
MutualExclusion ==
    /\ \A t, u \in Threads : pc[t] = "hold" /\ pc[u] = "hold" => t = u
    /\ mLock = 1 <=> \E t \in Threads : pc[t] = "hold"

(* SystemFutexLinux::unlock clears the word and wakes in two steps, and    *)
(* lock decides to sleep long after it saw the word set.  Still nobody     *)
(* sleeps on a free lock unless a wake is under way or some thread is      *)
(* awake inside lock, which will pass a wake on when it unlocks.           *)
NoLostWakeup ==
    Asleep # {} =>
        \/ mLock = 1
        \/ \E t \in Threads : pc[t] = "wake"
        \/ \E t \in Threads : call[t] = "lock" /\ pc[t] \in {"try", "park"}

(* Once no new calls arrive every thread inside lock gets its turn: each   *)
(* wake reaches a thread that still needs it.                              *)
NewCallsCease ==
    <>[][\A t \in Threads : pc[t] = "idle" => pc'[t] = "idle"]_pc

EveryLockServed ==
    NewCallsCease =>
        \A t \in Threads : (call[t] = "lock" /\ pc[t] = "try") ~> pc[t] = "hold"
=============================================================================
