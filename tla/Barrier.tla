------------------------------ MODULE Barrier -------------------------------
(***************************************************************************)
(* The barriers of Barrier.hpp: Barrier, which counts the threads that     *)
(* came and spins, and SystemBarrierPThread, which counts them and blocks  *)
(* in a pthread barrier. Neither ever resets its count.                    *)
(*                                                                         *)
(* A step is one atomic access or one system call. The pthread barrier is  *)
(* external: it lets the threads inside go when they are mThreadCount, and *)
(* starts over.                                                            *)
(***************************************************************************)
EXTENDS Integers, FiniteSets

CONSTANTS Threads, MaxCalls

Kinds == {"Barrier", "SystemBarrierPThread"}

VARIABLES kind, mThreadCount, mBarrierCount,
          mBarrier,   \* the threads inside the pthread barrier
          pc,
          calls       \* how often each thread has called wait

vars == <<kind, mThreadCount, mBarrierCount, mBarrier, pc, calls>>

Init ==
    /\ kind \in Kinds
    /\ mThreadCount \in 1 .. Cardinality(Threads)
    /\ mBarrierCount = 0
    /\ mBarrier = {}
    /\ pc = [t \in Threads |-> "out"]
    /\ calls = [t \in Threads |-> 0]

Goto(t, place) == pc' = [pc EXCEPT ![t] = place]

wait(t) ==
    /\ pc[t] = "out" /\ calls[t] < MaxCalls
    /\ calls' = [calls EXCEPT ![t] = @ + 1]
    /\ Goto(t, "check")
    /\ UNCHANGED <<kind, mThreadCount, mBarrierCount, mBarrier>>

\* Mutant: the last thread is not waited for.
Full_Early(count) == count + 1 >= mThreadCount

\* Mutant: one thread more is waited for.
Full_Late(count) == count > mThreadCount

Full(count) == count >= mThreadCount

\* num_waiting_threads() >= mThreadCount
Check(t) ==
    /\ pc[t] = "check"
    /\ Goto(t, IF Full(mBarrierCount) THEN "out" ELSE "add")
    /\ UNCHANGED <<kind, mThreadCount, mBarrierCount, mBarrier, calls>>

\* fetch_add: the spin starts from the count before the addition.
Add(t) ==
    /\ pc[t] = "add"
    /\ mBarrierCount' = mBarrierCount + 1
    /\ \/ kind = "Barrier" /\ Goto(t, IF Full(mBarrierCount) THEN "out" ELSE "spin")
       \/ kind = "SystemBarrierPThread" /\ Goto(t, "block")
    /\ UNCHANGED <<kind, mThreadCount, mBarrier, calls>>

\* The load that ends the spin; a load that does not changes nothing.
SpinEnds(t) ==
    /\ pc[t] = "spin"
    /\ Full(mBarrierCount)
    /\ Goto(t, "out")
    /\ UNCHANGED <<kind, mThreadCount, mBarrierCount, mBarrier, calls>>

pthread_barrier_wait(t) ==
    /\ pc[t] = "block" /\ t \notin mBarrier
    /\ LET inside == mBarrier \cup {t}
       IN \/ /\ Cardinality(inside) < mThreadCount
             /\ mBarrier' = inside
             /\ UNCHANGED pc
          \/ /\ Cardinality(inside) = mThreadCount
             /\ mBarrier' = {}
             /\ pc' = [u \in Threads |-> IF u \in inside THEN "out" ELSE pc[u]]
    /\ UNCHANGED <<kind, mThreadCount, mBarrierCount, calls>>

Running(t) == Check(t) \/ Add(t) \/ SpinEnds(t) \/ pthread_barrier_wait(t)

Next == \E t \in Threads : wait(t) \/ Running(t)

Spec == Init /\ [][Next]_vars

-----------------------------------------------------------------------------
EnoughCame == Cardinality({t \in Threads : calls[t] > 0}) >= mThreadCount

(* Nobody comes out of the barrier before as many threads as it has places *)
(* have gone in; a second call may return at once, for the count stays.    *)
NobodyLeavesEarly ==
    (\E t \in Threads : pc[t] = "out" /\ calls[t] > 0) => EnoughCame

(* Once enough threads have come everybody inside gets out. For the        *)
(* pthread barrier this takes that there are no more threads than places:  *)
(* its count is checked before it is added to, and a thread too many then  *)
(* waits in the pthread barrier for a round that never fills.              *)
NoThreadTooMany ==
    kind = "Barrier" \/ Cardinality(Threads) <= mThreadCount

EverybodyLeaves ==
    \A t \in Threads :
        (NoThreadTooMany /\ EnoughCame /\ pc[t] # "out") ~> pc[t] = "out"
=============================================================================
