------------------------------ MODULE TaskRing ------------------------------
(***************************************************************************)
(* The member mTasks of both worker classes, a RingBuffer that is built    *)
(* with room for two tasks and grows in push.  mTasks is what lies between *)
(* mHead and mTail, in order; ring holds the two numbers that decide what  *)
(* push and pop do with it, and mTail follows from both.                   *)
(*                                                                         *)
(* size() subtracts modulo 2^64 before it reduces modulo mCapacity, so a   *)
(* full ring whose mTail has wrapped is not always told from another.  A   *)
(* push then brings mTail to mHead: the queue looks empty, and nobody will *)
(* take what was in it, nor the task pushed.  RingBuffer.tla has the whole *)
(* class; the workers ignore what push returns.                            *)
(*                                                                         *)
(* WordModulus stands for 2^64; 16 leaves the same remainders as 2^64 for  *)
(* the 3, 4, 5, 7, 10 and 14 slots that the first five growths bring.      *)
(***************************************************************************)
EXTENDS TaskQueue

CONSTANT WordModulus

ASSUME WordIsNat == WordModulus \in Nat \ {0}

VARIABLES mTasks,       \* the tasks in the queue
          ring,         \* mTasks.mHead and mTasks.mCapacity, the number of slots
          lapped        \* history: tasks that mTail ran over

ringVars == <<mTasks, ring, lapped>>

Ring(head, slots) == [mHead |-> head, mCapacity |-> slots]

\* clear() frees the storage, reserve(n) of an empty ring allocates it.
NoStorage == Ring(0, 1)
Reserved(n) == Ring(0, n + 1)

HasCapacity == ring.mCapacity # 1

mTail == (ring.mHead + Len(mTasks)) % ring.mCapacity

\* Mutant: size() is compared with the number of slots.
Full_OneMore == ((mTail - ring.mHead) % WordModulus) % ring.mCapacity = ring.mCapacity

Full == ((mTail - ring.mHead) % WordModulus) % ring.mCapacity = ring.mCapacity - 1

\* One more task and mTail is at mHead.
NoSlotLeft == Len(mTasks) + 1 = ring.mCapacity

Grown == Reserved(((ring.mCapacity - 1) * 3) \div 2)

\* push and emplace: a full ring grows first, unless there is no memory.
Enqueue(k) ==
    \/ /\ Full
       /\ mTasks' = Append(mTasks, k) /\ ring' = Grown
       /\ UNCHANGED lapped
    \/ Full /\ UNCHANGED ringVars
    \/ /\ ~Full /\ ~NoSlotLeft
       /\ mTasks' = Append(mTasks, k)
       /\ UNCHANGED <<ring, lapped>>
    \/ /\ ~Full /\ NoSlotLeft
       /\ mTasks' = <<>>
       /\ lapped' = lapped \cup ToSet(mTasks) \cup {k}
       /\ UNCHANGED ring

\* pop_unchecked of a queue that is not empty
Dequeue ==
    /\ mTasks' = Tail(mTasks)
    /\ ring' = Ring((ring.mHead + 1) % ring.mCapacity, ring.mCapacity)
    /\ UNCHANGED lapped

ClearQueue ==
    /\ mTasks' = <<>> /\ ring' = NoStorage
    /\ UNCHANGED lapped

\* The storage of another worker's queue, which copies and moves bring along
\* with its indices.  Bound: it has not grown yet.
OtherRings == {Ring(head, 3) : head \in 0..2}

\* The indices point into the slots, and one slot is free.
RingOK ==
    /\ ring \in [mHead : Nat, mCapacity : Nat]
    /\ ring.mHead < ring.mCapacity
    /\ ring.mCapacity # 2
    /\ Len(mTasks) < ring.mCapacity

(* A push runs over the queue only when mTail has wrapped around, so that  *)
(* it is before mHead, and the number of slots does not divide 2^64: the   *)
(* first tasks after the storage was allocated are safe, and so is a ring  *)
(* of four slots.  (No storage has more than 2^64 slots.)                  *)
RunsOverOnlyWrapped ==
    [][lapped' # lapped /\ ring.mCapacity <= WordModulus =>
         mTail < ring.mHead /\ WordModulus % ring.mCapacity # 0]_ringVars
=============================================================================
