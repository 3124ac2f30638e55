----------------------------- MODULE RingBuffer -----------------------------
(***************************************************************************)
(* ls::utils::RingBuffer<T>, a growing circular queue.  A buffer is the    *)
(* record of its four members; one slot always stays free so that mHead =  *)
(* mTail means empty.  The operators below are the member functions; the   *)
(* actions drive one buffer, buf, and copy and move it to and from a       *)
(* second one, other.                                                      *)
(*                                                                         *)
(* Indices are 64-bit unsigned.  WordModulus stands for 2^64: what matters *)
(* is whether the number of slots divides it, because size() and back()    *)
(* subtract modulo 2^64 before they reduce modulo mCapacity.               *)
(*                                                                         *)
(* Bounds: MaxRequest on the capacities callers ask for, MaxSlots on the   *)
(* storage.  Once hazard is set nothing further is modelled: the code may  *)
(* have lost elements or written outside its storage.                      *)
(***************************************************************************)
EXTENDS Integers, Sequences

CONSTANTS Values, Blank, WordModulus, MaxRequest, MaxSlots

VARIABLES buf, other,             \* two ring buffers
          queue, otherQueue,      \* history: what two FIFO queues would hold
          hazard                  \* history: a call met one of the two conditions below

vars == <<buf, other, queue, otherQueue, hazard>>

-----------------------------------------------------------------------------
(* The member functions *)

NoData == [i \in {} |-> Blank]

Cleared == [mHead |-> 0, mTail |-> 0, mCapacity |-> 1, mData |-> NoData]

Capacity(b) == b.mCapacity - 1

Size(b) == ((b.mTail - b.mHead) % WordModulus) % b.mCapacity

Empty(b) == b.mHead = b.mTail

Full(b) == b.mData # NoData /\ Capacity(b) = Size(b)

Following(b, i) == (i + 1) % b.mCapacity

\* The elements between mHead and mTail, as the copying loops visit them.
Occupied(b) == (b.mTail + b.mCapacity - b.mHead) % b.mCapacity

Contents(b) ==
    [i \in 1..Occupied(b) |-> b.mData[(b.mHead + i - 1) % b.mCapacity]]

PushUnchecked(b, v) ==
    [b EXCEPT !.mData[b.mTail] = v, !.mTail = Following(b, @)]

\* pop_unchecked leaves a moved-from element behind.
PopUnchecked(b) ==
    [b EXCEPT !.mData[b.mHead] = Blank, !.mHead = Following(b, @)]

ReallocSize(b) == (Capacity(b) * 3) \div 2

\* The number of slots reserve(n) allocates; none when it returns early.
NeedsStorage(b, n) == n # 0 /\ n # Capacity(b)

NewSlots(b, n) == 1 + (IF n < Size(b) THEN Size(b) ELSE n)

\* Mutant: the old storage is copied from its first slot on.
Reserve_CopiesFromSlotZero(b, n) ==
    IF n = 0 THEN Cleared
    ELSE IF ~NeedsStorage(b, n) THEN b
    ELSE [mHead |-> 0, mTail |-> Occupied(b), mCapacity |-> NewSlots(b, n),
          mData |-> [i \in 0..NewSlots(b, n) - 1 |->
                       IF i < Occupied(b) THEN b.mData[i] ELSE Blank]]

\* reserve(n) when its allocation succeeds.
Reserve(b, n) ==
    IF n = 0 THEN Cleared
    ELSE IF ~NeedsStorage(b, n) THEN b
    ELSE [mHead |-> 0, mTail |-> Occupied(b), mCapacity |-> NewSlots(b, n),
          mData |-> [i \in 0..NewSlots(b, n) - 1 |->
                       IF i < Occupied(b) THEN Contents(b)[i + 1] ELSE Blank]]

\* The copy constructor allocates as many slots and keeps every index.
Copied(b) ==
    IF Empty(b) THEN Cleared
    ELSE [b EXCEPT !.mData = [i \in DOMAIN b.mData |->
            IF \E k \in 0..Occupied(b) - 1 : i = (b.mHead + k) % b.mCapacity
            THEN b.mData[i] ELSE Blank]]

-----------------------------------------------------------------------------
(* The two conditions under which a call cannot be trusted: mTail lies     *)
(* before mHead and the slots do not divide 2^64; or an element is pushed  *)
(* where reserve(_realloc_size()) makes no room for it.                    *)

WrapAtRisk(b) == b.mTail < b.mHead /\ WordModulus % b.mCapacity # 0

NoRoom(b) == Capacity(b) = 0 \/ (Full(b) /\ ReallocSize(b) = Capacity(b))

-----------------------------------------------------------------------------
Init ==
    /\ \E n \in 0..MaxRequest : buf = Reserve(Cleared, n)
    /\ other = Cleared
    /\ queue = <<>> /\ otherQueue = <<>>
    /\ hazard = FALSE

\* Every call on buf alone.
OnBuf == ~hazard /\ UNCHANGED <<other, otherQueue>>

\* push and emplace of v; the storage grows first when the buffer is full.
Push(v) ==
    /\ hazard' = (WrapAtRisk(buf) \/ NoRoom(buf))
    /\ \/ /\ Capacity(buf) = 0      \* mData is null
          /\ UNCHANGED buf
       \/ /\ Capacity(buf) > 0 /\ ~Full(buf)
          /\ buf' = PushUnchecked(buf, v)
       \/ /\ Full(buf)
          /\ NewSlots(buf, ReallocSize(buf)) <= MaxSlots
          /\ buf' = PushUnchecked(Reserve(buf, ReallocSize(buf)), v)
    /\ queue' = Append(queue, v)
    /\ OnBuf

\* push when the allocation fails: nothing changes and the caller is told.
PushFails ==
    /\ Full(buf) /\ NeedsStorage(buf, ReallocSize(buf))
    /\ hazard' = WrapAtRisk(buf)
    /\ UNCHANGED <<buf, queue>>
    /\ OnBuf

\* push_unchecked by a caller that asked full() first.
PushAfterCheck(v) ==
    /\ Capacity(buf) > 0 /\ ~Full(buf)
    /\ hazard' = WrapAtRisk(buf)
    /\ buf' = PushUnchecked(buf, v)
    /\ queue' = Append(queue, v)
    /\ OnBuf

\* pop, and pop_unchecked of a non-empty buffer.
Pop ==
    /\ ~Empty(buf)
    /\ buf' = PopUnchecked(buf)
    /\ queue' = Tail(queue)
    /\ UNCHANGED hazard
    /\ OnBuf

\* reserve(n); reserve(0) is clear().
ReserveCall(n) ==
    /\ NewSlots(buf, n) <= MaxSlots
    /\ hazard' = (n # 0 /\ WrapAtRisk(buf))
    /\ \/ buf' = Reserve(buf, n) /\ queue' = IF n = 0 THEN <<>> ELSE queue
       \/ NeedsStorage(buf, n) /\ UNCHANGED <<buf, queue>>
    /\ OnBuf

\* shrink_to_fit: an empty buffer loses its storage.
ShrinkToFit ==
    /\ hazard' = WrapAtRisk(buf)
    /\ \/ buf' = Reserve(buf, Size(buf))
       \/ NeedsStorage(buf, Size(buf)) /\ UNCHANGED buf
    /\ UNCHANGED queue
    /\ OnBuf

\* other = buf, or other constructed as a copy; a failed allocation leaves it empty.
CopyOut ==
    /\ ~hazard
    /\ \/ other' = Copied(buf) /\ otherQueue' = queue
       \/ ~Empty(buf) /\ other' = Cleared /\ otherQueue' = <<>>
    /\ UNCHANGED <<buf, queue, hazard>>

\* buf = std::move(other)
MoveIn ==
    /\ ~hazard
    /\ buf' = other /\ queue' = otherQueue
    /\ other' = Cleared /\ otherQueue' = <<>>
    /\ UNCHANGED hazard

Next ==
    \/ \E v \in Values : Push(v) \/ PushAfterCheck(v)
    \/ PushFails
    \/ Pop
    \/ \E n \in 0..MaxRequest : ReserveCall(n)
    \/ ShrinkToFit
    \/ CopyOut
    \/ MoveIn

Spec == Init /\ [][Next]_vars

-----------------------------------------------------------------------------
IsBuffer(b) ==
    /\ b.mCapacity \in 1..MaxSlots
    /\ b.mHead \in 0..b.mCapacity - 1
    /\ b.mTail \in 0..b.mCapacity - 1
    /\ IF b.mCapacity = 1
       THEN b.mData = NoData
       ELSE b.mData \in [0..b.mCapacity - 1 -> Values \cup {Blank}]

(* Both indices always point into the storage, and there is storage        *)
(* exactly when the capacity is not zero.                                  *)
TypeOK ==
    /\ ~hazard => IsBuffer(buf) /\ IsBuffer(other)
    /\ hazard \in BOOLEAN

(* The buffers are FIFO queues: through wrap-around, growth, shrinking,    *)
(* copies and moves no element is lost, doubled or reordered, except by a  *)
(* call made under one of the two hazard conditions.                       *)
KeepsFifoOrder ==
    ~hazard => Contents(buf) = queue /\ Contents(other) = otherQueue

Back(b) == b.mData[((b.mTail - 1) % WordModulus) % b.mCapacity]

(* What the buffer says of itself is true whenever the subtraction modulo  *)
(* 2^64 is harmless: size() counts the elements, full() holds exactly when *)
(* no more fit, back() is the newest element.                              *)
CountsItsElements ==
    ~hazard /\ ~WrapAtRisk(buf) =>
        /\ Size(buf) = Len(queue)
        /\ Full(buf) <=> Capacity(buf) > 0 /\ Len(queue) = Capacity(buf)
        /\ queue # <<>> => Back(buf) = queue[Len(queue)]
=============================================================================
