--------------------------- MODULE Workers_proofs ---------------------------
(***************************************************************************)
(* Both worker classes, for any number of tasks, clears, assignments and,  *)
(* for the pool, of workers and resizes.                                   *)
(*                                                                         *)
(* WorkerThread: its typing, the order in which tasks start, what ready()  *)
(* promises, and that flush and the destructor do not miss the thread. The *)
(* thread and the client hand mIsPaused to each other: only the client     *)
(* clears it, only the thread sets it, and neither acts on the tasks while *)
(* it is the other's (TurnIsKept). What was flushed is then either started *)
(* or still in the queue, or a push onto the ring buffer ran over it       *)
(* (DueIsKept), and a thread that found the queue empty has started all    *)
(* the rest by the time it pauses.                                         *)
(*                                                                         *)
(* WorkerPool: tasks start once and in order, and none that was flushed is *)
(* thrown away. The order is kept whatever the workers' places are, for    *)
(* every change of the queue is a critical section. That nothing flushed   *)
(* is dropped takes the handling of mIsPaused: while the pool is paused    *)
(* nothing in the queue is due (NothingDueWhilePaused), because the last   *)
(* worker out pauses it only when the queue is empty, under the lock that  *)
(* Push takes; and stop_threads empties the queue of a paused pool only.   *)
(* mThreadsRunning is the number of workers inside execute_tasks, for each *)
(* counts itself in and out (WorkersStep).                                 *)
(*                                                                         *)
(* Each class has its inductive invariant, and what one object does is the *)
(* matter of its class (Inductive). When a push runs over tasks is the     *)
(* same for both: when the ring buffer is full and does not look so        *)
(* (UnseenFull).                                                           *)
(***************************************************************************)
EXTENDS Workers, CommonLemmas, FiniteSetTheorems

-----------------------------------------------------------------------------
(* WorkerThread                                                            *)

HistoryOK ==
    /\ pushed \in 0 .. MaxTasks
    /\ started \in Seq(Tasks)
    /\ client = "copying" => pushed < MaxTasks

TurnIsKept ==
    /\ pc \in {"take", "run", "pause"} => ~mIsPaused
    /\ client \in {"flushing", "assigning", "copying", "waking"} => mIsPaused

DueIsKept ==
    /\ due \subseteq ToSet(started) \cup ToSet(mTasks) \cup lapped
    /\ mIsPaused \/ pc = "pause" => due \subseteq ToSet(started) \cup lapped

IInv ==
    /\ TypeOK /\ HistoryOK
    /\ Ordered(started \o mTasks, pushed)
    /\ TurnIsKept /\ DueIsKept
    /\ NoLostWakeup

-----------------------------------------------------------------------------
(* What the steps leave in the queue is again a queue of tasks.            *)
LEMMA Queues ==
    /\ <<>> \in Seq(Tasks)
    /\ \A k \in Tasks : <<k>> \in Seq(Tasks)
    /\ \A s \in Seq(Tasks), k \in Tasks : Append(s, k) \in Seq(Tasks)
    /\ \A s \in Seq(Tasks) : s # <<>> => Head(s) \in Tasks /\ Tail(s) \in Seq(Tasks)
<1>1. \A S : <<>> \in Seq(S) /\ \A k \in S : <<k>> \in Seq(S)
    OBVIOUS
<1>2. \A S : \A s \in Seq(S) :
          /\ \A k \in S : Append(s, k) \in Seq(S)
          /\ s # <<>> => Head(s) \in S /\ Tail(s) \in Seq(S)
    OBVIOUS
<1> QED BY <1>1, <1>2, Zenon

-----------------------------------------------------------------------------
(* What the calls on the ring buffer do to its indices: the one that grows *)
(* gains a slot at least, because it starts with two to use.               *)
LEMMA RingAfterCall ==
    ASSUME mTasks \in Seq(Nat), RingOK
    PROVE  /\ UNCHANGED ringVars => RingOK'
           /\ HasCapacity /\ (\E k \in Nat : Enqueue(k)) => RingOK'
           /\ mTasks # <<>> /\ Dequeue => RingOK'
           /\ ClearQueue => RingOK'
<1> USE DEF RingOK, Ring, Reserved, NoStorage
<1>1. Len(mTasks) \in Nat /\ ring.mHead \in Nat /\ ring.mCapacity \in Nat
    OBVIOUS
<1>2. ASSUME UNCHANGED ringVars PROVE RingOK'
    BY <1>2 DEF ringVars
<1>3. ASSUME HasCapacity, NEW k \in Nat, Enqueue(k) PROVE RingOK'
    <2>1. ring.mCapacity >= 3
        BY <1>1, <1>3 DEF HasCapacity
    <2>2. Len(Append(mTasks, k)) = Len(mTasks) + 1
        OBVIOUS
    <2>3. CASE ring' = Grown /\ mTasks' = Append(mTasks, k)
        <3>1. ((ring.mCapacity - 1) * 3) \div 2 \in Nat
              /\ ((ring.mCapacity - 1) * 3) \div 2 >= ring.mCapacity
            BY <1>1, <2>1
        <3> DEFINE slots == ((ring.mCapacity - 1) * 3) \div 2
        <3>2. ring' = [mHead |-> 0, mCapacity |-> slots + 1]
            BY <2>3 DEF Grown
        <3> HIDE DEF slots
        <3>3. slots \in Nat /\ slots >= ring.mCapacity
            BY <3>1 DEF slots
        <3> QED BY <1>1, <2>1, <2>2, <2>3, <3>2, <3>3
    <2>4. CASE ring' = ring /\ (mTasks' = mTasks \/ mTasks' = <<>>)
        BY <1>1, <2>1, <2>4
    <2>5. CASE ring' = ring /\ ~NoSlotLeft /\ mTasks' = Append(mTasks, k)
        BY <1>1, <2>1, <2>2, <2>5 DEF NoSlotLeft
    <2> QED BY <1>3, <2>3, <2>4, <2>5 DEF Enqueue, ringVars
<1>4. ASSUME mTasks # <<>>, Dequeue PROVE RingOK'
    <2>1. Len(mTasks') = Len(mTasks) - 1
        BY <1>4 DEF Dequeue
    <2>2. /\ (ring.mHead + 1) % ring.mCapacity \in Nat
          /\ (ring.mHead + 1) % ring.mCapacity < ring.mCapacity
        <3>1. ring.mHead + 1 \in Int /\ ring.mCapacity \in Nat \ {0}
            BY <1>1
        <3> DEFINE a == ring.mHead + 1
                   d == ring.mCapacity
        <3>2. a \in Int /\ d \in Nat \ {0}
            BY <3>1
        <3> HIDE DEF a, d, RingOK
        <3>3. a % d \in 0 .. d - 1
            BY <3>2, DivMod
        <3>4. a % d \in Nat /\ a % d < d
            BY <3>2, <3>3
        <3> QED BY <3>4 DEF a, d
    <2> QED BY <1>1, <1>4, <2>1, <2>2 DEF Dequeue
<1>5. ASSUME ClearQueue PROVE RingOK'
    BY <1>5 DEF ClearQueue
<1> QED BY <1>2, <1>3, <1>4, <1>5

(* And what an assignment brings along.                                    *)
LEMMA RingAfterAssign ==
    \/ mTasks' = <<>> /\ ring' \in OtherRings \cup {NoStorage, Reserved(2)}
    \/ (\E k \in Nat : mTasks' = <<k>>) /\ ring' \in OtherRings
    => RingOK'
<1> USE DEF NoStorage, Reserved, Ring, RingOK
<1>1. \A r \in OtherRings : \E head \in 0 .. 2 : r = [mHead |-> head, mCapacity |-> 3]
    BY DEF OtherRings
<1>2. ASSUME mTasks' = <<>>, ring' \in OtherRings \cup {NoStorage, Reserved(2)} PROVE RingOK'
    <2>1. Len(mTasks') = 0
        BY <1>2
    <2> QED BY <1>1, <1>2, <2>1
<1>3. ASSUME NEW k \in Nat, mTasks' = <<k>>, ring' \in OtherRings PROVE RingOK'
    <2>1. Len(mTasks') = 1
        BY <1>3
    <2> QED BY <1>1, <1>3, <2>1
<1> QED BY <1>2, <1>3

(* A ring in which no slot is left knows it, unless it has wrapped and its *)
(* slots do not divide the word: without a wrap the difference of the      *)
(* indices is the number of tasks, and with one it is the word less one.   *)
LEMMA UnseenFull ==
    ASSUME mTasks \in Seq(Nat), RingOK, HasCapacity, ring.mCapacity <= WordModulus,
           NoSlotLeft, ~Full
    PROVE  mTail < ring.mHead /\ WordModulus % ring.mCapacity # 0
<1> DEFINE c == ring.mCapacity
           h == ring.mHead
           m == WordModulus
<1>1. /\ c \in Nat \ {0} /\ h \in Nat /\ h < c /\ m \in Nat \ {0} /\ c <= m
      /\ Len(mTasks) = c - 1
    BY WordIsNat DEF RingOK, NoSlotLeft
<1>2. mTail = (h + (c - 1)) % c
    BY <1>1 DEF mTail
<1>3. ((mTail - h) % m) % c # c - 1
    BY DEF Full
<1> HIDE DEF c, h, m
<1>4. h # 0
    <2> SUFFICES ASSUME h = 0 PROVE FALSE
        OBVIOUS
    <2>1. (c * 0 + (c - 1)) % c = c - 1 /\ (m * 0 + (c - 1)) % m = c - 1
        <3>1. c - 1 \in 0 .. c - 1 /\ c - 1 \in 0 .. m - 1 /\ 0 \in Int
            BY <1>1
        <3> QED BY <1>1, <3>1, ModUnique
    <2>2. c * 0 + (c - 1) = c - 1 /\ m * 0 + (c - 1) = c - 1 /\ h + (c - 1) = c - 1
        BY <1>1
    <2>3. mTail = c - 1 /\ mTail - h = c - 1
        BY <1>1, <1>2, <2>1, <2>2
    <2>4. ((mTail - h) % m) % c = c - 1
        BY <2>1, <2>2, <2>3
    <2> QED BY <1>3, <2>4
<1>5. mTail = h - 1
    <2>1. h - 1 \in 0 .. c - 1 /\ 1 \in Int
        BY <1>1, <1>4
    <2>2. (c * 1 + (h - 1)) % c = h - 1
        BY <1>1, <2>1, ModUnique
    <2>3. c * 1 + (h - 1) = h + (c - 1)
        BY <1>1
    <2> QED BY <1>2, <2>2, <2>3
<1>6. m % c # 0
    <2> SUFFICES ASSUME m % c = 0 PROVE FALSE
        OBVIOUS
    <2>1. (m * (-1) + (m - 1)) % m = m - 1
        <3>1. m - 1 \in 0 .. m - 1 /\ -1 \in Int
            BY <1>1
        <3> QED BY <1>1, <3>1, ModUnique
    <2>2. m * (-1) + (m - 1) = mTail - h
        BY <1>1, <1>5
    <2>3. (mTail - h) % m = m - 1
        BY <2>1, <2>2
    <2>4. m = c * (m \div c) /\ m \div c \in Int
        <3>1. m \in Int
            BY <1>1
        <3>2. m = c * (m \div c) + (m % c) /\ m \div c \in Int
            BY <1>1, <3>1, DivMod
        <3> QED BY <1>1, <3>2
    <2> DEFINE q == m \div c
    <2>5. m = c * q /\ q \in Int
        BY <2>4
    <2> HIDE DEF q
    <2>6. (c * (q - 1) + (c - 1)) % c = c - 1
        <3>1. q - 1 \in Int /\ c - 1 \in 0 .. c - 1
            BY <1>1, <2>5
        <3> QED BY <1>1, <3>1, ModUnique
    <2>7. c * (q - 1) + (c - 1) = m - 1
        BY <1>1, <2>5
    <2>8. (m - 1) % c = c - 1
        BY <2>6, <2>7
    <2> QED BY <1>3, <2>3, <2>8
<1>7. mTail < ring.mHead
    BY <1>1, <1>5 DEF h
<1> QED BY <1>6, <1>7 DEF c, m

-----------------------------------------------------------------------------
(* The typing in three parts: the flags, the ring buffer, and the rest.    *)
FlagsOK == mBusyWait \in BOOLEAN /\ mIsPaused \in BOOLEAN /\ outOfTasks \in BOOLEAN

QueueOK ==
    /\ mTasks \in Seq(Tasks)
    /\ pc \in {"loop", "decide", "nothingToDo", "park", "parked",
               "take", "run", "pause", "exited"}
    /\ task \in Tasks \cup {0}
    /\ task # 0 <=> pc = "run"

LEMMA TypeParts ==
    /\ TypeOK <=> FlagsOK /\ QueueOK /\ RingOK
    /\ TypeOK' <=> FlagsOK' /\ QueueOK' /\ RingOK'
BY Zenon DEF TypeOK, FlagsOK, QueueOK

LEMMA InitIInv == Init => IInv
<1> SUFFICES ASSUME Init PROVE IInv
    OBVIOUS
<1> USE BoundsAreNats DEF Init
<1>1. TypeOK /\ HistoryOK
    <2>1. FlagsOK
        BY Zenon DEF FlagsOK
    <2>2. QueueOK
        BY Queues DEF QueueOK
    <2>3. HistoryOK
        BY Queues DEF HistoryOK
    <2>4. RingOK
        BY DEF RingOK, Reserved, Ring
    <2> QED BY <2>1, <2>2, <2>3, <2>4, TypeParts
<1>2. Ordered(started \o mTasks, pushed)
    <2>1. started \o mTasks = <<>>
        OBVIOUS
    <2> QED BY <2>1 DEF Ordered, TasksInOrder
<1>3. TurnIsKept /\ DueIsKept /\ NoLostWakeup
    BY DEF TurnIsKept, DueIsKept, NoLostWakeup
<1> QED BY <1>1, <1>2, <1>3 DEF IInv

LEMMA FlagsStep == FlagsOK /\ [Next]_vars => FlagsOK'
<1> SUFFICES ASSUME FlagsOK, [Next]_vars PROVE FlagsOK'
    OBVIOUS
<1> USE DEF FlagsOK, shared, locals, history, LeaveClient, ringVars
<1>1. CASE UNCHANGED vars
    BY <1>1, Zenon DEF vars
<1>2. CASE Thread
    BY <1>2, Zenon DEF Thread, ReadQueue, ReadPaused, ReadBusyWait, Park, TakeTask, RunTask,
       PauseThread
<1>3. CASE SpuriousWakeup
    BY <1>3, Zenon DEF SpuriousWakeup
<1>4. CASE InCall
    BY <1>4, Zenon DEF InCall, FlushWake, Wait, CopyClears, CopyFills, MoveInto, MovedFrom,
       DestroyClears, DestroyWakes, Join
<1>5. CASE Client
    BY <1>5, Zenon DEF Client, Push, Flush, ClearPending, ToggleBusyWait, CallWait,
       CallDestructor, CallAssign
<1> QED BY <1>1, <1>2, <1>3, <1>4, <1>5 DEF Next

(* The queue and the thread's place.                                       *)
LEMMA QueueStep ==
    QueueOK /\ HistoryOK /\ [Next]_vars => QueueOK' /\ HistoryOK'
<1> SUFFICES ASSUME QueueOK, HistoryOK, [Next]_vars PROVE QueueOK' /\ HistoryOK'
    OBVIOUS
<1> USE Queues DEF QueueOK, HistoryOK, shared, locals, history, LeaveClient,
        NotifyExec, Returned, ringVars, ClearQueue
<1>0. /\ pushed < MaxTasks => pushed + 1 \in Tasks /\ pushed + 1 \in 0 .. MaxTasks
      /\ 0 \notin Tasks
    BY BoundsAreNats DEF Tasks
<1>1. CASE UNCHANGED vars
    BY <1>1 DEF vars
<1>2. CASE ReadQueue \/ ReadPaused \/ ReadBusyWait \/ Park
    BY <1>2 DEF ReadQueue, ReadPaused, ReadBusyWait, Park
<1>3. CASE TakeTask
    BY <1>0, <1>3 DEF TakeTask, Dequeue
<1>4. CASE RunTask \/ PauseThread \/ SpuriousWakeup
    BY <1>4 DEF RunTask, PauseThread, SpuriousWakeup
<1>5. CASE Push
    BY <1>0, <1>5 DEF Push, Enqueue
<1>6. CASE Flush \/ FlushWake
    BY <1>6 DEF Flush, FlushWake
<1>7. CASE ClearPending \/ ToggleBusyWait \/ CallWait
    BY <1>7 DEF ClearPending, ToggleBusyWait, CallWait
<1>8. CASE (\E kind \in {"copy", "move", "movedFrom"} : CallAssign(kind)) \/ Wait
    BY <1>8 DEF CallAssign, Wait
<1>9. CASE CopyClears \/ CopyFills
    BY <1>0, <1>9 DEF CopyClears, CopyFills
<1>10. CASE MoveInto \/ MovedFrom
    BY <1>0, <1>10 DEF MoveInto, MovedFrom
<1>11. CASE CallDestructor \/ DestroyClears \/ DestroyWakes \/ Join
    BY <1>11 DEF CallDestructor, DestroyClears, DestroyWakes, Join
<1> QED
    BY <1>1, <1>2, <1>3, <1>4, <1>5, <1>6, <1>7, <1>8, <1>9, <1>10, <1>11
    DEF Next, Thread, InCall, Client

(* What is in the queue and what was started are task numbers.             *)
LEMMA Numbers ==
    ASSUME IInv PROVE started \in Seq(Nat) /\ mTasks \in Seq(Nat) /\ pushed \in Nat
<1>1. Tasks \subseteq Nat /\ pushed \in Nat
    BY BoundsAreNats DEF IInv, HistoryOK, Tasks
<1>2. started \in Seq(Tasks) /\ mTasks \in Seq(Tasks)
    BY DEF IInv, HistoryOK, TypeOK
<1> QED BY <1>1, <1>2, SeqMonotonic

LEMMA RingStep == IInv /\ [Next]_vars => RingOK'
<1> SUFFICES ASSUME IInv, [Next]_vars PROVE RingOK'
    OBVIOUS
<1>0. mTasks \in Seq(Nat) /\ RingOK /\ pushed + 1 \in Nat
    BY Numbers DEF IInv, TypeOK
<1> USE DEF shared, LeaveClient
<1>1. CASE UNCHANGED ringVars
    BY <1>0, <1>1, RingAfterCall
<1>2. CASE ClearQueue
    BY <1>0, <1>2, RingAfterCall
<1>3. CASE \/ ReadQueue \/ ReadPaused \/ ReadBusyWait \/ Park \/ RunTask \/ PauseThread
           \/ SpuriousWakeup \/ Flush \/ FlushWake \/ ToggleBusyWait \/ CallWait \/ Wait
           \/ CallDestructor \/ DestroyWakes \/ Join
           \/ \E kind \in {"copy", "move", "movedFrom"} : CallAssign(kind)
    BY <1>1, <1>3 DEF ReadQueue, ReadPaused, ReadBusyWait, Park, RunTask, PauseThread,
       SpuriousWakeup, Flush, FlushWake, ToggleBusyWait, CallWait, Wait, CallDestructor,
       DestroyWakes, Join, CallAssign
<1>4. CASE ClearPending \/ CopyClears \/ MovedFrom \/ DestroyClears
    BY <1>2, <1>4 DEF ClearPending, CopyClears, MovedFrom, DestroyClears
<1>5. CASE TakeTask
    BY <1>0, <1>1, <1>5, RingAfterCall DEF TakeTask
<1>6. CASE Push
    <2>1. HasCapacity /\ \E k \in Nat : Enqueue(k)
        BY <1>0, <1>6 DEF Push, Enqueue, ringVars
    <2> QED BY <1>0, <2>1, RingAfterCall
<1>7. CASE CopyFills \/ MoveInto
    BY <1>0, <1>7, RingAfterAssign DEF CopyFills, MoveInto
<1>8. CASE UNCHANGED vars
    BY <1>1, <1>8 DEF vars
<1> QED
    BY <1>3, <1>4, <1>5, <1>6, <1>7, <1>8 DEF Next, Thread, InCall, Client

(* Only a push runs over anything.                                         *)
LEMMA OnlyPushLaps ==
    [Next]_vars /\ lapped' # lapped => HasCapacity /\ NoSlotLeft /\ ~Full
<1> SUFFICES ASSUME [Next]_vars, lapped' # lapped PROVE HasCapacity /\ NoSlotLeft /\ ~Full
    OBVIOUS
<1> USE DEF shared, LeaveClient, ringVars, ClearQueue
<1>1. CASE Push
    BY <1>1 DEF Push, Enqueue
<1>2. CASE \/ ReadQueue \/ ReadPaused \/ ReadBusyWait \/ Park \/ RunTask \/ PauseThread
           \/ SpuriousWakeup \/ Flush \/ FlushWake \/ ToggleBusyWait \/ CallWait \/ Wait
           \/ CallDestructor \/ DestroyWakes \/ Join
           \/ \E kind \in {"copy", "move", "movedFrom"} : CallAssign(kind)
    BY <1>2 DEF ReadQueue, ReadPaused, ReadBusyWait, Park, RunTask, PauseThread,
       SpuriousWakeup, Flush, FlushWake, ToggleBusyWait, CallWait, Wait, CallDestructor,
       DestroyWakes, Join, CallAssign
<1>3. CASE ClearPending \/ CopyClears \/ MovedFrom \/ DestroyClears \/ CopyFills \/ MoveInto
    BY <1>3 DEF ClearPending, CopyClears, MovedFrom, DestroyClears, CopyFills, MoveInto
<1>4. CASE TakeTask
    BY <1>4 DEF TakeTask, Dequeue
<1>5. CASE UNCHANGED vars
    BY <1>5 DEF vars
<1> QED BY <1>1, <1>2, <1>3, <1>4, <1>5 DEF Next, Thread, InCall, Client

-----------------------------------------------------------------------------
(* Order. A step leaves started \o mTasks alone, cuts the queue off it, or *)
(* puts the task just pushed at its end. A push may do each of the three.  *)

LEMMA OrderStep ==
    IInv /\ [Next]_vars => Ordered(started' \o mTasks', pushed')
<1> SUFFICES ASSUME IInv, [Next]_vars PROVE Ordered(started' \o mTasks', pushed')
    OBVIOUS
<1> USE DEF shared, history, ringVars, ClearQueue
<1>1. started \in Seq(Nat) /\ mTasks \in Seq(Nat) /\ pushed \in Nat
    BY Numbers
<1>2. Ordered(started \o mTasks, pushed)
    BY DEF IInv
<1>3. CASE UNCHANGED <<started, mTasks, pushed>>
    BY <1>2, <1>3
<1>4. CASE TakeTask
    BY <1>1, <1>2, <1>4, OrderedAfter DEF TakeTask, Dequeue
<1>5. CASE Push
    BY <1>1, <1>2, <1>5, OrderedAfter DEF Push, Enqueue
<1>6. CASE pushed' = pushed /\ started' = started /\ mTasks' = <<>>
    BY <1>1, <1>2, <1>6, OrderedAfter
<1>7. CASE pushed' = pushed + 1 /\ started' = started /\ mTasks' = <<pushed + 1>>
    BY <1>1, <1>2, <1>7, OrderedAfter
<1>8. CASE ReadQueue \/ ReadPaused \/ ReadBusyWait \/ Park \/ RunTask \/ PauseThread
             \/ SpuriousWakeup
    BY <1>3, <1>8 DEF ReadQueue, ReadPaused, ReadBusyWait, Park, RunTask, PauseThread,
           SpuriousWakeup, LeaveClient
<1>9. CASE Flush \/ FlushWake \/ ToggleBusyWait \/ CallWait \/ Wait \/ CallDestructor
             \/ DestroyWakes \/ Join \/ \E kind \in {"copy", "move", "movedFrom"} : CallAssign(kind)
    BY <1>3, <1>9 DEF Flush, FlushWake, ToggleBusyWait, CallWait, Wait, CallDestructor,
           DestroyWakes, Join, CallAssign
<1>10. CASE ClearPending \/ CopyClears \/ MovedFrom \/ DestroyClears
    BY <1>6, <1>10 DEF ClearPending, CopyClears, MovedFrom, DestroyClears
<1>11. CASE CopyFills \/ MoveInto
    BY <1>6, <1>7, <1>11 DEF CopyFills, MoveInto
<1>12. CASE UNCHANGED vars
    BY <1>3, <1>12 DEF vars
<1> QED
    BY <1>4, <1>5, <1>8, <1>9, <1>10, <1>11, <1>12 DEF Next, Thread, InCall, Client

-----------------------------------------------------------------------------
(* The turn, and the wake-up: mIsPaused is cleared in the step that        *)
(* notifies, so a thread that is parked is one that is still paused.       *)
LEMMA TurnStep == IInv /\ [Next]_vars => TurnIsKept' /\ NoLostWakeup'
<1> SUFFICES ASSUME IInv, [Next]_vars PROVE TurnIsKept' /\ NoLostWakeup'
    OBVIOUS
<1> USE DEF IInv, TurnIsKept, NoLostWakeup, shared, locals, history, LeaveClient, NotifyExec,
        Returned, ringVars
<1>1. CASE UNCHANGED vars
    BY <1>1 DEF vars
<1>2. CASE ReadQueue \/ ReadPaused \/ ReadBusyWait \/ Park
    BY <1>2 DEF ReadQueue, ReadPaused, ReadBusyWait, Park
<1>3. CASE TakeTask
    BY <1>3 DEF TakeTask
<1>4. CASE RunTask \/ PauseThread \/ SpuriousWakeup
    BY <1>4 DEF RunTask, PauseThread, SpuriousWakeup
<1>5. CASE Push \/ Flush \/ FlushWake
    BY <1>5 DEF Push, Flush, FlushWake
<1>6. CASE ClearPending \/ ToggleBusyWait \/ CallWait
    BY <1>6 DEF ClearPending, ToggleBusyWait, CallWait
<1>7. CASE (\E kind \in {"copy", "move", "movedFrom"} : CallAssign(kind)) \/ Wait
    BY <1>7 DEF CallAssign, Wait
<1>8. CASE CopyClears \/ CopyFills
    BY <1>8 DEF CopyClears, CopyFills
<1>9. CASE MoveInto \/ MovedFrom
    BY <1>9 DEF MoveInto, MovedFrom
<1>10. CASE CallDestructor \/ DestroyClears \/ DestroyWakes \/ Join
    BY <1>10 DEF CallDestructor, DestroyClears, DestroyWakes, Join
<1> QED
    BY <1>1, <1>2, <1>3, <1>4, <1>5, <1>6, <1>7, <1>8, <1>9, <1>10
    DEF Next, Thread, InCall, Client

-----------------------------------------------------------------------------
(* What is due. A step that keeps due, the queue, what was started and     *)
(* what was run over, and does not come to a pause keeps the bound too.    *)
LEMMA DueStands ==
    ASSUME IInv, due' \subseteq due, started' = started, lapped' = lapped,
           mTasks' = mTasks \/ due' \subseteq due \ ToSet(mTasks)
                            \/ due' \subseteq ToSet(started) \cup lapped,
           (mIsPaused' \/ pc' = "pause") =>
               (mIsPaused \/ pc = "pause" \/ due' \subseteq ToSet(started) \cup lapped)
    PROVE  DueIsKept'
<1>1. due \subseteq ToSet(started) \cup ToSet(mTasks) \cup lapped
    BY DEF IInv, DueIsKept
<1>2. mIsPaused \/ pc = "pause" => due \subseteq ToSet(started) \cup lapped
    BY DEF IInv, DueIsKept
<1>3. ToSet(started)' = ToSet(started)
    BY DEF ToSet
<1>4. mTasks' = mTasks => ToSet(mTasks)' = ToSet(mTasks)
    BY DEF ToSet
<1> QED BY <1>1, <1>2, <1>3, <1>4 DEF DueIsKept

(* A push that runs over the queue moves what was due in it to what was    *)
(* run over.                                                               *)
LEMMA DuePush == ASSUME IInv, Push PROVE DueIsKept'
<1>1. mTasks \in Seq(Nat) /\ pushed + 1 \in Nat
    BY Numbers
<1>2. /\ pushed' = pushed + 1
      /\ UNCHANGED <<due, started, mIsPaused, pc>>
    BY DEF Push, locals
<1>3. /\ due \subseteq ToSet(started) \cup ToSet(mTasks) \cup lapped
      /\ mIsPaused \/ pc = "pause" => due \subseteq ToSet(started) \cup lapped
    BY DEF IInv, DueIsKept
<1>4. ToSet(started)' = ToSet(started) /\ ToSet(mTasks)' = ToSet(mTasks')
    BY <1>2 DEF ToSet
<1>5. CASE mTasks' = Append(mTasks, pushed + 1) /\ UNCHANGED lapped
    <2>1. ToSet(mTasks') = ToSet(mTasks) \cup {pushed + 1}
        BY <1>1, <1>5, ElementsOfAppend
    <2> QED BY <1>2, <1>3, <1>4, <1>5, <2>1 DEF DueIsKept
<1>6. CASE UNCHANGED <<mTasks, lapped>>
    BY <1>2, <1>3, <1>4, <1>6 DEF DueIsKept
<1>7. CASE lapped' = lapped \cup ToSet(mTasks) \cup {pushed + 1}
    BY <1>2, <1>3, <1>4, <1>7 DEF DueIsKept
<1> QED BY <1>2, <1>5, <1>6, <1>7 DEF Push, Enqueue, ringVars

LEMMA DueStep == IInv /\ [Next]_vars => DueIsKept'
<1> SUFFICES ASSUME IInv, [Next]_vars PROVE DueIsKept'
    OBVIOUS
<1> USE DEF shared, locals, history, LeaveClient, Returned, ringVars, ClearQueue
<1>1. CASE UNCHANGED vars
    BY <1>1, DueStands DEF vars
<1>2. CASE ReadQueue \/ ReadPaused \/ ReadBusyWait \/ Park
    BY <1>2, DueStands DEF ReadQueue, ReadPaused, ReadBusyWait, Park
<1>3. CASE TakeTask
    <2>1. CASE mTasks = <<>> /\ pc' = "pause" /\ UNCHANGED <<ringVars, task, started>>
        <3>1. due \subseteq ToSet(started) \cup lapped
            BY <2>1, ElementsOfEmpty DEF IInv, DueIsKept
        <3> QED BY <1>3, <2>1, <3>1, DueStands DEF TakeTask
    <2>2. CASE /\ mTasks # <<>>
               /\ mTasks' = Tail(mTasks) /\ lapped' = lapped
               /\ started' = Append(started, Head(mTasks))
               /\ pc' = "run"
        <3>1. started \in Seq(Tasks) /\ mTasks \in Seq(Tasks) /\ Head(mTasks) \in Tasks
            BY <2>2, Queues DEF IInv, TypeOK, HistoryOK
        <3>2. ToSet(started') = ToSet(started) \cup {Head(mTasks)}
            BY <2>2, <3>1, ElementsOfAppend
        <3>3. ToSet(mTasks) = {Head(mTasks)} \cup ToSet(mTasks')
            BY <2>2, <3>1, ElementsOfTail
        <3>4. ~mIsPaused' /\ due' = due
            BY <1>3 DEF TakeTask, IInv, TurnIsKept
        <3>5. ToSet(started)' = ToSet(started') /\ ToSet(mTasks)' = ToSet(mTasks')
            BY DEF ToSet
        <3>6. due \subseteq ToSet(started) \cup ToSet(mTasks) \cup lapped
            BY DEF IInv, DueIsKept
        <3> QED BY <2>2, <3>2, <3>3, <3>4, <3>5, <3>6 DEF DueIsKept
    <2> QED BY <1>3, <2>1, <2>2 DEF TakeTask, Dequeue
<1>4. CASE RunTask \/ PauseThread \/ SpuriousWakeup
    BY <1>4, DueStands DEF RunTask, PauseThread, SpuriousWakeup
<1>5. CASE Push
    BY <1>5, DuePush
<1>6. CASE FlushWake
    <2>1. ~mIsPaused' /\ pc' # "pause"
        BY <1>6 DEF FlushWake, NotifyExec, IInv, TurnIsKept
    <2>2. ToSet(started)' = ToSet(started) /\ ToSet(mTasks)' = ToSet(mTasks)
        BY <1>6 DEF FlushWake, ToSet
    <2>3. due' = due \cup ToSet(mTasks) /\ lapped' = lapped
        BY <1>6 DEF FlushWake
    <2> QED BY <2>1, <2>2, <2>3 DEF IInv, DueIsKept
<1>7. CASE Flush \/ ToggleBusyWait \/ CallWait \/ Wait \/ CallDestructor \/ Join
             \/ \E kind \in {"copy", "move", "movedFrom"} : CallAssign(kind)
    BY <1>7, DueStands DEF Flush, ToggleBusyWait, CallWait, Wait, CallDestructor, Join,
       CallAssign
<1>8. CASE ClearPending
    BY <1>8, DueStands DEF ClearPending
<1>9. CASE CopyClears \/ MoveInto \/ MovedFrom
    <2>1. mIsPaused
        BY <1>9 DEF CopyClears, MoveInto, MovedFrom, IInv, TurnIsKept
    <2> QED BY <1>9, <2>1, DueStands DEF CopyClears, MoveInto, MovedFrom
<1>10. CASE CopyFills \/ DestroyClears
    <2>1. mIsPaused
        BY <1>10 DEF CopyFills, DestroyClears, IInv, TurnIsKept
    <2>2. due \subseteq ToSet(started) \cup lapped
        BY <2>1 DEF IInv, DueIsKept
    <2> QED BY <1>10, <2>1, <2>2, DueStands DEF CopyFills, DestroyClears
<1>11. CASE DestroyWakes
    <2>1. ~mIsPaused' /\ pc' # "pause"
        BY <1>11 DEF DestroyWakes, NotifyExec, IInv, TurnIsKept
    <2> QED BY <1>11, <2>1, DueStands DEF DestroyWakes
<1> QED
    BY <1>1, <1>2, <1>3, <1>4, <1>5, <1>6, <1>7, <1>8, <1>9, <1>10, <1>11
    DEF Next, Thread, InCall, Client

-----------------------------------------------------------------------------
LEMMA NextIInv == IInv /\ [Next]_vars => IInv'
<1>1. IInv /\ [Next]_vars => TypeOK'
    BY TypeParts, FlagsStep, QueueStep, RingStep DEF IInv
<1>2. IInv /\ [Next]_vars => HistoryOK'
    BY TypeParts, QueueStep DEF IInv
<1>3. IInv /\ [Next]_vars => Ordered(started \o mTasks, pushed)'
    BY OrderStep DEF Ordered, TasksInOrder
<1> QED BY <1>1, <1>2, <1>3, TurnStep, DueStep DEF IInv

-----------------------------------------------------------------------------
(* The pool. It speaks of the elements of a queue with an operator of its  *)
(* own, and of the order of the tasks and of the ring buffer too.          *)
LEMMA SameWords ==
    /\ \A s : Pool!ToSet(s) = ToSet(s)
    /\ \A s : Pool!TasksInOrder(s) <=> TasksInOrder(s)
BY DEF Pool!ToSet, ToSet, Pool!TasksInOrder, TasksInOrder

LEMMA SameRing ==
    /\ Pool!RingOK <=> RingOK
    /\ Pool!HasCapacity <=> HasCapacity
    /\ Pool!Reserved(2) = Reserved(2) /\ Pool!NoStorage = NoStorage
    /\ Pool!OtherRings = OtherRings
    /\ Pool!Dequeue <=> Dequeue
    /\ Pool!ClearQueue <=> ClearQueue
<1> USE DEF Pool!Ring, Ring, Pool!NoStorage, NoStorage, Pool!Reserved, Reserved
<1>1. (Pool!RingOK <=> RingOK) /\ (Pool!HasCapacity <=> HasCapacity)
    BY DEF Pool!RingOK, RingOK, Pool!HasCapacity, HasCapacity
<1>2. Pool!Reserved(2) = Reserved(2) /\ Pool!NoStorage = NoStorage
    OBVIOUS
<1>3. Pool!OtherRings = OtherRings
    BY DEF Pool!OtherRings, OtherRings
<1>4. (Pool!Dequeue <=> Dequeue) /\ (Pool!ClearQueue <=> ClearQueue)
    BY DEF Pool!Dequeue, Dequeue, Pool!ClearQueue, ClearQueue
<1> QED BY <1>1, <1>2, <1>3, <1>4

LEMMA SameEnqueue == \A k : Pool!Enqueue(k) <=> Enqueue(k)
BY SameWords
DEF Pool!Enqueue, Enqueue, Pool!Full, Full, Pool!mTail, mTail, Pool!NoSlotLeft, NoSlotLeft,
    Pool!Grown, Grown, Pool!Reserved, Reserved, Pool!Ring, Ring, Pool!ringVars, ringVars

PoolNumbers == started \in Seq(Nat) /\ mTasks \in Seq(Nat) /\ pushed \in Nat

InOrder == Ordered(started \o mTasks, pushed)

\* What was dropped was pushed before, and is not in the queue; what was run
\* over was pushed before.
DroppedIsGone ==
    /\ dropped \subseteq 0 .. pushed /\ dropped \cap ToSet(mTasks) = {}
    /\ lapped \subseteq 0 .. pushed

DueIsNotDropped ==
    /\ due \cap dropped = {}
    /\ due \subseteq ToSet(mTasks) \cup ToSet(started) \cup lapped

NothingDueWhilePaused ==
    /\ mIsPaused => due \cap ToSet(mTasks) = {}
    /\ client = "joining" => mTasks = <<>>

PoolIInv ==
    /\ PoolNumbers /\ InOrder /\ DroppedIsGone
    /\ DueIsNotDropped /\ NothingDueWhilePaused

-----------------------------------------------------------------------------
LEMMA PoolInitIInv == Pool!Init => PoolIInv
<1> SUFFICES ASSUME Pool!Init PROVE PoolIInv
    OBVIOUS
<1>1. PoolNumbers
    BY DEF Pool!Init, PoolNumbers
<1>2. InOrder
    <2>1. started \o mTasks = <<>>
        BY DEF Pool!Init
    <2> QED BY <2>1 DEF InOrder, Ordered, TasksInOrder
<1>3. DroppedIsGone /\ DueIsNotDropped /\ NothingDueWhilePaused
    BY DEF Pool!Init, DroppedIsGone, DueIsNotDropped, NothingDueWhilePaused
<1> QED BY <1>1, <1>2, <1>3 DEF PoolIInv

(* What is in the queue has been pushed, and so has what was started.      *)
LEMMA AllWerePushed ==
    ASSUME PoolIInv
    PROVE  ToSet(mTasks) \subseteq 0 .. pushed /\ ToSet(started) \subseteq 0 .. pushed
BY OrderedIsBounded DEF PoolIInv, PoolNumbers, InOrder

(* The primed operators are the operators of the primed variables.         *)
LEMMA PrimedElements ==
    /\ ToSet(mTasks)' = ToSet(mTasks') /\ ToSet(started)' = ToSet(started')
    /\ Ordered(started \o mTasks, pushed)' <=> Ordered(started' \o mTasks', pushed')
BY DEF ToSet, Ordered, TasksInOrder

-----------------------------------------------------------------------------
(* The ways a step changes the queue and what is known of it               *)

(* It leaves both alone, and pauses the pool only if the queue is empty.   *)
LEMMA QueueStands ==
    ASSUME PoolIInv, UNCHANGED <<started, ringVars, pushed, due, dropped>>,
           mIsPaused' => mIsPaused \/ mTasks = <<>>,
           client' # "joining"
    PROVE  PoolIInv'
<1> USE DEF ringVars
<1>1. PoolNumbers' /\ InOrder'
    BY PrimedElements DEF PoolIInv, PoolNumbers, InOrder
<1>2. DroppedIsGone' /\ DueIsNotDropped'
    BY PrimedElements DEF PoolIInv, DroppedIsGone, DueIsNotDropped
<1>3. NothingDueWhilePaused'
    BY PrimedElements, ElementsOfEmpty DEF PoolIInv, NothingDueWhilePaused
<1> QED BY <1>1, <1>2, <1>3 DEF PoolIInv

LEMMA WorkersStand ==
    ASSUME PoolIInv, UNCHANGED <<started, ringVars, pushed, due, dropped, mIsPaused, client>>
    PROVE  PoolIInv'
<1> USE DEF ringVars
<1>1. PoolNumbers' /\ InOrder'
    BY PrimedElements DEF PoolIInv, PoolNumbers, InOrder
<1>2. DroppedIsGone' /\ DueIsNotDropped' /\ NothingDueWhilePaused'
    BY PrimedElements DEF PoolIInv, DroppedIsGone, DueIsNotDropped, NothingDueWhilePaused
<1> QED BY <1>1, <1>2 DEF PoolIInv

LEMMA TakeStep == ASSUME PoolIInv, NEW w \in Pool!Workers, Pool!TakeTask(w) PROVE PoolIInv'
<1>1. CASE mTasks = <<>> /\ UNCHANGED <<ringVars, task, started>>
    BY <1>1, WorkersStand DEF Pool!TakeTask
<1>2. CASE mTasks # <<>> /\ Dequeue /\ started' = Append(started, Head(mTasks))
    <2>1. /\ started \in Seq(Nat) /\ mTasks \in Seq(Nat) /\ pushed \in Nat
          /\ Head(mTasks) \in Nat
          /\ mTasks' = Tail(mTasks)
          /\ UNCHANGED <<lapped, pushed, due, dropped, mIsPaused, client>>
        BY <1>2 DEF PoolIInv, PoolNumbers, Pool!TakeTask, Dequeue
    <2>2. /\ ToSet(started') = ToSet(started) \cup {Head(mTasks)}
          /\ ToSet(mTasks) = {Head(mTasks)} \cup ToSet(mTasks')
        BY <1>2, <2>1, ElementsOfAppend, ElementsOfTail
    <2>3. PoolNumbers'
        BY <1>2, <2>1 DEF PoolNumbers
    <2>4. InOrder'
        <3>1. Ordered(Append(started, Head(mTasks)) \o Tail(mTasks), pushed)
            BY <1>2, <2>1, OrderedAfter DEF PoolIInv, InOrder
        <3> QED BY <1>2, <2>1, <3>1, PrimedElements DEF InOrder
    <2>5. DroppedIsGone' /\ DueIsNotDropped'
        BY <2>1, <2>2, PrimedElements DEF PoolIInv, DroppedIsGone, DueIsNotDropped
    <2>6. NothingDueWhilePaused'
        BY <1>2, <2>1, <2>2, PrimedElements DEF PoolIInv, NothingDueWhilePaused
    <2> QED BY <2>3, <2>4, <2>5, <2>6 DEF PoolIInv
<1> QED BY <1>1, <1>2, SameRing DEF Pool!TakeTask, Pool!ringVars, ringVars

(* A push appends its task, runs over the queue, or finds no memory.       *)
LEMMA PushStep == ASSUME PoolIInv, Pool!Push PROVE PoolIInv'
<1>1. /\ started \in Seq(Nat) /\ mTasks \in Seq(Nat) /\ pushed \in Nat
      /\ pushed' = pushed + 1
      /\ UNCHANGED <<started, dropped, mIsPaused>>
      /\ client' = "idle"
      /\ due' = IF mIsPaused THEN due ELSE due \cup ToSet(mTasks')
    BY SameWords DEF PoolIInv, PoolNumbers, Pool!Push
<1>2. \/ mTasks' = Append(mTasks, pushed + 1) /\ UNCHANGED lapped
      \/ UNCHANGED <<mTasks, lapped>>
      \/ mTasks' = <<>> /\ lapped' = lapped \cup ToSet(mTasks) \cup {pushed + 1}
    BY <1>1, SameWords DEF Pool!Push, Pool!Enqueue, Pool!ringVars
<1>3. PoolNumbers'
    <2>1. pushed + 1 \in Nat /\ <<>> \in Seq(Nat)
        BY <1>1
    <2>2. Append(mTasks, pushed + 1) \in Seq(Nat)
        BY <1>1, <2>1
    <2> QED BY <1>1, <1>2, <2>1, <2>2 DEF PoolNumbers
<1>4. InOrder'
    <2>1. /\ Ordered(started \o Append(mTasks, pushed + 1), pushed + 1)
          /\ Ordered(started \o mTasks, pushed + 1)
          /\ Ordered(started \o <<>>, pushed + 1)
        BY <1>1, OrderedAfter DEF PoolIInv, InOrder
    <2> QED BY <1>1, <1>2, <2>1, PrimedElements DEF InOrder
<1>5. pushed + 1 \notin dropped /\ dropped \subseteq 0 .. pushed'
    BY <1>1 DEF PoolIInv, DroppedIsGone
<1>6. CASE mTasks' = Append(mTasks, pushed + 1) /\ UNCHANGED lapped
    <2>1. pushed + 1 \in Nat
        BY <1>1
    <2>2. ToSet(mTasks') = ToSet(mTasks) \cup {pushed + 1}
        BY <1>1, <1>6, <2>1, ElementsOfAppend
    <2>3. DroppedIsGone' /\ DueIsNotDropped'
        BY <1>1, <1>5, <1>6, <2>2, PrimedElements DEF PoolIInv, DroppedIsGone, DueIsNotDropped
    <2>4. mIsPaused => pushed + 1 \notin due \/ pushed + 1 \in lapped
        BY <1>1, AllWerePushed DEF PoolIInv, DueIsNotDropped
    <2>5. lapped \subseteq 0 .. pushed
        BY DEF PoolIInv, DroppedIsGone
    <2>6. NothingDueWhilePaused'
        BY <1>1, <2>2, <2>4, <2>5, PrimedElements DEF PoolIInv, NothingDueWhilePaused
    <2> QED BY <1>3, <1>4, <2>3, <2>6 DEF PoolIInv
<1>7. CASE UNCHANGED <<mTasks, lapped>>
    BY <1>1, <1>3, <1>4, <1>5, <1>7, PrimedElements
    DEF PoolIInv, DroppedIsGone, DueIsNotDropped, NothingDueWhilePaused
<1>8. CASE mTasks' = <<>> /\ lapped' = lapped \cup ToSet(mTasks) \cup {pushed + 1}
    <2>1. ToSet(mTasks') = {}
        BY <1>8, ElementsOfEmpty
    <2>2. ToSet(mTasks) \cup lapped \subseteq 0 .. pushed
        BY AllWerePushed DEF PoolIInv, DroppedIsGone
    <2>3. lapped' \subseteq 0 .. pushed'
        BY <1>1, <1>8, <2>2
    <2>4. due' = due
        BY <1>1, <2>1
    <2>5. DroppedIsGone' /\ DueIsNotDropped'
        BY <1>1, <1>5, <1>8, <2>1, <2>3, <2>4, PrimedElements
        DEF PoolIInv, DroppedIsGone, DueIsNotDropped
    <2>6. NothingDueWhilePaused'
        BY <1>1, <2>1, PrimedElements DEF NothingDueWhilePaused
    <2> QED BY <1>3, <1>4, <2>5, <2>6 DEF PoolIInv
<1> QED BY <1>2, <1>6, <1>7, <1>8

LEMMA FlushStep == ASSUME PoolIInv, Pool!FlushWake PROVE PoolIInv'
<1>1. /\ UNCHANGED <<started, mTasks, lapped, pushed, dropped>>
      /\ ~mIsPaused' /\ client' = "idle"
      /\ due' = due \cup ToSet(mTasks)
    BY SameWords DEF Pool!FlushWake, Pool!ringVars
<1>2. PoolNumbers' /\ InOrder'
    BY <1>1, PrimedElements DEF PoolIInv, PoolNumbers, InOrder
<1>3. DroppedIsGone' /\ DueIsNotDropped' /\ NothingDueWhilePaused'
    BY <1>1, PrimedElements
    DEF PoolIInv, DroppedIsGone, DueIsNotDropped, NothingDueWhilePaused
<1> QED BY <1>2, <1>3 DEF PoolIInv

(* The queue is emptied: by clear_pending, which takes what is due with    *)
(* it, or by stop_threads, while nothing in it is due.                     *)
LEMMA EmptyStep == ASSUME PoolIInv, Pool!ClearPending \/ Pool!StopClear PROVE PoolIInv'
<1>1. /\ started \in Seq(Nat) /\ mTasks \in Seq(Nat) /\ pushed \in Nat
      /\ UNCHANGED <<started, pushed, lapped>> /\ mTasks' = <<>>
    BY DEF PoolIInv, PoolNumbers, Pool!ClearPending, Pool!StopClear, Pool!ClearQueue
<1>2. ToSet(mTasks') = {}
    BY <1>1, ElementsOfEmpty
<1>3. PoolNumbers'
    BY <1>1 DEF PoolNumbers
<1>4. InOrder'
    <2>1. Ordered(started \o <<>>, pushed)
        BY <1>1, OrderedAfter DEF PoolIInv, InOrder
    <2> QED BY <1>1, <2>1, PrimedElements DEF InOrder
<1>5. CASE Pool!ClearPending
    <2>1. due' = due \ ToSet(mTasks) /\ dropped' = dropped
        BY <1>5, SameWords DEF Pool!ClearPending
    <2> QED BY <1>1, <1>2, <1>3, <1>4, <2>1, PrimedElements
            DEF PoolIInv, DroppedIsGone, DueIsNotDropped, NothingDueWhilePaused
<1>6. CASE Pool!StopClear
    <2>1. due' = due /\ dropped' = dropped \cup ToSet(mTasks) /\ mIsPaused
        BY <1>6, SameWords DEF Pool!StopClear
    <2>2. due \cap ToSet(mTasks) = {}
        BY <2>1 DEF PoolIInv, NothingDueWhilePaused
    <2> QED BY <1>1, <1>2, <1>3, <1>4, <2>1, <2>2, AllWerePushed, PrimedElements
            DEF PoolIInv, DroppedIsGone, DueIsNotDropped, NothingDueWhilePaused
<1> QED BY <1>5, <1>6

LEMMA JoinStep == ASSUME PoolIInv, Pool!Join PROVE PoolIInv'
<1>1. mTasks = <<>> /\ UNCHANGED <<started, lapped, due, dropped>> /\ client' # "joining"
    BY DEF PoolIInv, NothingDueWhilePaused, Pool!Join
<1>2. CASE UNCHANGED <<pushed, mTasks>>
    <2>1. PoolNumbers' /\ InOrder'
        BY <1>1, <1>2, PrimedElements DEF PoolIInv, PoolNumbers, InOrder
    <2>2. DroppedIsGone' /\ DueIsNotDropped'
        BY <1>1, <1>2, PrimedElements DEF PoolIInv, DroppedIsGone, DueIsNotDropped
    <2>3. NothingDueWhilePaused'
        BY <1>1, <1>2, PrimedElements, ElementsOfEmpty DEF NothingDueWhilePaused
    <2> QED BY <2>1, <2>2, <2>3 DEF PoolIInv
<1>3. CASE pushed' = pushed + 1 /\ mTasks' = <<pushed + 1>>
    <2>1. started \in Seq(Nat) /\ mTasks \in Seq(Nat) /\ pushed \in Nat
        BY DEF PoolIInv, PoolNumbers
    <2>2. ToSet(mTasks') = {pushed + 1}
        BY <1>3, ElementsOfOne, Zenon
    <2>3. PoolNumbers'
        BY <1>1, <1>3, <2>1 DEF PoolNumbers
    <2>4. InOrder'
        <3>1. Ordered(started \o <<pushed + 1>>, pushed + 1)
            BY <2>1, OrderedAfter DEF PoolIInv, InOrder
        <3> QED BY <1>1, <1>3, <3>1, PrimedElements DEF InOrder
    <2>5. /\ due \subseteq ToSet(started) \cup lapped
          /\ pushed + 1 \notin due /\ pushed + 1 \notin dropped
          /\ lapped \subseteq 0 .. pushed + 1
        BY <1>1, <2>1, AllWerePushed, ElementsOfEmpty
        DEF PoolIInv, DueIsNotDropped, DroppedIsGone
    <2>6. DroppedIsGone' /\ DueIsNotDropped' /\ NothingDueWhilePaused'
        BY <1>1, <1>3, <2>1, <2>2, <2>5, PrimedElements
        DEF PoolIInv, DroppedIsGone, DueIsNotDropped, NothingDueWhilePaused
    <2> QED BY <2>3, <2>4, <2>6 DEF PoolIInv
<1> QED BY <1>2, <1>3 DEF Pool!Join

-----------------------------------------------------------------------------
(* The last worker out looks at the queue again before it pauses the pool. *)
LEMMA PauseStep == ASSUME PoolIInv, NEW w \in Pool!Workers, Pool!PausePool(w) PROVE PoolIInv'
<1>1. UNCHANGED <<started, ringVars, pushed, due, dropped>> /\ UNCHANGED <<mTasks, lapped>>
    BY DEF Pool!PausePool, Pool!history, Pool!ringVars, ringVars
<1>2. CASE mTasks = <<>>
    <2>1. client' = "joining" => client = "joining"
        BY DEF Pool!PausePool, Pool!NotifyWait
    <2>2. PoolNumbers' /\ InOrder' /\ DroppedIsGone' /\ DueIsNotDropped'
        BY <1>1, PrimedElements
        DEF PoolIInv, PoolNumbers, InOrder, DroppedIsGone, DueIsNotDropped
    <2>3. NothingDueWhilePaused'
        BY <1>1, <1>2, <2>1, PrimedElements, ElementsOfEmpty DEF PoolIInv, NothingDueWhilePaused
    <2> QED BY <2>2, <2>3 DEF PoolIInv
<1>3. CASE mTasks # <<>>
    BY <1>1, <1>3, WorkersStand DEF Pool!PausePool
<1> QED BY <1>2, <1>3

LEMMA PoolNextIInv == PoolIInv /\ [Pool!Next]_(Pool!vars) => PoolIInv'
<1> SUFFICES ASSUME PoolIInv, [Pool!Next]_(Pool!vars) PROVE PoolIInv'
    OBVIOUS
<1> USE DEF Pool!shared, Pool!locals, Pool!history, Pool!LeaveClient, Pool!ringVars, ringVars
<1>1. CASE UNCHANGED Pool!vars
    BY <1>1, WorkersStand DEF Pool!vars
<1>2. ASSUME NEW w \in Pool!Workers, Pool!Worker(w) \/ Pool!SpuriousWakeup(w) PROVE PoolIInv'
    <2>1. CASE \/ Pool!ReadQueue(w) \/ Pool!ReadPaused(w) \/ Pool!ReadBusyWait(w)
               \/ Pool!Park(w) \/ Pool!SpuriousWakeup(w)
        BY <2>1, WorkersStand
        DEF Pool!ReadQueue, Pool!ReadPaused, Pool!ReadBusyWait, Pool!Park, Pool!SpuriousWakeup
    <2>2. CASE Pool!EnterExecute(w) \/ Pool!RunTask(w) \/ Pool!LeaveExecute(w)
        BY <2>2, WorkersStand DEF Pool!EnterExecute, Pool!RunTask, Pool!LeaveExecute
    <2> QED BY <1>2, <2>1, <2>2, TakeStep, PauseStep DEF Pool!Worker
<1>3. CASE Pool!Flush \/ Pool!ToggleBusyWait \/ Pool!CallWait \/ Pool!CallDestructor
    BY <1>3, QueueStands DEF Pool!Flush, Pool!ToggleBusyWait, Pool!CallWait, Pool!CallDestructor
<1>4. ASSUME NEW n \in 0 .. MaxWorkers, Pool!CallConcurrency(n) PROVE PoolIInv'
    BY <1>4, QueueStands DEF Pool!CallConcurrency
<1>5. ASSUME NEW n \in 0 .. MaxWorkers, NEW stored \in {"none", "empty", "task"},
             Pool!CallAssign(n, stored)
      PROVE  PoolIInv'
    BY <1>5, QueueStands DEF Pool!CallAssign
<1>6. CASE Pool!Wait
    BY <1>6, QueueStands DEF Pool!Wait
<1> QED
    BY <1>1, <1>2, <1>3, <1>4, <1>5, <1>6, PushStep, FlushStep, EmptyStep, JoinStep
    DEF Pool!Next, Pool!InCall, Pool!Client

-----------------------------------------------------------------------------
(* The typing of a pool, and the count of the workers that run tasks. Join *)
(* starts the count and the workers anew: all have ended, so none of them  *)
(* is counted or holds a task. The task an assignment brings along has a   *)
(* number because nothing is pushed while a call is under way (CallOK).    *)
PoolFlagsOK ==
    /\ mBusyWait \in BOOLEAN /\ mIsPaused \in BOOLEAN
    /\ mTasks \in Seq(Tasks)
    /\ pushed \in 0 .. MaxTasks

CallOK ==
    /\ call.threads \in 0 .. MaxWorkers
    /\ client \in {"idle", "flushing"} => call = Pool!NoCall
    /\ call.stored \in {"none", "reserved", "empty", "task"}
    /\ call.stored = "task" => pushed < MaxTasks

WorkersOK ==
    /\ pc \in [Pool!Workers -> {"none", "loop", "decide", "nothingToDo", "park", "parked",
                                "enter", "take", "run", "leave", "pause", "exited"}]
    /\ mThreads \in 0 .. MaxWorkers
    /\ \A w \in Pool!Workers : w > mThreads <=> pc[w] = "none"
    /\ task \in [Pool!Workers -> Tasks \cup {0}]
    /\ \A w \in Pool!Workers : task[w] # 0 <=> pc[w] = "run"

RunningIsCounted == mThreadsRunning = Cardinality(Pool!Executing)

PoolTypes == PoolFlagsOK /\ RingOK /\ CallOK /\ WorkersOK /\ RunningIsCounted

(* Cardinality means the same in the instance.                             *)
LEMMA SameCount == ASSUME NEW S PROVE Pool!Cardinality(S) = Cardinality(S)
BY Zenon DEF Pool!Cardinality, Cardinality

LEMMA PoolTypesAreTypes == PoolTypes => Pool!TypeOK
<1>1. Pool!Tasks = Tasks
    BY DEF Pool!Tasks, Tasks
<1> SUFFICES ASSUME PoolTypes PROVE Pool!TypeOK
    OBVIOUS
<1>2. {mBusyWait, mIsPaused} \subseteq BOOLEAN
    BY Zenon DEF PoolTypes, PoolFlagsOK
<1>3. mTasks \in Seq(Pool!Tasks) /\ Pool!RingOK
    BY <1>1, SameRing DEF PoolTypes, PoolFlagsOK
<1>4. mThreadsRunning = Pool!Cardinality(Pool!Executing)
    BY SameCount DEF PoolTypes, RunningIsCounted
<1>5. mThreads \in 0 .. MaxWorkers /\ \A w \in Pool!Workers : w > mThreads <=> pc[w] = "none"
    BY Zenon DEF PoolTypes, WorkersOK
<1>6. task \in [Pool!Workers -> Pool!Tasks \cup {0}]
    BY <1>1, Zenon DEF PoolTypes, WorkersOK
<1>7. \A w \in Pool!Workers : task[w] # 0 <=> pc[w] = "run"
    BY Zenon DEF PoolTypes, WorkersOK
<1> QED
    BY <1>2, <1>3, <1>4, <1>5, <1>6, <1>7, Zenon DEF Pool!TypeOK

LEMMA ExecutingFinite == IsFiniteSet(Pool!Executing) /\ Cardinality(Pool!Executing) \in Nat
<1>1. IsFiniteSet(Pool!Workers)
    BY PoolBoundsAreNats, FS_Interval DEF Pool!Workers
<1> QED BY <1>1, FS_Subset, FS_CardinalityType DEF Pool!Executing

LEMMA InitPoolTypes == Pool!Init => PoolTypes
<1> SUFFICES ASSUME Pool!Init PROVE PoolTypes
    OBVIOUS
<1>1. PoolFlagsOK
    BY Queues, ModesAreBooleans, BoundsAreNats DEF Pool!Init, PoolFlagsOK
<1>2. CallOK
    BY PoolBoundsAreNats DEF Pool!Init, CallOK, Pool!NoCall, Pool!Call
<1>3. WorkersOK
    BY PoolBoundsAreNats, InitialFit DEF Pool!Init, WorkersOK, Pool!Spawned, Pool!Workers, Tasks
<1>4. Pool!Executing = {}
    BY DEF Pool!Init, Pool!Spawned, Pool!Executing
<1>5. RingOK
    BY SameRing DEF Pool!Init, RingOK, Reserved, Ring
<1> QED BY <1>1, <1>2, <1>3, <1>4, <1>5, FS_EmptySet DEF PoolTypes, RunningIsCounted, Pool!Init

LEMMA PoolFlagsStep == PoolTypes /\ PoolIInv /\ [Pool!Next]_(Pool!vars) => PoolFlagsOK' /\ CallOK'
<1> SUFFICES ASSUME PoolTypes, PoolIInv, [Pool!Next]_(Pool!vars) PROVE PoolFlagsOK' /\ CallOK'
    OBVIOUS
<1>0. /\ pushed < MaxTasks => pushed + 1 \in Tasks /\ pushed + 1 \in 0 .. MaxTasks
      /\ 0 \in 0 .. MaxWorkers
    BY BoundsAreNats, PoolBoundsAreNats DEF PoolTypes, PoolFlagsOK, Tasks
<1> USE Queues DEF PoolTypes, PoolFlagsOK, CallOK, Pool!shared, Pool!locals, Pool!history,
        Pool!LeaveClient, Pool!Call, Pool!NoCall, Pool!ringVars, Pool!ClearQueue
<1>1. CASE UNCHANGED Pool!vars
    BY <1>1 DEF Pool!vars
<1>2. ASSUME NEW w \in Pool!Workers, Pool!Worker(w) \/ Pool!SpuriousWakeup(w)
      PROVE  PoolFlagsOK' /\ CallOK'
    <2>1. CASE \/ Pool!ReadQueue(w) \/ Pool!ReadPaused(w) \/ Pool!ReadBusyWait(w)
               \/ Pool!Park(w) \/ Pool!SpuriousWakeup(w)
        BY <2>1 DEF Pool!ReadQueue, Pool!ReadPaused, Pool!ReadBusyWait, Pool!Park,
           Pool!SpuriousWakeup
    <2>2. CASE Pool!EnterExecute(w) \/ Pool!RunTask(w) \/ Pool!LeaveExecute(w)
        BY <2>2 DEF Pool!EnterExecute, Pool!RunTask, Pool!LeaveExecute
    <2>3. CASE Pool!TakeTask(w)
        BY <2>3 DEF Pool!TakeTask, Pool!Dequeue
    <2>4. CASE Pool!PausePool(w)
        BY <2>4 DEF Pool!PausePool, Pool!NotifyWait
    <2> QED BY <1>2, <2>1, <2>2, <2>3, <2>4 DEF Pool!Worker
<1>3. CASE Pool!Push
    <2>1. pushed' = pushed + 1 /\ UNCHANGED <<mBusyWait, mIsPaused, client, call>>
        BY <1>3 DEF Pool!Push
    <2>2. pushed < MaxTasks /\ call = Pool!NoCall
        BY <1>3 DEF Pool!Push
    <2>3. mTasks' \in {Append(mTasks, pushed + 1), mTasks, <<>>}
        BY <1>3, <2>1 DEF Pool!Push, Pool!Enqueue
    <2>4. mTasks' \in Seq(Tasks)
        BY <1>0, <2>2, <2>3
    <2> QED BY <1>0, <2>1, <2>2, <2>4
<1>4. CASE Pool!Flush \/ Pool!FlushWake \/ Pool!ClearPending
    BY <1>4 DEF Pool!Flush, Pool!FlushWake, Pool!ClearPending
<1>5. CASE Pool!ToggleBusyWait
    BY <1>5, ModesAreBooleans DEF Pool!ToggleBusyWait
<1>6. CASE Pool!CallWait \/ Pool!CallDestructor
    BY <1>0, <1>6 DEF Pool!CallWait, Pool!CallDestructor, WorkersOK
<1>7. ASSUME NEW k \in 0 .. MaxWorkers, Pool!CallConcurrency(k) PROVE PoolFlagsOK' /\ CallOK'
    BY <1>7 DEF Pool!CallConcurrency
<1>8. ASSUME NEW k \in 0 .. MaxWorkers, NEW stored \in {"none", "empty", "task"},
             Pool!CallAssign(k, stored)
      PROVE  PoolFlagsOK' /\ CallOK'
    BY <1>8 DEF Pool!CallAssign
<1>9. CASE Pool!Wait
    <2>1. UNCHANGED <<mBusyWait, mIsPaused, mTasks, pushed>>
        BY <1>9 DEF Pool!Wait
    <2>2. \/ client' = "idle" /\ call' = Pool!NoCall
          \/ client' \in {"stopping", "sleeping"} /\ UNCHANGED call
        BY <1>9 DEF Pool!Wait
    <2> QED BY <1>0, <2>1, <2>2
<1>11. CASE Pool!StopClear
    BY <1>0, <1>11 DEF Pool!StopClear
<1>10. CASE Pool!Join
    <2>1. mBusyWait' \in BOOLEAN /\ mIsPaused' \in BOOLEAN
        BY <1>10, ModesAreBooleans DEF Pool!Join
    <2>2. CallOK'
        BY <1>0, <1>10 DEF Pool!Join
    <2>3. CASE call.stored = "task" /\ pushed' = pushed + 1 /\ mTasks' = <<pushed + 1>>
        BY <1>0, <2>1, <2>2, <2>3
    <2>4. CASE call.stored # "task" /\ UNCHANGED <<pushed, mTasks>>
        <3>1. mTasks = <<>>
            BY <1>10 DEF Pool!Join, PoolIInv, NothingDueWhilePaused
        <3> QED BY <2>1, <2>2, <2>4, <3>1
    <2> QED BY <1>10, <2>3, <2>4 DEF Pool!Join
<1> QED
    BY <1>1, <1>2, <1>3, <1>4, <1>5, <1>6, <1>7, <1>8, <1>9, <1>10, <1>11
    DEF Pool!Next, Pool!InCall, Pool!Client

LEMMA PoolRingStep == PoolTypes /\ PoolIInv /\ [Pool!Next]_(Pool!vars) => RingOK'
<1> SUFFICES ASSUME PoolTypes, PoolIInv, [Pool!Next]_(Pool!vars) PROVE RingOK'
    OBVIOUS
<1>0. mTasks \in Seq(Nat) /\ RingOK /\ pushed \in Nat /\ pushed + 1 \in Nat
    BY DEF PoolTypes, PoolIInv, PoolNumbers
<1> USE DEF Pool!shared, Pool!LeaveClient, Pool!ringVars, ringVars
<1>1. CASE UNCHANGED ringVars
    BY <1>0, <1>1, RingAfterCall
<1>2. ASSUME NEW w \in Pool!Workers, Pool!Worker(w) \/ Pool!SpuriousWakeup(w)
      PROVE  RingOK'
    <2>1. CASE Pool!TakeTask(w)
        BY <1>0, <1>1, <2>1, RingAfterCall, SameRing DEF Pool!TakeTask
    <2>2. CASE \/ Pool!ReadQueue(w) \/ Pool!ReadPaused(w) \/ Pool!ReadBusyWait(w)
               \/ Pool!Park(w) \/ Pool!SpuriousWakeup(w) \/ Pool!EnterExecute(w)
               \/ Pool!RunTask(w) \/ Pool!LeaveExecute(w) \/ Pool!PausePool(w)
        BY <1>1, <2>2 DEF Pool!ReadQueue, Pool!ReadPaused, Pool!ReadBusyWait, Pool!Park,
           Pool!SpuriousWakeup, Pool!EnterExecute, Pool!RunTask, Pool!LeaveExecute,
           Pool!PausePool
    <2> QED BY <1>2, <2>1, <2>2 DEF Pool!Worker
<1>3. CASE Pool!Push
    <2>1. HasCapacity /\ \E k \in Nat : Pool!Enqueue(k)
        BY <1>0, <1>3, SameRing DEF Pool!Push, Pool!Enqueue
    <2> QED BY <1>0, <2>1, SameEnqueue, RingAfterCall
<1>4. CASE Pool!ClearPending \/ Pool!StopClear
    BY <1>0, <1>4, SameRing, RingAfterCall DEF Pool!ClearPending, Pool!StopClear
<1>5. CASE Pool!Flush \/ Pool!FlushWake \/ Pool!ToggleBusyWait \/ Pool!CallWait
             \/ Pool!CallDestructor \/ Pool!Wait
    BY <1>1, <1>5 DEF Pool!Flush, Pool!FlushWake, Pool!ToggleBusyWait, Pool!CallWait,
       Pool!CallDestructor, Pool!Wait
<1>6. ASSUME NEW k \in 0 .. MaxWorkers, Pool!CallConcurrency(k) PROVE RingOK'
    BY <1>1, <1>6 DEF Pool!CallConcurrency
<1>7. ASSUME NEW k \in 0 .. MaxWorkers, NEW stored \in {"none", "empty", "task"},
             Pool!CallAssign(k, stored)
      PROVE  RingOK'
    BY <1>1, <1>7 DEF Pool!CallAssign
<1>8. CASE Pool!Join
    <2>1. /\ ring' \in Pool!RingsOf(call.stored)
          /\ \/ call.stored = "task" /\ mTasks' = <<pushed + 1>>
             \/ call.stored # "task" /\ mTasks' = mTasks
          /\ mTasks = <<>>
          /\ call.stored \in {"none", "reserved", "empty", "task"}
        BY <1>8 DEF Pool!Join, PoolIInv, NothingDueWhilePaused, PoolTypes, CallOK
    <2>2. /\ Pool!RingsOf(call.stored) \subseteq OtherRings \cup {NoStorage, Reserved(2)}
          /\ call.stored = "task" => Pool!RingsOf(call.stored) = OtherRings
        BY <2>1, SameRing DEF Pool!RingsOf
    <2> QED BY <1>0, <2>1, <2>2, RingAfterAssign
<1>9. CASE UNCHANGED Pool!vars
    BY <1>1, <1>9 DEF Pool!vars
<1> QED
    BY <1>2, <1>3, <1>4, <1>5, <1>6, <1>7, <1>8, <1>9 DEF Pool!Next, Pool!InCall, Pool!Client

LEMMA OnlyPoolPushLaps ==
    [Pool!Next]_(Pool!vars) /\ lapped' # lapped => HasCapacity /\ NoSlotLeft /\ ~Full
<1> SUFFICES ASSUME [Pool!Next]_(Pool!vars), lapped' # lapped
             PROVE  HasCapacity /\ NoSlotLeft /\ ~Full
    OBVIOUS
<1> USE DEF Pool!shared, Pool!LeaveClient, Pool!ringVars, Pool!ClearQueue
<1>1. ASSUME NEW w \in Pool!Workers, Pool!Worker(w) \/ Pool!SpuriousWakeup(w)
      PROVE  FALSE
    BY <1>1 DEF Pool!Worker, Pool!TakeTask, Pool!Dequeue, Pool!ReadQueue, Pool!ReadPaused,
       Pool!ReadBusyWait, Pool!Park, Pool!SpuriousWakeup, Pool!EnterExecute, Pool!RunTask,
       Pool!LeaveExecute, Pool!PausePool
<1>2. CASE Pool!Push
    <2>1. Pool!HasCapacity /\ Pool!Enqueue(pushed + 1)
        BY <1>2 DEF Pool!Push
    <2>2. HasCapacity /\ Enqueue(pushed + 1)
        BY <2>1, SameRing, SameEnqueue
    <2> QED BY <2>2 DEF Enqueue, ringVars
<1>3. CASE \/ Pool!ClearPending \/ Pool!StopClear \/ Pool!Flush \/ Pool!FlushWake
           \/ Pool!ToggleBusyWait \/ Pool!CallWait \/ Pool!CallDestructor \/ Pool!Wait
           \/ Pool!Join
    BY <1>3 DEF Pool!ClearPending, Pool!StopClear, Pool!Flush, Pool!FlushWake,
       Pool!ToggleBusyWait, Pool!CallWait, Pool!CallDestructor, Pool!Wait, Pool!Join
<1>4. ASSUME NEW k \in 0 .. MaxWorkers, Pool!CallConcurrency(k) PROVE FALSE
    BY <1>4 DEF Pool!CallConcurrency
<1>5. ASSUME NEW k \in 0 .. MaxWorkers, NEW stored \in {"none", "empty", "task"},
             Pool!CallAssign(k, stored)
      PROVE  FALSE
    BY <1>5 DEF Pool!CallAssign
<1>6. CASE UNCHANGED Pool!vars
    BY <1>6 DEF Pool!vars
<1> QED BY <1>1, <1>2, <1>3, <1>4, <1>5, <1>6 DEF Pool!Next, Pool!InCall, Pool!Client

(* Where a step takes one worker, and what that does to the count.         *)
LEMMA OneWorkerMoves ==
    ASSUME WorkersOK, NEW w \in Pool!Workers, pc[w] # "none",
           NEW place \in {"loop", "decide", "nothingToDo", "park", "parked", "enter",
                          "take", "leave", "pause", "exited"},
           pc[w] # "run", pc' = [pc EXCEPT ![w] = place], UNCHANGED <<mThreads, task>>
    PROVE  WorkersOK'
BY DEF WorkersOK

LEMMA WorkersStep ==
    PoolTypes /\ PoolIInv /\ [Pool!Next]_(Pool!vars) => WorkersOK' /\ RunningIsCounted'
<1> SUFFICES ASSUME PoolTypes, PoolIInv, [Pool!Next]_(Pool!vars)
             PROVE  WorkersOK' /\ RunningIsCounted'
    OBVIOUS
<1>0. /\ PoolFlagsOK /\ CallOK /\ WorkersOK
      /\ mThreadsRunning = Cardinality(Pool!Executing)
    BY DEF PoolTypes, RunningIsCounted
<1>a. ASSUME UNCHANGED <<pc, task, mThreads, mThreadsRunning>>
      PROVE  WorkersOK' /\ RunningIsCounted'
    BY <1>0, <1>a DEF WorkersOK, RunningIsCounted, Pool!Executing
<1>b. ASSUME Pool!Executing' = Pool!Executing, mThreadsRunning' = mThreadsRunning
      PROVE  RunningIsCounted'
    BY <1>0, <1>b DEF RunningIsCounted
<1> USE DEF Pool!shared, Pool!locals, Pool!history, Pool!LeaveClient
<1>1. CASE UNCHANGED Pool!vars
    BY <1>1, <1>a DEF Pool!vars
<1>2. ASSUME NEW w \in Pool!Workers, Pool!Worker(w) \/ Pool!SpuriousWakeup(w)
      PROVE  WorkersOK' /\ RunningIsCounted'
    <2> USE DEF Pool!Goto, Pool!At
    <2>1. CASE \/ Pool!ReadQueue(w) \/ Pool!ReadPaused(w) \/ Pool!ReadBusyWait(w)
               \/ Pool!Park(w) \/ Pool!SpuriousWakeup(w) \/ Pool!PausePool(w)
        <3> USE <2>1 DEF Pool!ReadQueue, Pool!ReadPaused, Pool!ReadBusyWait, Pool!Park,
                Pool!SpuriousWakeup, Pool!PausePool
        <3>1. WorkersOK'
            BY <1>0, OneWorkerMoves
        <3>2. Pool!Executing' = Pool!Executing
            BY <1>0 DEF Pool!Executing, WorkersOK
        <3>3. mThreadsRunning' = mThreadsRunning
            OBVIOUS
        <3> QED BY <1>b, <3>1, <3>2, <3>3
    <2>2. CASE Pool!EnterExecute(w)
        <3>1. WorkersOK'
            BY <1>0, <2>2, OneWorkerMoves DEF Pool!EnterExecute
        <3>2. w \notin Pool!Executing /\ Pool!Executing' = Pool!Executing \cup {w}
            BY <1>0, <2>2 DEF Pool!EnterExecute, Pool!Executing, WorkersOK
        <3>3. Cardinality(Pool!Executing \cup {w}) = Cardinality(Pool!Executing) + 1
            BY <3>2, ExecutingFinite, FS_AddElement
        <3> QED BY <1>0, <2>2, <3>1, <3>2, <3>3 DEF Pool!EnterExecute, RunningIsCounted
    <2>3. CASE Pool!LeaveExecute(w)
        <3>1. WorkersOK'
            BY <1>0, <2>3, OneWorkerMoves DEF Pool!LeaveExecute
        <3>2. w \in Pool!Executing /\ Pool!Executing' = Pool!Executing \ {w}
            BY <1>0, <2>3 DEF Pool!LeaveExecute, Pool!Executing, WorkersOK
        <3>3. Cardinality(Pool!Executing \ {w}) = Cardinality(Pool!Executing) - 1
            BY <3>2, ExecutingFinite, FS_RemoveElement
        <3> QED BY <1>0, <2>3, <3>1, <3>2, <3>3 DEF Pool!LeaveExecute, RunningIsCounted
    <2>4. CASE Pool!TakeTask(w)
        <3>1. pc[w] = "take" /\ UNCHANGED <<mThreads, mThreadsRunning>>
            BY <2>4 DEF Pool!TakeTask
        <3>2. CASE mTasks = <<>> /\ Pool!Goto(w, "leave") /\ UNCHANGED <<Pool!ringVars, task, started>>
            <4>1. WorkersOK'
                BY <1>0, <3>1, <3>2, OneWorkerMoves
            <4>2. Pool!Executing' = Pool!Executing
                BY <1>0, <3>1, <3>2 DEF Pool!Executing, WorkersOK
            <4> QED BY <1>b, <3>1, <4>1, <4>2
        <3>3. CASE /\ mTasks # <<>> /\ task' = [task EXCEPT ![w] = Head(mTasks)]
                   /\ Pool!Goto(w, "run")
            <4>1. Head(mTasks) \in Tasks /\ Head(mTasks) # 0
                <5>1. mTasks \in Seq(Tasks)
                    BY <1>0 DEF PoolFlagsOK
                <5>2. Head(mTasks) \in Tasks
                    BY <3>3, <5>1, Queues
                <5> QED BY <5>2 DEF Tasks
            <4>2. WorkersOK'
                BY <1>0, <3>1, <3>3, <4>1 DEF WorkersOK
            <4>3. Pool!Executing' = Pool!Executing
                BY <1>0, <3>1, <3>3 DEF Pool!Executing, WorkersOK
            <4> QED BY <1>b, <3>1, <4>2, <4>3
        <3> QED BY <2>4, <3>2, <3>3 DEF Pool!TakeTask
    <2>5. CASE Pool!RunTask(w)
        <3>1. WorkersOK'
            BY <1>0, <2>5 DEF Pool!RunTask, WorkersOK, Tasks
        <3>2. Pool!Executing' = Pool!Executing
            BY <1>0, <2>5 DEF Pool!RunTask, Pool!Executing, WorkersOK
        <3> QED BY <1>b, <2>5, <3>1, <3>2 DEF Pool!RunTask
    <2> QED BY <1>2, <2>1, <2>2, <2>3, <2>4, <2>5 DEF Pool!Worker
<1>3. CASE Pool!FlushWake \/ Pool!StopClear
    <2>1. Pool!NotifyExec /\ UNCHANGED <<task, mThreads, mThreadsRunning>>
        BY <1>3 DEF Pool!FlushWake, Pool!StopClear
    <2>2. WorkersOK'
        BY <1>0, <2>1 DEF Pool!NotifyExec, Pool!At, WorkersOK
    <2>3. Pool!Executing' = Pool!Executing
        BY <1>0, <2>1 DEF Pool!NotifyExec, Pool!At, WorkersOK, Pool!Executing
    <2> QED BY <1>b, <2>1, <2>2, <2>3
<1>4. CASE Pool!Join
    <2>1. /\ \A w \in Pool!Workers : pc[w] \in {"none", "exited"}
          /\ mThreadsRunning' = 0 /\ mThreads' = call.threads /\ task' = task
          /\ pc' = [w \in Pool!Workers |-> IF w <= call.threads THEN "loop" ELSE "none"]
        BY <1>4 DEF Pool!Join, Pool!Exited, Pool!Spawned
    <2>2. WorkersOK'
        BY <1>0, <2>1, PoolBoundsAreNats DEF WorkersOK, CallOK, Pool!Workers
    <2>3. Pool!Executing' = {}
        BY <2>1 DEF Pool!Executing
    <2> QED BY <2>1, <2>2, <2>3, FS_EmptySet DEF RunningIsCounted
<1>5. CASE Pool!Push \/ Pool!Flush \/ Pool!ClearPending \/ Pool!ToggleBusyWait
             \/ Pool!CallWait \/ Pool!CallDestructor \/ Pool!Wait
    BY <1>5, <1>a DEF Pool!Push, Pool!Flush, Pool!ClearPending, Pool!ToggleBusyWait,
       Pool!CallWait, Pool!CallDestructor, Pool!Wait
<1>6. ASSUME NEW k \in 0 .. MaxWorkers, Pool!CallConcurrency(k)
      PROVE  WorkersOK' /\ RunningIsCounted'
    BY <1>6, <1>a DEF Pool!CallConcurrency
<1>7. ASSUME NEW k \in 0 .. MaxWorkers, NEW stored \in {"none", "empty", "task"},
             Pool!CallAssign(k, stored)
      PROVE  WorkersOK' /\ RunningIsCounted'
    BY <1>7, <1>a DEF Pool!CallAssign
<1> QED
    BY <1>1, <1>2, <1>3, <1>4, <1>5, <1>6, <1>7 DEF Pool!Next, Pool!InCall, Pool!Client

LEMMA PoolNextTypes == PoolIInv /\ PoolTypes /\ [Pool!Next]_(Pool!vars) => PoolTypes'
BY PoolFlagsStep, PoolRingStep, WorkersStep DEF PoolTypes

-----------------------------------------------------------------------------
(* The object there is keeps the invariant of its class.                   *)
OneOfTheTwo ==
    /\ worker \in Classes
    /\ worker = "WorkerThread" => IInv
    /\ worker = "WorkerPool" => PoolIInv /\ PoolTypes

LEMMA Inductive == SpecAll => []OneOfTheTwo
<1>1. InitAll => OneOfTheTwo
    BY InitIInv, PoolInitIInv, InitPoolTypes DEF InitAll, OneOfTheTwo
<1>2. OneOfTheTwo /\ [NextAll]_allVars => OneOfTheTwo'
    <2> SUFFICES ASSUME OneOfTheTwo, [NextAll]_allVars PROVE OneOfTheTwo'
        OBVIOUS
    <2>1. CASE OfThread(Next)
        <3>1. worker = "WorkerThread" /\ worker' = worker /\ IInv /\ Next
            BY <2>1 DEF OfThread, OneOfTheTwo
        <3> QED BY <3>1, NextIInv DEF OneOfTheTwo
    <2>2. CASE OfPool(Pool!Next)
        <3>1. worker = "WorkerPool" /\ worker' = worker /\ PoolIInv /\ PoolTypes /\ Pool!Next
            BY <2>2 DEF OfPool, OneOfTheTwo
        <3> QED BY <3>1, PoolNextIInv, PoolNextTypes DEF OneOfTheTwo
    <2>3. CASE UNCHANGED allVars
        <3>1. worker' = worker /\ UNCHANGED vars /\ UNCHANGED Pool!vars
            BY <2>3 DEF allVars, poolOnly, vars, shared, locals, history, ringVars,
               Pool!vars, Pool!shared, Pool!locals, Pool!history, Pool!ringVars
        <3> QED BY <3>1, NextIInv, PoolNextIInv, PoolNextTypes DEF OneOfTheTwo
    <2> QED BY <2>1, <2>2, <2>3 DEF NextAll
<1> QED BY <1>1, <1>2, PTL DEF SpecAll

(* The indices of a WorkerThread's ring buffer stay in its storage, and    *)
(* the thread holds a task exactly while it runs it.                       *)
THEOREM ThreadTypeCorrect == SpecAll => [](worker = "WorkerThread" => TypeOK)
<1>1. OneOfTheTwo => (worker = "WorkerThread" => TypeOK)
    BY DEF OneOfTheTwo, IInv
<1> QED BY <1>1, Inductive, PTL

(* mThreadsRunning of a WorkerPool is the number of workers that run       *)
(* tasks, so that exactly the last one out sees it drop to zero; and each  *)
(* worker holds a task exactly while it runs it.                           *)
THEOREM PoolTypeCorrect == SpecAll => [](worker = "WorkerPool" => Pool!TypeOK)
<1>1. OneOfTheTwo => (worker = "WorkerPool" => Pool!TypeOK)
    BY PoolTypesAreTypes DEF OneOfTheTwo
<1> QED BY <1>1, Inductive, PTL

(* Tasks start once and in the order they were pushed: in a WorkerThread   *)
(* whatever is cleared, copied or moved in between, in a WorkerPool        *)
(* whatever the number of workers that take from the queue.                *)
THEOREM StartsOnceInOrder == SpecAll => []TasksStartOnceInOrder
<1>1. OneOfTheTwo => TasksStartOnceInOrder
    BY ClassesExist
    DEF OneOfTheTwo, IInv, PoolIInv, InOrder, Ordered, TasksStartOnceInOrder
<1> QED BY <1>1, Inductive, PTL

(* When ready() of a WorkerThread answers yes the thread runs nothing, and *)
(* all that was flushed and not cleared has been started, or was run over  *)
(* in the ring buffer by a later push.                                     *)
THEOREM ReadyIsTrue == SpecAll => []ThreadReadyMeansDone
<1>1. OneOfTheTwo => ThreadReadyMeansDone
    BY DEF OneOfTheTwo, IInv, TurnIsKept, DueIsKept, ReadyMeansDone, ThreadReadyMeansDone
<1> QED BY <1>1, Inductive, PTL

(* A WorkerThread never waits for a mIsPaused that has been cleared.       *)
THEOREM NoWakeupIsLost == SpecAll => [](worker = "WorkerThread" => NoLostWakeup)
<1>1. OneOfTheTwo => (worker = "WorkerThread" => NoLostWakeup)
    BY DEF OneOfTheTwo, IInv
<1> QED BY <1>1, Inductive, PTL

(* A push runs over the queue only when the ring has wrapped around and    *)
(* the number of its slots does not divide 2^64, in both classes: this is  *)
(* what the exception of the other theorems amounts to.                    *)
THEOREM RunsOverWhenWrapped == SpecAll => RunsOverOnlyWrapped
<1> DEFINE Wrapped == mTail < ring.mHead /\ WordModulus % ring.mCapacity # 0
<1>1. OneOfTheTwo /\ [NextAll]_allVars
        => [lapped' # lapped /\ ring.mCapacity <= WordModulus => Wrapped]_ringVars
    <2> SUFFICES ASSUME OneOfTheTwo, [NextAll]_allVars,
                        lapped' # lapped, ring.mCapacity <= WordModulus
                 PROVE  Wrapped
        OBVIOUS
    <2>1. CASE OfThread(Next)
        <3>1. IInv /\ Next
            BY <2>1 DEF OfThread, OneOfTheTwo
        <3>2. mTasks \in Seq(Nat) /\ RingOK
            BY <3>1, Numbers DEF IInv, TypeOK
        <3>3. HasCapacity /\ NoSlotLeft /\ ~Full
            BY <3>1, OnlyPushLaps
        <3> QED BY <3>2, <3>3, UnseenFull
    <2>2. CASE OfPool(Pool!Next)
        <3>1. PoolIInv /\ PoolTypes /\ Pool!Next
            BY <2>2 DEF OfPool, OneOfTheTwo
        <3>2. mTasks \in Seq(Nat) /\ RingOK
            BY <3>1 DEF PoolIInv, PoolNumbers, PoolTypes
        <3>3. HasCapacity /\ NoSlotLeft /\ ~Full
            BY <3>1, OnlyPoolPushLaps
        <3> QED BY <3>2, <3>3, UnseenFull
    <2>3. CASE UNCHANGED allVars
        BY <2>3 DEF allVars, vars, shared, ringVars
    <2> QED BY <2>1, <2>2, <2>3 DEF NextAll
<1> QED BY <1>1, Inductive, PTL DEF SpecAll, RunsOverOnlyWrapped

(* concurrency(n), operator= and the destructor of a WorkerPool throw away *)
(* no task that was in the queue while the pool was running; only a push   *)
(* that runs over the ring buffer does. And when ready() answers yes all   *)
(* such tasks have been started, but for those that were run over.         *)
THEOREM NothingFlushedIsDropped == SpecAll => []FlushedTasksAreNotDropped
<1>1. PoolIInv => Pool!FlushedTasksAreNotDropped
    BY SameWords
    DEF PoolIInv, DueIsNotDropped, NothingDueWhilePaused, Pool!FlushedTasksAreNotDropped
<1>2. OneOfTheTwo => FlushedTasksAreNotDropped
    BY <1>1 DEF OneOfTheTwo, FlushedTasksAreNotDropped
<1> QED BY <1>2, Inductive, PTL
=============================================================================
