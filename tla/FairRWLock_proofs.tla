-------------------------- MODULE FairRWLock_proofs --------------------------
(***************************************************************************)
(* FairRWLock for any finite number of threads and any width of the ticket *)
(* counters: its typing, its mutual exclusion, and the order in which      *)
(* callers are admitted.  As in RWLock the first invariant is that the     *)
(* words are exact; the tickets play no part in exclusion, and order has   *)
(* an invariant of its own, OrderInv.                                      *)
(*                                                                         *)
(* A reader is already safe from writers between the load that finds no    *)
(* writer and the step that passes the turn on, so the induction is over   *)
(* the readers that are Through that load, not over the holders alone.     *)
(***************************************************************************)
EXTENDS FairRWLock, FiniteSetTheorems, TLAPS

Through == {t \in Threads : pc[t] \in {"advance", "hold"} /\ call[t] \in SharedCalls}

ThroughExclusion == \A w \in Writers : Through = {} /\ Writers = {w}

IInv == StateOK /\ LockWordsAgree /\ ThroughExclusion

-----------------------------------------------------------------------------
LEMMA SharingFinite == IsFiniteSet(Sharing) /\ Cardinality(Sharing) \in Nat
BY ThreadsFinite, FS_Subset, FS_CardinalityType DEF Sharing

LEMMA CountAfterJoin ==
    ASSUME NEW S, IsFiniteSet(S), NEW x, x \notin S
    PROVE  Cardinality(S \cup {x}) = Cardinality(S) + 1
BY FS_AddElement

LEMMA CountAfterLeave ==
    ASSUME NEW S, IsFiniteSet(S), NEW x, x \in S
    PROVE  Cardinality(S \ {x}) = Cardinality(S) - 1 /\ Cardinality(S) > 0
<1>1. Cardinality(S \ {x}) = Cardinality(S) - 1
    BY FS_RemoveElement
<1>2. IsFiniteSet(S \ {x})
    BY FS_RemoveElement
<1>3. Cardinality(S \ {x}) \in Nat /\ Cardinality(S) \in Nat
    BY <1>2, FS_CardinalityType
<1> QED BY <1>1, <1>3

(* The ticket counters wrap inside their range. *)
LEMMA IncType == \A id \in 0..LockIds - 1 : Inc(id) \in 0..LockIds - 1
BY LockIdsPositive DEF Inc

-----------------------------------------------------------------------------
(* What each group of steps does to the sets of claimants and holders. *)

LEMMA TicketStep ==
    ASSUME StateOK, NEW t \in Threads,
           Request(t) \/ DrawTicket(t) \/ AwaitTurn(t) \/ AdvanceShared(t)
             \/ AdvanceExclusive(t)
    PROVE  /\ UNCHANGED <<Sharing, Claiming, Writers, lockType, shareCount>>
           /\ \A u \in Claiming : call'[u] = call[u]
           /\ UNCHANGED Through
BY DEF StateOK, Request, Enter, DrawTicket, AwaitTurn, AdvanceShared,
       AdvanceExclusive, Sharing, Claiming, Through, Writers, At, Goto, Return,
       SharedCalls, ExclusiveCalls, TicketCalls

LEMMA AddShareStep ==
    ASSUME StateOK, NEW t \in Threads, AddShare(t)
    PROVE  /\ t \notin Sharing
           /\ Sharing' = Sharing \cup {t}
           /\ UNCHANGED <<Claiming, Through, Writers, call>>
BY DEF StateOK, AddShare, Sharing, Claiming, Through, Writers, At, Goto,
       SharedCalls, ExclusiveCalls

LEMMA LookStep ==
    ASSUME StateOK, NEW t \in Threads,
           AwaitNoWriter(t) \/ TryLoadLockType(t)
    PROVE  /\ UNCHANGED <<Sharing, Claiming, Writers, lockType, shareCount, call>>
           /\ \/ lockType = 0 /\ Through' = Through \cup {t}
              \/ UNCHANGED Through
BY DEF StateOK, AwaitNoWriter, TryLoadLockType, Sharing, Claiming, Through, Writers,
       At, Goto, SharedCalls, ExclusiveCalls

LEMMA WithdrawShareStep ==
    ASSUME StateOK, NEW t \in Threads, TrySubShare(t) \/ unlock_shared(t)
    PROVE  /\ t \in Sharing
           /\ Sharing' = Sharing \ {t}
           /\ Through' = Through \ {t}
           /\ shareCount' = shareCount - 1
           /\ UNCHANGED <<Claiming, Writers, lockType>>
           /\ \A u \in Claiming : call'[u] = call[u]
BY DEF StateOK, TrySubShare, unlock_shared, Sharing, Claiming, Through, Writers, At,
       Return, SharedCalls, ExclusiveCalls

LEMMA CasStep ==
    ASSUME StateOK, NEW t \in Threads, CasLockType(t) \/ TryCasLockType(t)
    PROVE  /\ UNCHANGED <<Sharing, Through, Writers, shareCount>>
           /\ \/ /\ lockType = 0 /\ lockType' # 0
                 /\ Claiming' = Claiming \cup {t}
                 /\ lockType' = LOCK_WRITE_BIT <=> call[t] = "lock"
                 /\ UNCHANGED call
              \/ /\ UNCHANGED <<Claiming, lockType>>
                 /\ \A u \in Claiming : call'[u] = call[u]
BY DEF StateOK, CasLockType, TryCasLockType, Sharing, Claiming, Through, Writers, At,
       Goto, Return, SharedCalls, ExclusiveCalls, LOCK_WRITE_BIT, LOCK_TRY_WRITE_BIT

LEMMA LoadCountStep ==
    ASSUME StateOK, NEW t \in Threads, AwaitNoReader(t) \/ TryLoadShareCount(t)
    PROVE  /\ t \in Claiming
           /\ UNCHANGED <<Sharing, Claiming, Through, lockType, shareCount, call>>
           /\ \/ shareCount = 0 /\ Writers' = Writers \cup {t}
              \/ UNCHANGED Writers
BY DEF StateOK, AwaitNoReader, TryLoadShareCount, Sharing, Claiming, Through,
       Writers, At, Goto, SharedCalls, ExclusiveCalls

LEMMA WithdrawClaimStep ==
    ASSUME StateOK, NEW t \in Threads, TryClearLockType(t) \/ unlock(t)
    PROVE  /\ t \in Claiming
           /\ Claiming' = Claiming \ {t}
           /\ Writers' = Writers \ {t}
           /\ lockType' = 0
           /\ UNCHANGED <<Sharing, Through, shareCount>>
BY DEF StateOK, TryClearLockType, unlock, Sharing, Claiming, Through, Writers, At,
       Goto, Return, SharedCalls, ExclusiveCalls

LEMMA StutterStep ==
    ASSUME UNCHANGED vars
    PROVE  UNCHANGED <<Sharing, Claiming, Through, Writers, lockType, shareCount, call>>
BY DEF vars, Sharing, Claiming, Through, Writers, At

LEMMA HoldersClaim ==
    /\ Readers \subseteq Through /\ Through \subseteq Sharing
    /\ Writers \subseteq Claiming
BY DEF Readers, Through, Sharing, Writers, Claiming, At

-----------------------------------------------------------------------------
LEMMA InitIInv == Init => IInv
<1> SUFFICES ASSUME Init PROVE IInv
    OBVIOUS
<1>1. Sharing = {} /\ Claiming = {} /\ Writers = {}
    BY DEF Init, Sharing, Claiming, Writers, At
<1>2. StateOK
    BY LockIdsPositive DEF Init, StateOK, Places
<1>3. LockWordsAgree
    BY <1>1, FS_EmptySet DEF Init, LockWordsAgree
<1> QED BY <1>1, <1>2, <1>3 DEF IInv, ThroughExclusion

(* Typing of the lock's own state; the history queue is not needed here.   *)
LEMMA StateStep == IInv /\ [Next]_vars => StateOK'
<1> SUFFICES ASSUME IInv, [Next]_vars PROVE StateOK'
    OBVIOUS
<1> USE DEF IInv, StateOK, Places, SharedCalls, ExclusiveCalls, TicketCalls,
            LOCK_WRITE_BIT, LOCK_TRY_WRITE_BIT, At, Goto, Return, Tickets
<1>1. CASE UNCHANGED vars
    BY <1>1 DEF vars
<1>2. ASSUME NEW t \in Threads, Request(t) PROVE StateOK'
    BY <1>2 DEF Request, Enter
<1>3. ASSUME NEW t \in Threads, DrawTicket(t) PROVE StateOK'
    BY <1>3, IncType DEF DrawTicket
<1>4. ASSUME NEW t \in Threads, AwaitTurn(t) PROVE StateOK'
    BY <1>4 DEF AwaitTurn
<1>5. ASSUME NEW t \in Threads, AddShare(t) PROVE StateOK'
    BY <1>5 DEF AddShare
<1>6. ASSUME NEW t \in Threads, AwaitNoWriter(t) \/ TryLoadLockType(t) PROVE StateOK'
    BY <1>6 DEF AwaitNoWriter, TryLoadLockType
<1>7. ASSUME NEW t \in Threads, AdvanceShared(t) PROVE StateOK'
    BY <1>7, IncType DEF AdvanceShared
<1>8. ASSUME NEW t \in Threads, TrySubShare(t) \/ unlock_shared(t) PROVE StateOK'
    <2>1. t \in Sharing
        BY <1>8 DEF TrySubShare, unlock_shared, Sharing
    <2>2. Cardinality(Sharing) > 0
        BY <2>1, SharingFinite, CountAfterLeave
    <2>3. shareCount - 1 \in Nat
        BY <2>2, SharingFinite DEF LockWordsAgree
    <2> QED BY <1>8, <2>3 DEF TrySubShare, unlock_shared
<1>9. ASSUME NEW t \in Threads, CasLockType(t) \/ TryCasLockType(t) PROVE StateOK'
    BY <1>9 DEF CasLockType, TryCasLockType
<1>10. ASSUME NEW t \in Threads, AwaitNoReader(t) \/ TryLoadShareCount(t) PROVE StateOK'
    BY <1>10 DEF AwaitNoReader, TryLoadShareCount
<1>11. ASSUME NEW t \in Threads, TryClearLockType(t) \/ unlock(t) PROVE StateOK'
    BY <1>11 DEF TryClearLockType, unlock
<1>12. ASSUME NEW t \in Threads, AdvanceExclusive(t) PROVE StateOK'
    BY <1>12, IncType DEF AdvanceExclusive
<1> QED
    BY <1>1, <1>2, <1>3, <1>4, <1>5, <1>6, <1>7, <1>8, <1>9, <1>10, <1>11, <1>12
    DEF Next, Running, Release

(* The words stay exact: every claim is counted once and withdrawn once.   *)
LEMMA WordsStep == IInv /\ [Next]_vars => LockWordsAgree'
<1> SUFFICES ASSUME IInv, [Next]_vars PROVE LockWordsAgree'
    OBVIOUS
<1> USE DEF IInv, LockWordsAgree
<1>1. CASE UNCHANGED vars
    BY <1>1, StutterStep
<1>2. ASSUME NEW t \in Threads,
             Request(t) \/ DrawTicket(t) \/ AwaitTurn(t) \/ AdvanceShared(t)
               \/ AdvanceExclusive(t)
      PROVE  LockWordsAgree'
    BY <1>2, TicketStep DEF LOCK_WRITE_BIT
<1>3. ASSUME NEW t \in Threads, AddShare(t) PROVE LockWordsAgree'
    BY <1>3, AddShareStep, CountAfterJoin, SharingFinite DEF AddShare
<1>4. ASSUME NEW t \in Threads, AwaitNoWriter(t) \/ TryLoadLockType(t)
      PROVE  LockWordsAgree'
    BY <1>4, LookStep
<1>5. ASSUME NEW t \in Threads, TrySubShare(t) \/ unlock_shared(t)
      PROVE  LockWordsAgree'
    BY <1>5, WithdrawShareStep, CountAfterLeave, SharingFinite
<1>6. ASSUME NEW t \in Threads, CasLockType(t) \/ TryCasLockType(t)
      PROVE  LockWordsAgree'
    BY <1>6, CasStep
<1>7. ASSUME NEW t \in Threads, AwaitNoReader(t) \/ TryLoadShareCount(t)
      PROVE  LockWordsAgree'
    BY <1>7, LoadCountStep
<1>8. ASSUME NEW t \in Threads, TryClearLockType(t) \/ unlock(t)
      PROVE  LockWordsAgree'
    BY <1>8, WithdrawClaimStep
<1> QED
    BY <1>1, <1>2, <1>3, <1>4, <1>5, <1>6, <1>7, <1>8 DEF Next, Running, Release

(* The two loads that let a thread through both find the other word zero.  *)
LEMMA ExclusionStep == IInv /\ [Next]_vars => ThroughExclusion'
<1> SUFFICES ASSUME IInv, [Next]_vars PROVE ThroughExclusion'
    OBVIOUS
<1> USE DEF IInv, ThroughExclusion
<1>1. CASE UNCHANGED vars
    BY <1>1, StutterStep
<1>2. ASSUME NEW t \in Threads,
             Request(t) \/ DrawTicket(t) \/ AwaitTurn(t) \/ AdvanceShared(t)
               \/ AdvanceExclusive(t)
      PROVE  ThroughExclusion'
    BY <1>2, TicketStep
<1>3. ASSUME NEW t \in Threads, AddShare(t) PROVE ThroughExclusion'
    BY <1>3, AddShareStep
<1>4. ASSUME NEW t \in Threads, AwaitNoWriter(t) \/ TryLoadLockType(t)
      PROVE  ThroughExclusion'
    <2>1. lockType = 0 => Writers = {}
        BY HoldersClaim DEF LockWordsAgree
    <2> QED BY <1>4, <2>1, LookStep
<1>5. ASSUME NEW t \in Threads, TrySubShare(t) \/ unlock_shared(t)
      PROVE  ThroughExclusion'
    BY <1>5, WithdrawShareStep
<1>6. ASSUME NEW t \in Threads, CasLockType(t) \/ TryCasLockType(t)
      PROVE  ThroughExclusion'
    BY <1>6, CasStep
<1>7. ASSUME NEW t \in Threads, AwaitNoReader(t) \/ TryLoadShareCount(t)
      PROVE  ThroughExclusion'
    <2>1. shareCount = 0 => Through = {}
        BY HoldersClaim, SharingFinite, FS_EmptySet DEF LockWordsAgree
    <2>2. Writers \subseteq {t}
        BY <1>7, HoldersClaim, LoadCountStep DEF LockWordsAgree
    <2> QED BY <1>7, <2>1, <2>2, LoadCountStep
<1>8. ASSUME NEW t \in Threads, TryClearLockType(t) \/ unlock(t)
      PROVE  ThroughExclusion'
    BY <1>8, WithdrawClaimStep
<1> QED
    BY <1>1, <1>2, <1>3, <1>4, <1>5, <1>6, <1>7, <1>8 DEF Next, Running, Release

LEMMA IInvHolds == Spec => []IInv
<1>1. IInv /\ [Next]_vars => IInv'
    BY StateStep, WordsStep, ExclusionStep DEF IInv
<1> QED BY <1>1, InitIInv, PTL DEF Spec

-----------------------------------------------------------------------------
(* A FairRWLock writer is alone, for any number of threads, any width of   *)
(* the ticket counters and any mix of ticket and try_ calls.               *)
THEOREM MutualExclusionHolds == Spec => []MutualExclusion
<1>1. IInv => MutualExclusion
    BY HoldersClaim DEF IInv, ThroughExclusion, MutualExclusion
<1> QED BY <1>1, IInvHolds, PTL

(* shareCount and lockType say exactly who claims the lock, and the write  *)
(* bit tells unlock truthfully whether the writer owes the next turn.      *)
THEOREM LockWordsAgreeHolds == Spec => []LockWordsAgree
BY IInvHolds, PTL DEF IInv

-----------------------------------------------------------------------------
(* The order of admission: callers are let past the turnstile one at a     *)
(* time, as they drew their tickets, although both counters wrap.          *)
(*                                                                         *)
(* The tickets of those in line are nextLockId, nextLockId + 1, ... modulo *)
(* LockIds. The line never holds more threads than there are, so no two of *)
(* its tickets are the same number and only the first can be the one shown *)
(* (OnlyTheFirstIsShown): this is where EnoughTickets is needed. That a    *)
(* writer passes the turn on exactly if it drew a ticket rests on the      *)
(* words being exact.                                                      *)

Admitted(t) ==
    \/ pc[t] \in {"claim", "check", "advance"} /\ call[t] \in TicketCalls
    \/ pc[t] = "hold" /\ call[t] = "lock"

InLine(t) == (pc[t] = "turn" /\ call[t] \in TicketCalls) \/ Admitted(t)

QueueOK ==
    /\ queue \in Seq(Threads)
    /\ \A i, j \in 1 .. Len(queue) : queue[i] = queue[j] => i = j
    /\ \A t \in Threads : InLine(t) <=> \E i \in 1 .. Len(queue) : queue[i] = t

OneAtATime == \A t \in Threads : Admitted(t) => queue # <<>> /\ t = Head(queue)

TicketsRun ==
    /\ \A i \in 1 .. Len(queue) : lockId[queue[i]] = (nextLockId + i - 1) % LockIds
    /\ currentLockId = (nextLockId + Len(queue)) % LockIds

TriesDoNotAdvance == \A t \in Threads : pc[t] = "advance" => call[t] \in TicketCalls

OrderInv == QueueOK /\ OneAtATime /\ TicketsRun /\ TriesDoNotAdvance

-----------------------------------------------------------------------------
(* Counting modulo LockIds, for numbers less than twice as large.          *)
LEMMA ModSmall == \A a \in 0 .. LockIds - 1 : a % LockIds = a
BY LockIdsPositive

LEMMA ModLarge == \A a \in LockIds .. 2 * LockIds - 1 : a % LockIds = a - LockIds
BY LockIdsPositive

LEMMA ModValue ==
    ASSUME NEW a \in 0 .. 2 * LockIds - 1
    PROVE  a % LockIds = IF a < LockIds THEN a ELSE a - LockIds
BY LockIdsPositive, ModSmall, ModLarge

(* One more modulo LockIds.                                                *)
LEMMA IncValue ==
    ASSUME NEW n \in 0 .. LockIds - 1
    PROVE  Inc(n) = IF n + 1 < LockIds THEN n + 1 ELSE 0
<1>1. n + 1 \in 0 .. 2 * LockIds - 1
    BY LockIdsPositive
<1> QED BY <1>1, ModValue, LockIdsPositive DEF Inc

LEMMA SizeOfInterval == \A n \in Nat : Cardinality(1 .. n) = n
<1> SUFFICES ASSUME NEW n \in Nat PROVE Cardinality(1 .. n) = n
    OBVIOUS
<1>1. Cardinality(1 .. n) = IF 1 > n THEN 0 ELSE n - 1 + 1
    BY FS_Interval
<1> QED BY <1>1

(* The line is no longer than there are threads, so never longer than      *)
(* there are tickets.                                                      *)
LEMMA LineIsShort ==
    ASSUME QueueOK
    PROVE  Len(queue) \in Nat /\ Len(queue) <= Cardinality(Threads)
<1> DEFINE f == [i \in 1 .. Len(queue) |-> queue[i]]
<1>1. Len(queue) \in Nat
    BY DEF QueueOK
<1>2. f \in Injection(1 .. Len(queue), Threads)
    BY DEF QueueOK, Injection, IsInjective
<1>3. Cardinality(1 .. Len(queue)) <= Cardinality(Threads)
    BY <1>2, ThreadsFinite, FS_Injection
<1>4. Cardinality(1 .. Len(queue)) = Len(queue)
    BY <1>1, SizeOfInterval, Zenon
<1> QED BY <1>1, <1>3, <1>4

LEMMA TicketsSuffice ==
    ASSUME QueueOK
    PROVE  Len(queue) \in 0 .. LockIds
<1>1. Cardinality(Threads) \in Nat
    BY ThreadsFinite, FS_CardinalityType
<1> QED BY <1>1, LineIsShort, EnoughTickets, LockIdsPositive

(* While somebody is not in line there is a ticket to spare.               *)
LEMMA TicketToSpare ==
    ASSUME QueueOK, NEW t \in Threads, ~InLine(t)
    PROVE  Len(queue) \in 0 .. LockIds - 1
<1> DEFINE n == Len(queue)
           f == [i \in 1 .. n |-> queue[i]]
<1>1. n \in Nat
    BY DEF QueueOK
<1>2. f \in Injection(1 .. n, Threads \ {t})
    BY DEF QueueOK, Injection, IsInjective
<1>3. IsFiniteSet(Threads \ {t}) /\ Cardinality(Threads \ {t}) = Cardinality(Threads) - 1
    BY ThreadsFinite, FS_RemoveElement
<1>4. Cardinality(1 .. n) <= Cardinality(Threads \ {t})
    BY <1>2, <1>3, FS_Injection
<1>5. Cardinality(1 .. n) = n
    BY <1>1, SizeOfInterval, Zenon
<1>6. Cardinality(Threads) \in Nat
    BY ThreadsFinite, FS_CardinalityType
<1> QED BY <1>1, <1>3, <1>4, <1>5, <1>6, EnoughTickets, LockIdsPositive

(* Of the tickets in line only the first can be the one that is shown.     *)
LEMMA OnlyTheFirstIsShown ==
    ASSUME StateOK, QueueOK, TicketsRun, NEW t \in Threads, InLine(t),
           lockId[t] = nextLockId
    PROVE  queue # <<>> /\ t = Head(queue)
<1>1. PICK i \in 1 .. Len(queue) : queue[i] = t
    BY DEF QueueOK
<1>2. nextLockId \in 0 .. LockIds - 1 /\ i - 1 \in 0 .. LockIds - 1
    BY <1>1, TicketsSuffice, LockIdsPositive DEF StateOK
<1>3. nextLockId + i - 1 \in 0 .. 2 * LockIds - 1
    BY <1>2, LockIdsPositive
<1>4. (nextLockId + i - 1) % LockIds = nextLockId
    BY <1>1 DEF TicketsRun
<1> DEFINE n == nextLockId + i - 1
<1>5. n % LockIds = IF n < LockIds THEN n ELSE n - LockIds
    BY <1>3, ModValue, Zenon
<1>6. i = 1
    <2>1. nextLockId = IF n < LockIds THEN n ELSE n - LockIds
        BY <1>4, <1>5, Zenon
    <2> QED BY <1>2, <2>1, LockIdsPositive
<1> QED BY <1>1, <1>6 DEF QueueOK

-----------------------------------------------------------------------------
LEMMA InitOrder == Init => OrderInv
<1> SUFFICES ASSUME Init PROVE OrderInv
    OBVIOUS
<1>1. queue = <<>> /\ \A t \in Threads : pc[t] = "idle"
    BY DEF Init
<1>2. \A t \in Threads : ~InLine(t) /\ ~Admitted(t)
    BY <1>1 DEF InLine, Admitted
<1>3. QueueOK /\ OneAtATime /\ TriesDoNotAdvance
    BY <1>1, <1>2 DEF QueueOK, OneAtATime, TriesDoNotAdvance
<1>4. TicketsRun
    BY <1>1, ModSmall, LockIdsPositive DEF Init, TicketsRun
<1> QED BY <1>3, <1>4 DEF OrderInv

(* A step that leaves the counters, the line and the places in it alone.   *)
LEMMA OrderStands ==
    ASSUME OrderInv, UNCHANGED Tickets,
           \A t \in Threads : /\ InLine(t)' <=> InLine(t)
                              /\ Admitted(t)' => Admitted(t)
                              /\ (pc[t] = "advance")' => (call[t] \in TicketCalls)'
    PROVE  OrderInv'
<1>1. QueueOK'
    BY DEF OrderInv, QueueOK, Tickets
<1>2. OneAtATime' /\ TriesDoNotAdvance'
    BY DEF OrderInv, OneAtATime, TriesDoNotAdvance, Tickets
<1>3. TicketsRun'
    BY DEF OrderInv, TicketsRun, Tickets
<1> QED BY <1>1, <1>2, <1>3 DEF OrderInv

(* A caller that draws a ticket goes to the end of the line.               *)
LEMMA DrawStep ==
    ASSUME IInv, OrderInv, NEW t \in Threads, DrawTicket(t)
    PROVE  OrderInv'
<1> DEFINE n == Len(queue)
<1>1. /\ ~InLine(t)
      /\ queue \in Seq(Threads) /\ n \in Nat
      /\ queue' = Append(queue, t) /\ Len(queue') = n + 1
      /\ queue'[n + 1] = t /\ \A i \in 1 .. n : queue'[i] = queue[i]
    BY DEF DrawTicket, At, InLine, Admitted, OrderInv, QueueOK
<1>2. \A i \in 1 .. n : queue[i] \in Threads /\ queue[i] # t
    BY <1>1 DEF OrderInv, QueueOK
<1>3. /\ InLine(t)' /\ ~Admitted(t)'
      /\ \A u \in Threads \ {t} : (InLine(u)' <=> InLine(u)) /\ (Admitted(u)' <=> Admitted(u))
      /\ TriesDoNotAdvance'
    BY DEF DrawTicket, At, Goto, InLine, Admitted, TriesDoNotAdvance, OrderInv, IInv, StateOK
<1>4. QueueOK'
    <2>1. queue' \in Seq(Threads)
        BY <1>1
    <2>2. \A i, j \in 1 .. n + 1 : queue'[i] = queue'[j] => i = j
        BY <1>1, <1>2 DEF OrderInv, QueueOK
    <2>3. \A u \in Threads : InLine(u)' <=> \E i \in 1 .. n + 1 : queue'[i] = u
        <3> SUFFICES ASSUME NEW u \in Threads
                     PROVE  InLine(u)' <=> \E i \in 1 .. n + 1 : queue'[i] = u
            OBVIOUS
        <3>1. CASE u = t
            BY <1>1, <1>3, <3>1
        <3>2. CASE u # t
            BY <1>1, <1>3, <3>2 DEF OrderInv, QueueOK
        <3> QED BY <3>1, <3>2
    <2> QED BY <1>1, <2>1, <2>2, <2>3 DEF QueueOK
<1>5. OneAtATime'
    <2>1. \A u \in Threads : Admitted(u)' => queue # <<>> /\ u = Head(queue)
        BY <1>3 DEF OrderInv, OneAtATime
    <2>2. queue # <<>> => queue' # <<>> /\ Head(queue') = Head(queue)
        BY <1>1
    <2> QED BY <2>1, <2>2 DEF OneAtATime
<1>6. TicketsRun'
    <2>1. n \in 0 .. LockIds - 1 /\ nextLockId \in 0 .. LockIds - 1
        BY <1>1, TicketToSpare DEF OrderInv, IInv, StateOK
    <2>2. nextLockId' = nextLockId /\ currentLockId' = Inc(currentLockId)
        BY DEF DrawTicket
    <2>3. currentLockId = (nextLockId + n) % LockIds
        BY DEF OrderInv, TicketsRun
    <2>4. \A i \in 1 .. n + 1 : lockId'[queue'[i]] = (nextLockId + i - 1) % LockIds
        <3> SUFFICES ASSUME NEW i \in 1 .. n + 1
                     PROVE  lockId'[queue'[i]] = (nextLockId + i - 1) % LockIds
            OBVIOUS
        <3>1. CASE i = n + 1
            <4>1. lockId'[t] = currentLockId
                BY DEF DrawTicket, IInv, StateOK
            <4>2. nextLockId + i - 1 = nextLockId + n
                BY <2>1, <3>1
            <4> QED BY <1>1, <2>3, <3>1, <4>1, <4>2
        <3>2. CASE i \in 1 .. n
            <4>1. lockId'[queue[i]] = lockId[queue[i]]
                BY <1>2, <3>2 DEF DrawTicket, IInv, StateOK
            <4> QED BY <1>1, <3>2, <4>1 DEF OrderInv, TicketsRun
        <3> QED BY <1>1, <3>1, <3>2
    <2>5. Inc(currentLockId) = (nextLockId + n + 1) % LockIds
        <3> DEFINE a == nextLockId + n
                   b == nextLockId + n + 1
        <3>1. a \in 0 .. 2 * LockIds - 1 /\ b \in 0 .. 2 * LockIds - 1 /\ b = a + 1
            BY <2>1, LockIdsPositive
        <3>2. currentLockId = a % LockIds /\ currentLockId \in 0 .. LockIds - 1
            BY <2>3 DEF IInv, StateOK
        <3> HIDE DEF a, b
        <3>3. a % LockIds = IF a < LockIds THEN a ELSE a - LockIds
            BY <3>1, ModValue
        <3>4. b % LockIds = IF b < LockIds THEN b ELSE b - LockIds
            BY <3>1, ModValue
        <3>5. Inc(currentLockId) = IF currentLockId + 1 < LockIds THEN currentLockId + 1 ELSE 0
            BY <3>2, IncValue
        <3>6. Inc(currentLockId) = IF b < LockIds THEN b ELSE b - LockIds
            BY <3>1, <3>2, <3>3, <3>5, LockIdsPositive
        <3>7. Inc(currentLockId) = b % LockIds
            BY <3>4, <3>6, Zenon
        <3> QED BY <3>7 DEF b
    <2>6. nextLockId + (n + 1) = nextLockId + n + 1
        BY <2>1
    <2> QED BY <1>1, <2>2, <2>4, <2>5, <2>6 DEF TicketsRun
<1> QED BY <1>3, <1>4, <1>5, <1>6 DEF OrderInv

(* The caller that passes the turn on is the first in line, and leaves it: *)
(* the second has the ticket that is shown then.                           *)
LEMMA AdvanceStep ==
    ASSUME IInv, OrderInv, NEW t \in Threads, AdvanceShared(t) \/ AdvanceExclusive(t)
    PROVE  OrderInv'
<1> DEFINE n == Len(queue)
<1>1. pc[t] = "advance" /\ Admitted(t)
    BY DEF AdvanceShared, AdvanceExclusive, At, Admitted, OrderInv, TriesDoNotAdvance
<1>2. /\ queue \in Seq(Threads) /\ n \in Nat /\ n > 0
      /\ queue[1] = t /\ queue' = Tail(queue) /\ Len(queue') = n - 1
      /\ \A i \in 1 .. n - 1 : queue'[i] = queue[i + 1]
    BY <1>1 DEF OrderInv, OneAtATime, QueueOK, AdvanceShared, AdvanceExclusive
<1>3. /\ ~InLine(t)' /\ ~Admitted(t)'
      /\ \A u \in Threads \ {t} : (InLine(u)' <=> InLine(u)) /\ (Admitted(u)' <=> Admitted(u))
      /\ TriesDoNotAdvance'
    BY <1>1 DEF AdvanceShared, AdvanceExclusive, At, Goto, Return, InLine, Admitted,
       TriesDoNotAdvance, OrderInv, IInv, StateOK, TicketCalls, SharedCalls
<1>4. \A u \in Threads : ~Admitted(u)'
    BY <1>1, <1>2, <1>3 DEF OrderInv, OneAtATime
<1>5. QueueOK'
    <2>1. queue' \in Seq(Threads)
        BY <1>2
    <2>2. \A i, j \in 1 .. n - 1 : queue'[i] = queue'[j] => i = j
        <3> SUFFICES ASSUME NEW i \in 1 .. n - 1, NEW j \in 1 .. n - 1, queue'[i] = queue'[j]
                     PROVE  i = j
            OBVIOUS
        <3>1. queue[i + 1] = queue[j + 1] /\ i + 1 \in 1 .. n /\ j + 1 \in 1 .. n
            BY <1>2
        <3>2. i + 1 = j + 1
            BY <3>1 DEF OrderInv, QueueOK
        <3> QED BY <3>2
    <2>3. \A u \in Threads : InLine(u)' <=> \E i \in 1 .. n - 1 : queue'[i] = u
        <3> SUFFICES ASSUME NEW u \in Threads
                     PROVE  InLine(u)' <=> \E i \in 1 .. n - 1 : queue'[i] = u
            OBVIOUS
        <3>1. \A i \in 1 .. n - 1 : queue'[i] # t
            <4> SUFFICES ASSUME NEW i \in 1 .. n - 1, queue'[i] = t PROVE FALSE
                OBVIOUS
            <4>1. queue[i + 1] = queue[1] /\ i + 1 \in 1 .. n /\ 1 \in 1 .. n
                BY <1>2
            <4>2. i + 1 = 1
                BY <4>1 DEF OrderInv, QueueOK
            <4> QED BY <4>2
        <3>2. CASE u = t
            BY <1>3, <3>1, <3>2
        <3>3. CASE u # t
            <4>1. (\E i \in 1 .. n : queue[i] = u) <=> (\E i \in 1 .. n - 1 : queue'[i] = u)
                <5>1. ASSUME NEW i \in 1 .. n, queue[i] = u
                      PROVE  \E j \in 1 .. n - 1 : queue'[j] = u
                    <6>1. i - 1 \in 1 .. n - 1
                        BY <1>2, <3>3, <5>1
                    <6>2. queue'[i - 1] = queue[(i - 1) + 1] /\ (i - 1) + 1 = i
                        BY <1>2, <6>1
                    <6> QED BY <5>1, <6>1, <6>2
                <5>2. ASSUME NEW i \in 1 .. n - 1, queue'[i] = u
                      PROVE  \E j \in 1 .. n : queue[j] = u
                    BY <1>2, <5>2
                <5> QED BY <5>1, <5>2
            <4> QED BY <1>3, <3>3, <4>1 DEF OrderInv, QueueOK
        <3> QED BY <3>2, <3>3
    <2> QED BY <1>2, <2>1, <2>2, <2>3 DEF QueueOK
<1>6. TicketsRun'
    <2>1. /\ n \in 1 .. LockIds /\ nextLockId \in 0 .. LockIds - 1
          /\ lockId' = lockId /\ nextLockId' = Inc(nextLockId) /\ currentLockId' = currentLockId
        BY <1>2, TicketsSuffice DEF OrderInv, IInv, StateOK, AdvanceShared, AdvanceExclusive
    <2>2. ASSUME NEW i \in 0 .. LockIds - 1
          PROVE  (Inc(nextLockId) + i) % LockIds = (nextLockId + i + 1) % LockIds
        <3>1. Inc(nextLockId) = IF nextLockId + 1 < LockIds THEN nextLockId + 1 ELSE 0
            BY <2>1, IncValue
        <3>2. CASE nextLockId + 1 < LockIds
            <4>1. Inc(nextLockId) + i = nextLockId + i + 1
                BY <2>1, <3>1, <3>2
            <4> QED BY <4>1
        <3>3. CASE nextLockId + 1 = LockIds
            <4>1. Inc(nextLockId) + i = i /\ nextLockId + i + 1 = LockIds + i
                BY <2>1, <3>1, <3>3, LockIdsPositive
            <4>2. i % LockIds = i /\ LockIds + i \in LockIds .. 2 * LockIds - 1
                BY ModSmall, LockIdsPositive
            <4>3. (LockIds + i) % LockIds = (LockIds + i) - LockIds
                BY <4>2, ModLarge
            <4>4. (LockIds + i) - LockIds = i
                BY LockIdsPositive
            <4>5. (Inc(nextLockId) + i) % LockIds = i
                BY <4>1, <4>2
            <4>6. (nextLockId + i + 1) % LockIds = i
                BY <4>1, <4>3, <4>4
            <4> QED BY <4>5, <4>6
        <3> QED BY <2>1, <3>2, <3>3, LockIdsPositive
    <2>3. \A i \in 1 .. n - 1 :
              lockId'[queue'[i]] = (Inc(nextLockId) + i - 1) % LockIds
        <3> SUFFICES ASSUME NEW i \in 1 .. n - 1
                     PROVE  lockId'[queue'[i]] = (Inc(nextLockId) + i - 1) % LockIds
            OBVIOUS
        <3>1. i + 1 \in 1 .. n /\ i - 1 \in 0 .. LockIds - 1
            BY <2>1, LockIdsPositive
        <3>2. lockId[queue[i + 1]] = (nextLockId + (i + 1) - 1) % LockIds
            BY <3>1 DEF OrderInv, TicketsRun
        <3>3. (Inc(nextLockId) + (i - 1)) % LockIds = (nextLockId + (i - 1) + 1) % LockIds
            BY <2>2, <3>1
        <3>4. nextLockId + (i - 1) + 1 = nextLockId + (i + 1) - 1
              /\ Inc(nextLockId) + (i - 1) = Inc(nextLockId) + i - 1
            BY <2>1, IncType
        <3>5. lockId'[queue'[i]] = lockId[queue[i + 1]]
            BY <1>2, <2>1
        <3> QED BY <3>2, <3>3, <3>4, <3>5
    <2>4. currentLockId = (Inc(nextLockId) + (n - 1)) % LockIds
        <3>1. n - 1 \in 0 .. LockIds - 1 /\ nextLockId + (n - 1) + 1 = nextLockId + n
            BY <2>1, LockIdsPositive
        <3>2. (Inc(nextLockId) + (n - 1)) % LockIds = (nextLockId + (n - 1) + 1) % LockIds
            BY <2>2, <3>1
        <3>3. currentLockId = (nextLockId + n) % LockIds
            BY DEF OrderInv, TicketsRun
        <3> QED BY <3>1, <3>2, <3>3
    <2> QED BY <1>2, <2>1, <2>3, <2>4 DEF TicketsRun
<1> QED BY <1>3, <1>4, <1>5, <1>6 DEF OrderInv, OneAtATime

(* The steps between the turnstile and the hold, and those of the callers  *)
(* that drew no ticket.                                                    *)
LEMMA OtherStep ==
    ASSUME IInv, OrderInv, NEW t \in Threads,
           \/ Request(t) \/ AddShare(t) \/ AwaitNoWriter(t)
           \/ TryLoadLockType(t) \/ TrySubShare(t) \/ CasLockType(t) \/ AwaitNoReader(t)
           \/ TryCasLockType(t) \/ TryLoadShareCount(t) \/ TryClearLockType(t)
           \/ unlock_shared(t) \/ unlock(t)
    PROVE  OrderInv'
<1> USE DEF InLine, Admitted, At, Goto, Return, Tickets, IInv, StateOK, OrderInv,
        TriesDoNotAdvance, TicketCalls, SharedCalls, ExclusiveCalls
<1>1. CASE Request(t)
    BY <1>1, OrderStands DEF Request, Enter
<1>2. CASE AddShare(t) \/ AwaitNoWriter(t) \/ TryLoadLockType(t) \/ TrySubShare(t)
    BY <1>2, OrderStands DEF AddShare, AwaitNoWriter, TryLoadLockType, TrySubShare
<1>3. CASE CasLockType(t) \/ AwaitNoReader(t)
    BY <1>3, OrderStands DEF CasLockType, AwaitNoReader
<1>4. CASE TryCasLockType(t) \/ TryLoadShareCount(t) \/ TryClearLockType(t)
    BY <1>4, OrderStands DEF TryCasLockType, TryLoadShareCount, TryClearLockType
<1>5. CASE unlock_shared(t)
    BY <1>5, OrderStands DEF unlock_shared
<1>6. CASE unlock(t)
    <2>1. lockType = LOCK_WRITE_BIT <=> call[t] = "lock"
        BY <1>6 DEF unlock, LockWordsAgree, Claiming
    <2> QED BY <1>6, <2>1, OrderStands DEF unlock
<1> QED BY <1>1, <1>2, <1>3, <1>4, <1>5, <1>6

(* The one that is let past the turnstile is the first in line.            *)
LEMMA TurnStep ==
    ASSUME IInv, OrderInv, NEW t \in Threads, AwaitTurn(t)
    PROVE  OrderInv'
<1>1. queue # <<>> /\ t = Head(queue)
    BY OnlyTheFirstIsShown DEF IInv, OrderInv, AwaitTurn, At, InLine
<1>2. \A u \in Threads : /\ InLine(u)' <=> InLine(u)
                         /\ Admitted(u)' => Admitted(u) \/ u = t
                         /\ (pc[u] = "advance")' => (call[u] \in TicketCalls)'
    BY DEF AwaitTurn, InLine, Admitted, At, Goto, OrderInv, TriesDoNotAdvance, IInv, StateOK,
       TicketCalls
<1>3. QueueOK'
    BY <1>2 DEF AwaitTurn, Tickets, OrderInv, QueueOK
<1>4. OneAtATime' /\ TriesDoNotAdvance'
    BY <1>1, <1>2 DEF AwaitTurn, Tickets, OrderInv, OneAtATime, TriesDoNotAdvance
<1>5. TicketsRun'
    BY DEF AwaitTurn, Tickets, OrderInv, TicketsRun
<1> QED BY <1>3, <1>4, <1>5 DEF OrderInv

LEMMA OrderStep == IInv /\ OrderInv /\ [Next]_vars => OrderInv'
<1> SUFFICES ASSUME IInv, OrderInv, [Next]_vars PROVE OrderInv'
    OBVIOUS
<1>1. CASE UNCHANGED vars
    BY <1>1, OrderStands DEF vars, Tickets, InLine, Admitted, OrderInv, TriesDoNotAdvance
<1>2. CASE Next
    BY <1>2, DrawStep, TurnStep, AdvanceStep, OtherStep DEF Next, Running, Release
<1> QED BY <1>1, <1>2

LEMMA OrderInvHolds == Spec => []OrderInv
BY InitOrder, OrderStep, IInvHolds, PTL DEF Spec

(* No caller passes the turn on when nobody is in line, and neither count  *)
(* leaves its range.                                                       *)
THEOREM TypeCorrect == Spec => []TypeOK
<1>1. IInv /\ OrderInv => TypeOK
    BY DEF IInv, OrderInv, QueueOK, TypeOK
<1> QED BY <1>1, IInvHolds, OrderInvHolds, PTL

(* Of the callers that drew a ticket only the first is past the turnstile, *)
(* and the tickets of those in line are consecutive, for any number of     *)
(* threads that have a ticket number each and any number of wrap-arounds.  *)
THEOREM TicketOrderHolds == Spec => []ServedInTicketOrder
<1>1. OrderInv => ServedInTicketOrder
    BY DEF OrderInv, OneAtATime, TicketsRun, ServedInTicketOrder, Admitted, At
<1> QED BY <1>1, OrderInvHolds, PTL
=============================================================================
