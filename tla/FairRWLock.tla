----------------------------- MODULE FairRWLock -----------------------------
(***************************************************************************)
(* ls::utils::FairRWLock: the readers/writer lock whose blocking calls are *)
(* admitted in ticket order.  A caller draws a ticket from currentLockId,  *)
(* waits until nextLockId shows it, claims the lock the way RWLock does    *)
(* and, unlike RWLock, keeps the claim while it waits for the other side.  *)
(* A reader passes the turn on when it holds the lock, a writer when it    *)
(* releases it.  try_lock and try_lock_shared draw no ticket.              *)
(*                                                                         *)
(* Both ticket counters are 16 bits wide and wrap; LockIds stands for 2^16.*)
(***************************************************************************)
EXTENDS Integers, FiniteSets, Sequences

CONSTANTS Threads, LockIds

ASSUME ThreadsFinite == IsFiniteSet(Threads)
ASSUME LockIdsPositive == LockIds \in Nat \ {0}

\* Fairness, not exclusion, needs a ticket number for every caller in line.
ASSUME EnoughTickets == Cardinality(Threads) <= LockIds

VARIABLES lockType, shareCount, nextLockId, currentLockId,
          pc,      \* where each thread is inside the call it makes
          call,    \* the call it makes, or "none"
          lockId,  \* the ticket in the local variable lockId of lock/lock_shared
          queue    \* history: ticket holders not yet passed, in the order they drew

vars == <<lockType, shareCount, nextLockId, currentLockId, pc, call, lockId, queue>>

LOCK_WRITE_BIT     == 1
LOCK_TRY_WRITE_BIT == 3

SharedCalls    == {"lock_shared", "try_lock_shared"}
ExclusiveCalls == {"lock", "try_lock"}
TicketCalls    == {"lock_shared", "lock"}

\* "turn": waiting for the ticket to come up; "claim": about to publish the
\* claim; "check": looking at the other side's word; "undo": withdrawing a
\* failed try; "advance": about to pass the turn on.
Places == {"idle", "ticket", "turn", "claim", "check", "undo", "advance", "hold"}

Init ==
    /\ lockType = 0 /\ shareCount = 0
    /\ nextLockId = 0 /\ currentLockId = 0
    /\ pc = [t \in Threads |-> "idle"]
    /\ call = [t \in Threads |-> "none"]
    /\ lockId = [t \in Threads |-> 0]
    /\ queue = <<>>

-----------------------------------------------------------------------------
Inc(id) == (id + 1) % LockIds

At(t, place, calls) == pc[t] = place /\ call[t] \in calls

Goto(t, place) == pc' = [pc EXCEPT ![t] = place] /\ UNCHANGED call

Return(t) ==
    /\ pc' = [pc EXCEPT ![t] = "idle"]
    /\ call' = [call EXCEPT ![t] = "none"]

Tickets == <<nextLockId, currentLockId, lockId, queue>>

Enter(t, c) ==
    /\ pc[t] = "idle"
    /\ pc' = [pc EXCEPT ![t] = IF c \in TicketCalls THEN "ticket" ELSE "claim"]
    /\ call' = [call EXCEPT ![t] = c]
    /\ UNCHANGED <<lockType, shareCount, Tickets>>

-----------------------------------------------------------------------------
(* The ticket, common to lock and lock_shared *)

DrawTicket(t) ==
    /\ At(t, "ticket", TicketCalls)
    /\ lockId' = [lockId EXCEPT ![t] = currentLockId]
    /\ currentLockId' = Inc(currentLockId)
    /\ queue' = Append(queue, t)
    /\ Goto(t, "turn")
    /\ UNCHANGED <<lockType, shareCount, nextLockId>>

\* Mutant: the waiter compares with <= instead of waiting for equality.
AwaitTurn_AtLeast(t) ==
    /\ At(t, "turn", TicketCalls)
    /\ nextLockId <= lockId[t]
    /\ Goto(t, "claim")
    /\ UNCHANGED <<lockType, shareCount, Tickets>>

AwaitTurn(t) ==
    /\ At(t, "turn", TicketCalls)
    /\ lockId[t] = nextLockId
    /\ Goto(t, "claim")
    /\ UNCHANGED <<lockType, shareCount, Tickets>>

-----------------------------------------------------------------------------
(* lock_shared and try_lock_shared *)

AddShare(t) ==
    /\ At(t, "claim", SharedCalls)
    /\ shareCount' = shareCount + 1
    /\ Goto(t, "check")
    /\ UNCHANGED <<lockType, Tickets>>

\* lock_shared keeps its share and spins until the word is zero.
AwaitNoWriter(t) ==
    /\ At(t, "check", {"lock_shared"})
    /\ lockType = 0
    /\ Goto(t, "advance")
    /\ UNCHANGED <<lockType, shareCount, Tickets>>

TryLoadLockType(t) ==
    /\ At(t, "check", {"try_lock_shared"})
    /\ \/ lockType = 0 /\ Goto(t, "hold")
       \/ lockType # 0 /\ Goto(t, "undo")
    /\ UNCHANGED <<lockType, shareCount, Tickets>>

\* Mutant: the failed try keeps its share.
TrySubShare_Forgotten(t) ==
    /\ At(t, "undo", {"try_lock_shared"})
    /\ Return(t)
    /\ UNCHANGED <<lockType, shareCount, Tickets>>

TrySubShare(t) ==
    /\ At(t, "undo", {"try_lock_shared"})
    /\ shareCount' = shareCount - 1
    /\ Return(t)
    /\ UNCHANGED <<lockType, Tickets>>

\* Mutant: a reader keeps its turn.
AdvanceShared_Forgotten(t) ==
    /\ At(t, "advance", {"lock_shared"})
    /\ queue' = Tail(queue)
    /\ Goto(t, "hold")
    /\ UNCHANGED <<lockType, shareCount, nextLockId, currentLockId, lockId>>

AdvanceShared(t) ==
    /\ At(t, "advance", {"lock_shared"})
    /\ nextLockId' = Inc(nextLockId)
    /\ queue' = Tail(queue)
    /\ Goto(t, "hold")
    /\ UNCHANGED <<lockType, shareCount, currentLockId, lockId>>

-----------------------------------------------------------------------------
(* lock and try_lock *)

CasLockType(t) ==
    /\ At(t, "claim", {"lock"})
    /\ lockType = 0
    /\ lockType' = LOCK_WRITE_BIT
    /\ Goto(t, "check")
    /\ UNCHANGED <<shareCount, Tickets>>

\* Mutant: the writer does not wait for the readers ahead of it to leave.
AwaitNoReader_Unchecked(t) ==
    /\ At(t, "check", {"lock"})
    /\ Goto(t, "hold")
    /\ UNCHANGED <<lockType, shareCount, Tickets>>

AwaitNoReader(t) ==
    /\ At(t, "check", {"lock"})
    /\ shareCount = 0
    /\ Goto(t, "hold")
    /\ UNCHANGED <<lockType, shareCount, Tickets>>

TryCasLockType(t) ==
    /\ At(t, "claim", {"try_lock"})
    /\ \/ lockType = 0 /\ lockType' = LOCK_TRY_WRITE_BIT /\ Goto(t, "check")
       \/ lockType # 0 /\ UNCHANGED lockType /\ Return(t)
    /\ UNCHANGED <<shareCount, Tickets>>

TryLoadShareCount(t) ==
    /\ At(t, "check", {"try_lock"})
    /\ \/ shareCount = 0 /\ Goto(t, "hold")
       \/ shareCount # 0 /\ Goto(t, "undo")
    /\ UNCHANGED <<lockType, shareCount, Tickets>>

TryClearLockType(t) ==
    /\ At(t, "undo", {"try_lock"})
    /\ lockType' = 0
    /\ Return(t)
    /\ UNCHANGED <<shareCount, Tickets>>

-----------------------------------------------------------------------------
unlock_shared(t) ==
    /\ At(t, "hold", SharedCalls)
    /\ shareCount' = shareCount - 1
    /\ Return(t)
    /\ UNCHANGED <<lockType, Tickets>>

\* unlock: the exchange returns the old word, which tells a writer that drew
\* a ticket (it must pass the turn on) from one that came by try_lock.
unlock(t) ==
    /\ At(t, "hold", ExclusiveCalls)
    /\ lockType' = 0
    /\ \/ lockType = LOCK_WRITE_BIT /\ Goto(t, "advance")
       \/ lockType # LOCK_WRITE_BIT /\ Return(t)
    /\ UNCHANGED <<shareCount, Tickets>>

AdvanceExclusive(t) ==
    /\ At(t, "advance", ExclusiveCalls)
    /\ nextLockId' = Inc(nextLockId)
    /\ queue' = Tail(queue)
    /\ Return(t)
    /\ UNCHANGED <<lockType, shareCount, currentLockId, lockId>>

-----------------------------------------------------------------------------
Request(t) == \E c \in SharedCalls \cup ExclusiveCalls : Enter(t, c)

\* The steps of a thread inside a call; one that spins has none until the
\* word it watches changes.
Running(t) ==
    \/ DrawTicket(t) \/ AwaitTurn(t)
    \/ AddShare(t) \/ AwaitNoWriter(t) \/ AdvanceShared(t)
    \/ TryLoadLockType(t) \/ TrySubShare(t)
    \/ CasLockType(t) \/ AwaitNoReader(t)
    \/ TryCasLockType(t) \/ TryLoadShareCount(t) \/ TryClearLockType(t)
    \/ AdvanceExclusive(t)

Release(t) == unlock_shared(t) \/ unlock(t)

Next == \E t \in Threads : Request(t) \/ Running(t) \/ Release(t)

Spec == Init /\ [][Next]_vars

\* Threads inside a call are scheduled, and callers release what they hold;
\* nobody is obliged to call.
FairSpec == Spec /\ \A t \in Threads : WF_vars(Running(t)) /\ WF_vars(Release(t))

-----------------------------------------------------------------------------
Readers == {t \in Threads : At(t, "hold", SharedCalls)}
Writers == {t \in Threads : At(t, "hold", ExclusiveCalls)}

Sharing ==
    {t \in Threads : /\ pc[t] \in {"check", "undo", "advance", "hold"}
                     /\ call[t] \in SharedCalls}
Claiming ==
    {t \in Threads : /\ pc[t] \in {"check", "undo", "hold"}
                     /\ call[t] \in ExclusiveCalls}

\* Types of the variables, history apart.
StateOK ==
    /\ lockType \in {0, LOCK_WRITE_BIT, LOCK_TRY_WRITE_BIT}
    /\ shareCount \in Nat
    /\ nextLockId \in 0..LockIds - 1
    /\ currentLockId \in 0..LockIds - 1
    /\ pc \in [Threads -> Places]
    /\ call \in [Threads -> SharedCalls \cup ExclusiveCalls \cup {"none"}]
    /\ lockId \in [Threads -> 0..LockIds - 1]

(* Types, with the unsigned share count never below zero and no caller     *)
(* passing the turn on when nobody is in line.                             *)
TypeOK == StateOK /\ queue \in Seq(Threads)

(* A writer is alone, whether it came by ticket or by try_lock. *)
MutualExclusion == \A w \in Writers : Readers = {} /\ Writers = {w}

(* The words say exactly who claims the lock, and the write bit says how:  *)
(* unlock relies on it to decide whether the turn is to be passed on.      *)
LockWordsAgree ==
    /\ shareCount = Cardinality(Sharing)
    /\ lockType = 0 <=> Claiming = {}
    /\ \A t, u \in Claiming : t = u
    /\ \A t \in Claiming : lockType = LOCK_WRITE_BIT <=> call[t] = "lock"

(* "Fair": of the callers that drew a ticket, only the one that drew first *)
(* is past the turnstile, although both counters wrap: no ticket is shown  *)
(* to two callers and none is skipped.                                     *)
ServedInTicketOrder ==
    /\ \A t \in Threads :
         At(t, "claim", TicketCalls) \/ At(t, "check", TicketCalls)
            \/ At(t, "advance", TicketCalls) \/ At(t, "hold", {"lock"})
         => queue # <<>> /\ t = Head(queue)
    /\ \A i \in 1..Len(queue) : lockId[queue[i]] = (nextLockId + i - 1) % LockIds

(* No blocking caller starves, readers and writers alike, once callers of  *)
(* the ticketless try_ forms stop: they can overtake for ever.             *)
TriesCease == \A t \in Threads : call[t] \notin {"try_lock", "try_lock_shared"}

NoStarvation ==
    <>[]TriesCease =>
        \A t \in Threads : At(t, "ticket", TicketCalls) ~> pc[t] = "hold"
=============================================================================
