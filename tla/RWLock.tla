------------------------------- MODULE RWLock -------------------------------
(***************************************************************************)
(* ls::utils::RWLock, the spinning readers/writer lock.  Two atomic words: *)
(* mLockType is non-zero while a writer holds or claims the lock, and      *)
(* mShareCount counts the readers that hold or claim it.  Each side first  *)
(* publishes its claim, then looks at the other word, and withdraws the    *)
(* claim when the other side was there first.                              *)
(*                                                                         *)
(* A step is one access of one atomic word; the interleaving is            *)
(* sequentially consistent.  A thread follows the locking protocol: it     *)
(* unlocks only what it holds.                                             *)
(***************************************************************************)
EXTENDS Integers, FiniteSets

CONSTANT Threads

ASSUME ThreadsFinite == IsFiniteSet(Threads)

VARIABLES mLockType, mShareCount,
          pc,     \* where each thread is inside the call it makes
          call    \* the call it makes, or "none"

vars == <<mLockType, mShareCount, pc, call>>

LOCK_TRY_WRITE_BIT == 3

SharedCalls    == {"lock_shared", "try_lock_shared"}
ExclusiveCalls == {"lock", "try_lock"}
BlockingCalls  == {"lock", "lock_shared"}

Places == {"idle", "attempt", "check", "undo", "hold"}

Init ==
    /\ mLockType = 0
    /\ mShareCount = 0
    /\ pc = [t \in Threads |-> "idle"]
    /\ call = [t \in Threads |-> "none"]

-----------------------------------------------------------------------------
Goto(t, place) == pc' = [pc EXCEPT ![t] = place] /\ UNCHANGED call

Return(t) ==
    /\ pc' = [pc EXCEPT ![t] = "idle"]
    /\ call' = [call EXCEPT ![t] = "none"]

\* lock and lock_shared try again; try_lock and try_lock_shared give up.
AttemptFailed(t) ==
    \/ call[t] \in BlockingCalls /\ Goto(t, "attempt")
    \/ call[t] \notin BlockingCalls /\ Return(t)

Enter(t, c) ==
    /\ pc[t] = "idle"
    /\ pc' = [pc EXCEPT ![t] = "attempt"]
    /\ call' = [call EXCEPT ![t] = c]
    /\ UNCHANGED <<mLockType, mShareCount>>

At(t, place, calls) == pc[t] = place /\ call[t] \in calls

-----------------------------------------------------------------------------
(* try_lock_shared *)

AddShare(t) ==
    /\ At(t, "attempt", SharedCalls)
    /\ mShareCount' = mShareCount + 1
    /\ Goto(t, "check")
    /\ UNCHANGED mLockType

LoadLockType(t) ==
    /\ At(t, "check", SharedCalls)
    /\ \/ mLockType = 0 /\ Goto(t, "hold")
       \/ mLockType # 0 /\ Goto(t, "undo")
    /\ UNCHANGED <<mLockType, mShareCount>>

\* Mutant: the failed attempt keeps its share.
SubShare_Forgotten(t) ==
    /\ At(t, "undo", SharedCalls)
    /\ AttemptFailed(t)
    /\ UNCHANGED <<mLockType, mShareCount>>

SubShare(t) ==
    /\ At(t, "undo", SharedCalls)
    /\ mShareCount' = mShareCount - 1
    /\ AttemptFailed(t)
    /\ UNCHANGED mLockType

-----------------------------------------------------------------------------
(* try_lock *)

\* Mutant: the claim is stored whatever the word holds.
CasLockType_PlainStore(t) ==
    /\ At(t, "attempt", ExclusiveCalls)
    /\ mLockType' = LOCK_TRY_WRITE_BIT
    /\ Goto(t, "check")
    /\ UNCHANGED mShareCount

CasLockType(t) ==
    /\ At(t, "attempt", ExclusiveCalls)
    /\ \/ mLockType = 0 /\ mLockType' = LOCK_TRY_WRITE_BIT /\ Goto(t, "check")
       \/ mLockType # 0 /\ UNCHANGED mLockType /\ AttemptFailed(t)
    /\ UNCHANGED mShareCount

\* Mutant: having won the claim, the writer does not look for readers.
LoadShareCount_Unchecked(t) ==
    /\ At(t, "check", ExclusiveCalls)
    /\ Goto(t, "hold")
    /\ UNCHANGED <<mLockType, mShareCount>>

LoadShareCount(t) ==
    /\ At(t, "check", ExclusiveCalls)
    /\ \/ mShareCount = 0 /\ Goto(t, "hold")
       \/ mShareCount # 0 /\ Goto(t, "undo")
    /\ UNCHANGED <<mLockType, mShareCount>>

\* Mutant: the claim of the failed attempt stays.
ClearLockType_Forgotten(t) ==
    /\ At(t, "undo", ExclusiveCalls)
    /\ AttemptFailed(t)
    /\ UNCHANGED <<mLockType, mShareCount>>

ClearLockType(t) ==
    /\ At(t, "undo", ExclusiveCalls)
    /\ mLockType' = 0
    /\ AttemptFailed(t)
    /\ UNCHANGED mShareCount

-----------------------------------------------------------------------------
unlock_shared(t) ==
    /\ At(t, "hold", SharedCalls)
    /\ mShareCount' = mShareCount - 1
    /\ Return(t)
    /\ UNCHANGED mLockType

unlock(t) ==
    /\ At(t, "hold", ExclusiveCalls)
    /\ mLockType' = 0
    /\ Return(t)
    /\ UNCHANGED mShareCount

-----------------------------------------------------------------------------
Request(t) == \E c \in SharedCalls \cup ExclusiveCalls : Enter(t, c)

\* The steps a running thread takes inside lock, lock_shared and their try_ forms.
Acquiring(t) ==
    \/ AddShare(t) \/ LoadLockType(t) \/ SubShare(t)
    \/ CasLockType(t) \/ LoadShareCount(t) \/ ClearLockType(t)

Release(t) == unlock_shared(t) \/ unlock(t)

Next == \E t \in Threads : Request(t) \/ Acquiring(t) \/ Release(t)

Spec == Init /\ [][Next]_vars

\* A thread inside a call is scheduled again and again; nobody is obliged to
\* call, nor to release.
FairSpec == Spec /\ \A t \in Threads : WF_vars(Acquiring(t))

-----------------------------------------------------------------------------
(* Who has published a claim, and who holds the lock. *)

Claims(t, calls) == pc[t] \in {"check", "undo", "hold"} /\ call[t] \in calls

Readers == {t \in Threads : At(t, "hold", SharedCalls)}
Writers == {t \in Threads : At(t, "hold", ExclusiveCalls)}

Sharing  == {t \in Threads : Claims(t, SharedCalls)}
Claiming == {t \in Threads : Claims(t, ExclusiveCalls)}

(* Every word and every thread's place keeps its type; in particular the   *)
(* share count never drops below zero (it is unsigned in the code).        *)
TypeOK ==
    /\ mLockType \in {0, LOCK_TRY_WRITE_BIT}
    /\ mShareCount \in Nat
    /\ pc \in [Threads -> Places]
    /\ call \in [Threads -> SharedCalls \cup ExclusiveCalls \cup {"none"}]
    /\ \A t \in Threads : pc[t] = "idle" <=> call[t] = "none"

(* The promise of lock and lock_shared: a writer is alone, whatever the    *)
(* interleaving of the two Dekker-style handshakes.                        *)
MutualExclusion ==
    \A w \in Writers : Readers = {} /\ Writers = {w}

(* The two words say exactly who claims the lock: no failed attempt leaves *)
(* a share or a write bit behind, and none withdraws somebody else's.      *)
LockWordsAgree ==
    /\ mShareCount = Cardinality(Sharing)
    /\ mLockType = 0 <=> Claiming = {}
    /\ \A t, u \in Claiming : t = u

(* The lock keeps the promise of SharedExclusive: each successful check is *)
(* an atomic acquisition, each unlock an atomic release.                   *)
Abstract == INSTANCE SharedExclusive WITH readers <- Readers, writers <- Writers

ImplementsSharedExclusive == Abstract!Spec

(* A blocking call succeeds once the calls that conflict with it cease:    *)
(* lock_shared needs no more exclusive calls, lock needs every other       *)
(* thread out.  (With endless conflicting calls RWLock starves, and a      *)
(* reader and a writer can undo each other's attempts for ever.)           *)
ConflictsCease(t, c) == \A u \in Threads \ {t} :
    \/ call[u] = "none"
    \/ c = "lock_shared" /\ call[u] \in SharedCalls

ProgressWithoutConflict == \A t \in Threads, c \in BlockingCalls :
    <>[]ConflictsCease(t, c) => (call[t] = c ~> pc[t] = "hold")
=============================================================================
