----------------------- MODULE Synchronisation_proofs ------------------------
(***************************************************************************)
(* RWLock, the exclusive locks and the barriers, for any finite set of     *)
(* threads, any number of pauses and any number of calls.                  *)
(*                                                                         *)
(* RWLock: mutual exclusion is not inductive alone: that a writer whose    *)
(* check succeeds is alone follows from the words being exact              *)
(* (LockWordsAgree): mShareCount = 0 means that nobody shares, not even    *)
(* transiently.                                                            *)
(*                                                                         *)
(* The locks: exclusion is inductive with the typing, since mLock is       *)
(* exact. That SystemFutexLinux loses no wake-up needs that only its       *)
(* lock() ever sleeps (WhoSleeps): a thread that has been woken is then    *)
(* inside lock and on its way to the word, and the unlock that frees the   *)
(* word goes to wake.                                                      *)
(*                                                                         *)
(* The barriers: what a thread sees on its way out is mBarrierCount, so    *)
(* the invariant bounds it from both sides: every count is a different     *)
(* thread that came (CountsThreads), and the threads inside are among      *)
(* those counted (CoversTheWaiting), which is what the pthread barrier     *)
(* lets go by.  A thread is counted once only because the count is never   *)
(* reset: whoever comes again finds it full (OnlyThroughAFullOne).         *)
(***************************************************************************)
EXTENDS Synchronisation, FiniteSetTheorems, TLAPS

-----------------------------------------------------------------------------
(* RWLock                                                                  *)

IInv == TypeOK /\ LockWordsAgree /\ MutualExclusion

-----------------------------------------------------------------------------
(* The share count counts a finite set. *)

LEMMA SharingFinite == IsFiniteSet(Sharing) /\ Cardinality(Sharing) \in Nat
BY ThreadsFinite, FS_Subset, FS_CardinalityType DEF Sharing

(* A count that moves by one while one member joins or leaves stays exact. *)
LEMMA CountAfterJoin ==
    ASSUME NEW S, IsFiniteSet(S), NEW x, x \notin S
    PROVE  Cardinality(S \cup {x}) = Cardinality(S) + 1
BY FS_AddElement

LEMMA CountAfterLeave ==
    ASSUME NEW S, IsFiniteSet(S), NEW x, x \in S
    PROVE  Cardinality(S \ {x}) = Cardinality(S) - 1 /\ Cardinality(S) > 0
<1>1. Cardinality(S \ {x}) = Cardinality(S) - 1
    BY FS_RemoveElement
<1>2. IsFiniteSet(S \ {x})
    BY FS_RemoveElement
<1>3. Cardinality(S \ {x}) \in Nat /\ Cardinality(S) \in Nat
    BY <1>2, FS_CardinalityType
<1> QED BY <1>1, <1>3

-----------------------------------------------------------------------------
LEMMA InitIInv == Init => IInv
<1> SUFFICES ASSUME Init PROVE IInv
    OBVIOUS
<1>1. Sharing = {} /\ Claiming = {} /\ Readers = {} /\ Writers = {}
    BY DEF Init, Sharing, Claiming, Readers, Writers, Claims, At
<1>2. TypeOK
    BY DEF Init, TypeOK, Places
<1>3. LockWordsAgree
    BY <1>1, FS_EmptySet DEF Init, LockWordsAgree
<1> QED BY <1>1, <1>2, <1>3 DEF IInv, MutualExclusion

(* Typing: the only arithmetic that could leave Nat is a decrement, and    *)
(* the thread that makes it is counted.                                    *)
LEMMA TypeStep == IInv /\ [Next]_vars => TypeOK'
<1> SUFFICES ASSUME IInv, [Next]_vars PROVE TypeOK'
    OBVIOUS
<1> USE DEF IInv, TypeOK, Places, SharedCalls, ExclusiveCalls, BlockingCalls,
            LOCK_TRY_WRITE_BIT, At, Goto, Return
<1>1. CASE UNCHANGED vars
    BY <1>1 DEF vars
<1>2. ASSUME NEW t \in Threads, Request(t) PROVE TypeOK'
    BY <1>2 DEF Request, Enter
<1>3. ASSUME NEW t \in Threads, AddShare(t) PROVE TypeOK'
    BY <1>3 DEF AddShare
<1>4. ASSUME NEW t \in Threads, LoadLockType(t) PROVE TypeOK'
    BY <1>4 DEF LoadLockType
<1>5. ASSUME NEW t \in Threads, t \in Sharing PROVE mShareCount - 1 \in Nat
    <2>1. Cardinality(Sharing) > 0
        BY <1>5, SharingFinite, CountAfterLeave
    <2> QED BY <2>1, SharingFinite DEF LockWordsAgree
<1>6. ASSUME NEW t \in Threads, SubShare(t) PROVE TypeOK'
    <2>1. t \in Sharing
        BY <1>6 DEF SubShare, Sharing, Claims
    <2> QED BY <1>5, <1>6, <2>1 DEF SubShare, AttemptFailed
<1>7. ASSUME NEW t \in Threads, CasLockType(t) PROVE TypeOK'
    BY <1>7 DEF CasLockType, AttemptFailed
<1>8. ASSUME NEW t \in Threads, LoadShareCount(t) PROVE TypeOK'
    BY <1>8 DEF LoadShareCount
<1>9. ASSUME NEW t \in Threads, ClearLockType(t) PROVE TypeOK'
    BY <1>9 DEF ClearLockType, AttemptFailed
<1>10. ASSUME NEW t \in Threads, unlock_shared(t) PROVE TypeOK'
    <2>1. t \in Sharing
        BY <1>10 DEF unlock_shared, Sharing, Claims
    <2> QED BY <1>5, <1>10, <2>1 DEF unlock_shared
<1>11. ASSUME NEW t \in Threads, unlock(t) PROVE TypeOK'
    BY <1>11 DEF unlock
<1> QED
    BY <1>1, <1>2, <1>3, <1>4, <1>6, <1>7, <1>8, <1>9, <1>10, <1>11
    DEF Next, Acquiring, Release

-----------------------------------------------------------------------------
(* How each step moves the four sets: only AddShare joins Sharing, only a  *)
(* winning compare-and-swap joins Claiming, and only a check that finds    *)
(* the other word zero makes a holder.                                     *)

LEMMA QuietStep ==
    ASSUME TypeOK, NEW t \in Threads, Request(t) \/ UNCHANGED vars
    PROVE  /\ UNCHANGED <<Sharing, Claiming, Readers, Writers>>
           /\ UNCHANGED <<mLockType, mShareCount>>
BY DEF TypeOK, Request, Enter, vars, Sharing, Claiming, Readers, Writers, Claims,
       At, SharedCalls, ExclusiveCalls

LEMMA AddShareStep ==
    ASSUME TypeOK, NEW t \in Threads, AddShare(t)
    PROVE  /\ t \notin Sharing
           /\ Sharing' = Sharing \cup {t}
           /\ UNCHANGED <<Claiming, Readers, Writers>>
BY DEF TypeOK, AddShare, Sharing, Claiming, Readers, Writers, Claims, At, Goto,
       SharedCalls, ExclusiveCalls

LEMMA LoadLockTypeStep ==
    ASSUME TypeOK, NEW t \in Threads, LoadLockType(t)
    PROVE  /\ UNCHANGED <<Sharing, Claiming, Writers, mLockType, mShareCount>>
           /\ \/ mLockType = 0 /\ t \notin Readers /\ Readers' = Readers \cup {t}
              \/ UNCHANGED Readers
BY DEF TypeOK, LoadLockType, Sharing, Claiming, Readers, Writers, Claims, At, Goto,
       SharedCalls, ExclusiveCalls

LEMMA SubShareStep ==
    ASSUME TypeOK, NEW t \in Threads, SubShare(t)
    PROVE  /\ t \in Sharing
           /\ Sharing' = Sharing \ {t}
           /\ UNCHANGED <<Claiming, Readers, Writers>>
BY DEF TypeOK, SubShare, AttemptFailed, Sharing, Claiming, Readers, Writers, Claims,
       At, Goto, Return, SharedCalls, ExclusiveCalls, BlockingCalls

LEMMA CasLockTypeStep ==
    ASSUME TypeOK, NEW t \in Threads, CasLockType(t)
    PROVE  /\ UNCHANGED <<Sharing, Readers, Writers, mShareCount>>
           /\ \/ /\ mLockType = 0 /\ mLockType' = LOCK_TRY_WRITE_BIT
                 /\ Claiming' = Claiming \cup {t}
              \/ UNCHANGED <<Claiming, mLockType>>
BY DEF TypeOK, CasLockType, AttemptFailed, Sharing, Claiming, Readers, Writers,
       Claims, At, Goto, Return, SharedCalls, ExclusiveCalls, BlockingCalls

LEMMA LoadShareCountStep ==
    ASSUME TypeOK, NEW t \in Threads, LoadShareCount(t)
    PROVE  /\ t \in Claiming
           /\ UNCHANGED <<Sharing, Claiming, Readers, mLockType, mShareCount>>
           /\ \/ mShareCount = 0 /\ Writers' = Writers \cup {t}
              \/ UNCHANGED Writers
BY DEF TypeOK, LoadShareCount, Sharing, Claiming, Readers, Writers, Claims, At, Goto,
       SharedCalls, ExclusiveCalls

LEMMA ClearLockTypeStep ==
    ASSUME TypeOK, NEW t \in Threads, ClearLockType(t)
    PROVE  /\ t \in Claiming
           /\ Claiming' = Claiming \ {t}
           /\ UNCHANGED <<Sharing, Readers, Writers, mShareCount>>
BY DEF TypeOK, ClearLockType, AttemptFailed, Sharing, Claiming, Readers, Writers,
       Claims, At, Goto, Return, SharedCalls, ExclusiveCalls, BlockingCalls

LEMMA unlock_sharedStep ==
    ASSUME TypeOK, NEW t \in Threads, unlock_shared(t)
    PROVE  /\ t \in Sharing /\ t \in Readers
           /\ Sharing' = Sharing \ {t}
           /\ Readers' = Readers \ {t}
           /\ UNCHANGED <<Claiming, Writers>>
BY DEF TypeOK, unlock_shared, Sharing, Claiming, Readers, Writers, Claims, At,
       Return, SharedCalls, ExclusiveCalls

LEMMA unlockStep ==
    ASSUME TypeOK, NEW t \in Threads, unlock(t)
    PROVE  /\ t \in Claiming /\ t \in Writers
           /\ Claiming' = Claiming \ {t}
           /\ Writers' = Writers \ {t}
           /\ UNCHANGED <<Sharing, Readers, mShareCount>>
BY DEF TypeOK, unlock, Sharing, Claiming, Readers, Writers, Claims, At, Return,
       SharedCalls, ExclusiveCalls

LEMMA HoldersClaim == Readers \subseteq Sharing /\ Writers \subseteq Claiming
BY DEF Readers, Sharing, Writers, Claiming, Claims, At

-----------------------------------------------------------------------------
(* The words stay exact. *)
LEMMA WordsStep == IInv /\ [Next]_vars => LockWordsAgree'
<1> SUFFICES ASSUME IInv, [Next]_vars PROVE LockWordsAgree'
    OBVIOUS
<1> USE DEF IInv, LockWordsAgree
<1>1. ASSUME UNCHANGED <<Sharing, Claiming, mLockType, mShareCount>>
      PROVE  LockWordsAgree'
    BY <1>1
<1>2. CASE UNCHANGED vars
    BY <1>2 DEF vars, LockWordsAgree, Sharing, Claiming, Claims
<1>3. ASSUME NEW t \in Threads, Request(t) PROVE LockWordsAgree'
    BY <1>1, <1>3, QuietStep
<1>4. ASSUME NEW t \in Threads, AddShare(t) PROVE LockWordsAgree'
    BY <1>4, AddShareStep, CountAfterJoin, SharingFinite DEF AddShare
<1>5. ASSUME NEW t \in Threads, LoadLockType(t) PROVE LockWordsAgree'
    BY <1>1, <1>5, LoadLockTypeStep
<1>6. ASSUME NEW t \in Threads, SubShare(t) PROVE LockWordsAgree'
    BY <1>6, SubShareStep, CountAfterLeave, SharingFinite DEF SubShare
<1>7. ASSUME NEW t \in Threads, CasLockType(t) PROVE LockWordsAgree'
    BY <1>7, CasLockTypeStep DEF LOCK_TRY_WRITE_BIT
<1>8. ASSUME NEW t \in Threads, LoadShareCount(t) PROVE LockWordsAgree'
    BY <1>1, <1>8, LoadShareCountStep
<1>9. ASSUME NEW t \in Threads, ClearLockType(t) PROVE LockWordsAgree'
    BY <1>9, ClearLockTypeStep DEF ClearLockType
<1>10. ASSUME NEW t \in Threads, unlock_shared(t) PROVE LockWordsAgree'
    BY <1>10, unlock_sharedStep, CountAfterLeave, SharingFinite DEF unlock_shared
<1>11. ASSUME NEW t \in Threads, unlock(t) PROVE LockWordsAgree'
    BY <1>11, unlockStep DEF unlock
<1> QED
    BY <1>2, <1>3, <1>4, <1>5, <1>6, <1>7, <1>8, <1>9, <1>10, <1>11
    DEF Next, Acquiring, Release

(* Mutual exclusion survives every step; the two successful checks are the *)
(* steps that make a holder, and both see the other word zero.             *)
LEMMA ExclusionStep == IInv /\ [Next]_vars => MutualExclusion'
<1> SUFFICES ASSUME IInv, [Next]_vars PROVE MutualExclusion'
    OBVIOUS
<1> USE DEF IInv, MutualExclusion
<1>1. ASSUME Readers' \subseteq Readers, Writers' \subseteq Writers
      PROVE  MutualExclusion'
    BY <1>1
<1>2. CASE UNCHANGED vars
    BY <1>2 DEF vars, Readers, Writers, At
<1>3. ASSUME NEW t \in Threads, Request(t) PROVE MutualExclusion'
    BY <1>1, <1>3, QuietStep
<1>4. ASSUME NEW t \in Threads, AddShare(t) PROVE MutualExclusion'
    BY <1>1, <1>4, AddShareStep
<1>5. ASSUME NEW t \in Threads, LoadLockType(t) PROVE MutualExclusion'
    <2>1. mLockType = 0 => Writers = {}
        BY HoldersClaim DEF LockWordsAgree
    <2> QED BY <1>1, <1>5, <2>1, LoadLockTypeStep
<1>6. ASSUME NEW t \in Threads, SubShare(t) PROVE MutualExclusion'
    BY <1>1, <1>6, SubShareStep
<1>7. ASSUME NEW t \in Threads, CasLockType(t) PROVE MutualExclusion'
    BY <1>1, <1>7, CasLockTypeStep
<1>8. ASSUME NEW t \in Threads, LoadShareCount(t) PROVE MutualExclusion'
    <2>1. mShareCount = 0 => Readers = {}
        BY HoldersClaim, SharingFinite, FS_EmptySet DEF LockWordsAgree
    <2>2. Writers \subseteq {t}
        BY <1>8, HoldersClaim, LoadShareCountStep DEF LockWordsAgree
    <2> QED BY <1>1, <1>8, <2>1, <2>2, LoadShareCountStep
<1>9. ASSUME NEW t \in Threads, ClearLockType(t) PROVE MutualExclusion'
    BY <1>1, <1>9, ClearLockTypeStep
<1>10. ASSUME NEW t \in Threads, unlock_shared(t) PROVE MutualExclusion'
    BY <1>1, <1>10, unlock_sharedStep
<1>11. ASSUME NEW t \in Threads, unlock(t) PROVE MutualExclusion'
    BY <1>1, <1>11, unlockStep
<1> QED
    BY <1>2, <1>3, <1>4, <1>5, <1>6, <1>7, <1>8, <1>9, <1>10, <1>11
    DEF Next, Acquiring, Release

-----------------------------------------------------------------------------
(* The locks                                                               *)

WhoSleeps ==
    \A t \in Threads :
        /\ lockPc[t] \in {"park", "asleep"} =>
               kind = "SystemFutexLinux" /\ lockCall[t] = "lock"
        /\ kind = "SystemFutexPThread" /\ lockPc[t] = "try" =>
               currentPauses[t] <= MaxPauses

LockInv == Locks!TypeOK /\ WhoSleeps /\ Locks!MutualExclusion /\ Locks!NoLostWakeup

-----------------------------------------------------------------------------
LEMMA InitLocks == Locks!Init => LockInv
BY MaxPausesPositive
   DEF Locks!Init, LockInv, Locks!TypeOK, WhoSleeps, Locks!MutualExclusion, Locks!NoLostWakeup,
       Locks!Asleep

(* The pauses are doubled only while they do not exceed the maximum; for   *)
(* SystemFutexPThread that is because a thread still trying has not        *)
(* exceeded it.                                                            *)
LEMMA BackoffTypes ==
    ASSUME LockInv, NEW t \in Threads, Locks!Backoff(t), lockPc[t] = "try", lockCall[t] = "lock",
           mLock' = mLock, kind' = kind
    PROVE  Locks!TypeOK' /\ WhoSleeps'
<1> USE MaxPausesPositive DEF LockInv, Locks!TypeOK, WhoSleeps, Locks!Goto, Locks!SetPauses
<1>1. currentPauses[t] \in 1 .. 2 * MaxPauses
    OBVIOUS
<1>2. CASE kind = "SpinLock" /\ UNCHANGED currentPauses /\ Locks!Goto(t, "try")
    BY <1>2
<1>3. CASE /\ kind = "Futex" /\ Locks!Goto(t, "try")
           /\ Locks!SetPauses(t, IF currentPauses[t] <= MaxPauses THEN 2 * currentPauses[t]
                                                           ELSE currentPauses[t])
    BY <1>1, <1>3
<1>4. CASE /\ kind = "SystemFutexLinux" /\ currentPauses[t] <= MaxPauses
           /\ Locks!SetPauses(t, 2 * currentPauses[t]) /\ Locks!Goto(t, "try")
    BY <1>1, <1>4
<1>5. CASE kind = "SystemFutexLinux" /\ UNCHANGED currentPauses /\ Locks!Goto(t, "park")
    BY <1>5
<1>6. CASE /\ kind = "SystemFutexPThread" /\ Locks!SetPauses(t, 2 * currentPauses[t])
           /\ Locks!Goto(t, IF 2 * currentPauses[t] <= MaxPauses THEN "try" ELSE "block")
    BY <1>1, <1>6
<1> QED BY <1>2, <1>3, <1>4, <1>5, <1>6 DEF Locks!Backoff

LEMMA LockTypesStep == LockInv /\ [Locks!Next]_(Locks!vars) => Locks!TypeOK' /\ WhoSleeps'
<1> SUFFICES ASSUME LockInv, [Locks!Next]_(Locks!vars) PROVE Locks!TypeOK' /\ WhoSleeps'
    OBVIOUS
<1> USE MaxPausesPositive DEF LockInv, Locks!TypeOK, WhoSleeps, Locks!Goto, Locks!SetPauses,
                              Locks!Return, Locks!Kinds
<1>1. CASE UNCHANGED Locks!vars
    BY <1>1 DEF Locks!vars
<1>2. ASSUME NEW t \in Threads, Locks!Request(t) PROVE Locks!TypeOK' /\ WhoSleeps'
    BY <1>2 DEF Locks!Request, Locks!Enter
<1>3. ASSUME NEW t \in Threads, Locks!TryLock(t) PROVE Locks!TypeOK' /\ WhoSleeps'
    <2>1. CASE mLock = 0 /\ mLock' = 1 /\ Locks!Goto(t, "hold") /\ UNCHANGED currentPauses
        BY <1>3, <2>1 DEF Locks!TryLock
    <2>2. CASE UNCHANGED mLock /\ Locks!Return(t) /\ UNCHANGED currentPauses
        BY <1>3, <2>2 DEF Locks!TryLock
    <2>3. CASE UNCHANGED mLock /\ lockCall[t] = "lock" /\ Locks!Backoff(t)
        BY <1>3, <2>3, BackoffTypes DEF Locks!TryLock
    <2> QED BY <1>3, <2>1, <2>2, <2>3 DEF Locks!TryLock
<1>4. ASSUME NEW t \in Threads, Locks!FutexWait(t) PROVE Locks!TypeOK' /\ WhoSleeps'
    BY <1>4 DEF Locks!FutexWait
<1>5. ASSUME NEW t \in Threads, Locks!MutexLock(t) PROVE Locks!TypeOK' /\ WhoSleeps'
    BY <1>5 DEF Locks!MutexLock
<1>6. ASSUME NEW t \in Threads, Locks!FutexWake(t) PROVE Locks!TypeOK' /\ WhoSleeps'
    BY <1>6 DEF Locks!FutexWake, Locks!Asleep
<1>7. ASSUME NEW t \in Threads, Locks!Interrupted(t) PROVE Locks!TypeOK' /\ WhoSleeps'
    BY <1>7 DEF Locks!Interrupted, Locks!Awake
<1>8. ASSUME NEW t \in Threads, Locks!unlock(t) PROVE Locks!TypeOK' /\ WhoSleeps'
    BY <1>8 DEF Locks!unlock
<1> QED BY <1>1, <1>2, <1>3, <1>4, <1>5, <1>6, <1>7, <1>8 DEF Locks!Next, Locks!Running

-----------------------------------------------------------------------------
(* A failed attempt leaves the word and the holder alone.                  *)
LEMMA BackoffKeepsAway ==
    ASSUME LockInv, NEW t \in Threads, Locks!Backoff(t)
    PROVE  \E place \in {"try", "park", "block"} : lockPc' = [lockPc EXCEPT ![t] = place]
BY DEF Locks!Backoff, Locks!Goto

LEMMA LockExclusionStep == LockInv /\ [Locks!Next]_(Locks!vars) => Locks!MutualExclusion'
<1> SUFFICES ASSUME LockInv, [Locks!Next]_(Locks!vars) PROVE Locks!MutualExclusion'
    OBVIOUS
<1> USE DEF LockInv, Locks!TypeOK, Locks!MutualExclusion, Locks!Goto, Locks!Return
<1>1. CASE UNCHANGED Locks!vars
    BY <1>1 DEF Locks!vars
<1>2. ASSUME NEW t \in Threads, Locks!Request(t) PROVE Locks!MutualExclusion'
    BY <1>2 DEF Locks!Request, Locks!Enter
<1>3. ASSUME NEW t \in Threads, Locks!TryLock(t) PROVE Locks!MutualExclusion'
    <2>1. CASE mLock = 0 /\ mLock' = 1 /\ Locks!Goto(t, "hold")
        BY <2>1
    <2>2. CASE UNCHANGED mLock /\ Locks!Return(t)
        BY <1>3, <2>2 DEF Locks!TryLock
    <2>3. CASE UNCHANGED mLock /\ Locks!Backoff(t)
        BY <1>3, <2>3, BackoffKeepsAway DEF Locks!TryLock
    <2> QED BY <1>3, <2>1, <2>2, <2>3 DEF Locks!TryLock
<1>4. ASSUME NEW t \in Threads, Locks!FutexWait(t) PROVE Locks!MutualExclusion'
    BY <1>4 DEF Locks!FutexWait
<1>5. ASSUME NEW t \in Threads, Locks!MutexLock(t) PROVE Locks!MutualExclusion'
    BY <1>5 DEF Locks!MutexLock
<1>6. ASSUME NEW t \in Threads, Locks!FutexWake(t) PROVE Locks!MutualExclusion'
    BY <1>6 DEF Locks!FutexWake, Locks!Asleep
<1>7. ASSUME NEW t \in Threads, Locks!Interrupted(t) PROVE Locks!MutualExclusion'
    BY <1>7 DEF Locks!Interrupted, Locks!Awake
<1>8. ASSUME NEW t \in Threads, Locks!unlock(t) PROVE Locks!MutualExclusion'
    BY <1>8 DEF Locks!unlock
<1> QED BY <1>1, <1>2, <1>3, <1>4, <1>5, <1>6, <1>7, <1>8 DEF Locks!Next, Locks!Running

-----------------------------------------------------------------------------
(* A wake-up is lost only by a step that frees the word or takes the last  *)
(* awake thread away. The unlock of SystemFutexLinux goes to wake, and the *)
(* wake, the signal and the refused sleep put a thread back to trying.     *)
LEMMA WakeupStep == LockInv /\ [Locks!Next]_(Locks!vars) => Locks!NoLostWakeup'
<1> SUFFICES ASSUME LockInv, [Locks!Next]_(Locks!vars) PROVE Locks!NoLostWakeup'
    OBVIOUS
<1> USE DEF LockInv, Locks!TypeOK, WhoSleeps, Locks!NoLostWakeup, Locks!Asleep, Locks!Goto,
            Locks!Return
<1>1. CASE UNCHANGED Locks!vars
    BY <1>1 DEF Locks!vars
<1>2. ASSUME NEW t \in Threads, Locks!Request(t) PROVE Locks!NoLostWakeup'
    BY <1>2 DEF Locks!Request, Locks!Enter
<1>3. ASSUME NEW t \in Threads, Locks!TryLock(t) PROVE Locks!NoLostWakeup'
    <2>1. mLock' = 1
        BY <1>3 DEF Locks!TryLock
    <2> QED BY <2>1
<1>4. ASSUME NEW t \in Threads, Locks!FutexWait(t) PROVE Locks!NoLostWakeup'
    BY <1>4 DEF Locks!FutexWait
<1>5. ASSUME NEW t \in Threads, Locks!MutexLock(t) PROVE Locks!NoLostWakeup'
    BY <1>5 DEF Locks!MutexLock
<1>6. ASSUME NEW t \in Threads, Locks!FutexWake(t) PROVE Locks!NoLostWakeup'
    <2>1. CASE \E s \in Locks!Asleep : lockPc' = [lockPc EXCEPT ![t] = "idle", ![s] = "try"]
        <3>1. PICK s \in Locks!Asleep : lockPc' = [lockPc EXCEPT ![t] = "idle", ![s] = "try"]
            BY <2>1
        <3>2. s # t /\ s \in Threads /\ lockCall[s] = "lock"
            BY <1>6, <3>1 DEF Locks!FutexWake
        <3>3. lockCall'[s] = "lock" /\ lockPc'[s] = "try"
            BY <1>6, <3>1, <3>2 DEF Locks!FutexWake
        <3> QED BY <3>2, <3>3
    <2>2. CASE Locks!Asleep = {} /\ lockPc' = [lockPc EXCEPT ![t] = "idle"]
        BY <2>2
    <2> QED BY <1>6, <2>1, <2>2 DEF Locks!FutexWake
<1>7. ASSUME NEW t \in Threads, Locks!Interrupted(t) PROVE Locks!NoLostWakeup'
    BY <1>7 DEF Locks!Interrupted, Locks!Awake
<1>8. ASSUME NEW t \in Threads, Locks!unlock(t) PROVE Locks!NoLostWakeup'
    <2>1. CASE kind = "SystemFutexLinux"
        BY <1>8, <2>1 DEF Locks!unlock
    <2>2. CASE kind # "SystemFutexLinux"
        <3>1. Locks!Asleep' = {}
            BY <1>8, <2>2 DEF Locks!unlock
        <3> QED BY <3>1
    <2> QED BY <2>1, <2>2
<1> QED BY <1>1, <1>2, <1>3, <1>4, <1>5, <1>6, <1>7, <1>8 DEF Locks!Next, Locks!Running

-----------------------------------------------------------------------------
(* The barriers                                                            *)

Came == {t \in Threads : calls[t] > 0}

\* A thread in its first call that has not been counted yet.
Coming == {t \in Threads : calls[t] = 1 /\ barrierPc[t] \in {"check", "add"}}
Arrived == Came \ Coming
Blocked == {t \in Threads : barrierPc[t] = "block"}

BarrierTypes ==
    /\ barrierKind \in Barriers!Kinds
    /\ mThreadCount \in Nat \ {0}
    /\ mBarrierCount \in Nat
    /\ barrierPc \in [Threads -> {"out", "check", "add", "spin", "block"}]
    /\ calls \in [Threads -> Nat]
    /\ mBarrier \subseteq Blocked

OnlyThroughAFullOne ==
    \A t \in Threads :
        /\ calls[t] > 1 => Barriers!Full(mBarrierCount)
        /\ barrierPc[t] = "out" /\ calls[t] > 0 => Barriers!Full(mBarrierCount)
        /\ barrierPc[t] = "add" => calls[t] = 1
        /\ barrierPc[t] # "out" => calls[t] > 0

CountsThreads == mBarrierCount <= Cardinality(Arrived)
CoversTheWaiting == Cardinality(Blocked) <= mBarrierCount

BarrierInv == BarrierTypes /\ OnlyThroughAFullOne /\ CountsThreads /\ CoversTheWaiting

-----------------------------------------------------------------------------
LEMMA SameCardinality == \A S : Barriers!Cardinality(S) = Cardinality(S)
BY DEF Barriers!Cardinality, Cardinality

(* A subset of the threads is finite and has no more members than any      *)
(* subset around it.                                                       *)
LEMMA Sizes ==
    ASSUME IsFiniteSet(Threads), NEW S, NEW T, S \subseteq T, T \subseteq Threads
    PROVE  /\ IsFiniteSet(S) /\ Cardinality(S) \in Nat
           /\ Cardinality(T) \in Nat /\ Cardinality(S) <= Cardinality(T)
<1>1. IsFiniteSet(T)
    BY FS_Subset
<1>2. IsFiniteSet(S) /\ Cardinality(S) <= Cardinality(T)
    BY <1>1, FS_Subset
<1> QED BY <1>1, <1>2, FS_CardinalityType

(* A set of threads that one more joins is larger by one.                  *)
LEMMA OneMore ==
    ASSUME IsFiniteSet(Threads), NEW S, S \subseteq Threads, NEW x, x \notin S
    PROVE  Cardinality(S \cup {x}) = Cardinality(S) + 1
<1>1. IsFiniteSet(S)
    BY FS_Subset
<1> QED BY <1>1, FS_AddElement

LEMMA InitBarrierInv == ASSUME IsFiniteSet(Threads), Barriers!Init PROVE BarrierInv
<1>1. Cardinality(Threads) \in Nat
    BY FS_CardinalityType
<1>2. BarrierTypes /\ OnlyThroughAFullOne
    BY <1>1 DEF Barriers!Init, BarrierTypes, OnlyThroughAFullOne, Blocked, Barriers!Kinds
<1>3. Arrived = {} /\ Blocked = {}
    BY DEF Barriers!Init, Arrived, Came, Blocked
<1>4. CountsThreads /\ CoversTheWaiting
    BY <1>3, FS_EmptySet DEF Barriers!Init, CountsThreads, CoversTheWaiting
<1> QED BY <1>2, <1>4 DEF BarrierInv

-----------------------------------------------------------------------------
(* When no count is added and nobody starts to block, the bounds stand as  *)
(* long as whoever had arrived still has.                                  *)
LEMMA BoundsStand ==
    ASSUME IsFiniteSet(Threads), BarrierInv, mBarrierCount' = mBarrierCount,
           Arrived \subseteq Arrived', Blocked' \subseteq Blocked
    PROVE  CountsThreads' /\ CoversTheWaiting'
<1>1. Arrived' \subseteq Threads /\ Blocked \subseteq Threads
    BY DEF Arrived, Came, Blocked
<1>2. /\ Cardinality(Arrived) <= Cardinality(Arrived')
      /\ Cardinality(Arrived) \in Nat /\ Cardinality(Arrived') \in Nat
    BY <1>1, Sizes
<1>3. /\ Cardinality(Blocked') <= Cardinality(Blocked)
      /\ Cardinality(Blocked) \in Nat /\ Cardinality(Blocked') \in Nat
    BY <1>1, Sizes
<1> QED BY <1>2, <1>3 DEF BarrierInv, BarrierTypes, CountsThreads, CoversTheWaiting

LEMMA WaitStep ==
    ASSUME IsFiniteSet(Threads), BarrierInv, NEW t \in Threads, Barriers!wait(t)
    PROVE  BarrierInv'
<1> USE DEF BarrierInv, Barriers!wait, Barriers!Goto
<1>1. BarrierTypes'
    BY DEF BarrierTypes, Blocked
<1>2. OnlyThroughAFullOne'
    BY DEF OnlyThroughAFullOne, BarrierTypes, Barriers!Full
<1>3. Arrived \subseteq Arrived' /\ Blocked' \subseteq Blocked
    BY DEF BarrierTypes, Arrived, Came, Coming, Blocked
<1> QED BY <1>1, <1>2, <1>3, BoundsStand

LEMMA CheckStep ==
    ASSUME IsFiniteSet(Threads), BarrierInv, NEW t \in Threads, Barriers!Check(t)
    PROVE  BarrierInv'
<1> USE DEF BarrierInv, Barriers!Check, Barriers!Goto
<1>1. BarrierTypes'
    BY DEF BarrierTypes, Blocked
<1>2. OnlyThroughAFullOne'
    BY DEF OnlyThroughAFullOne, BarrierTypes, Barriers!Full
<1>3. Arrived \subseteq Arrived' /\ Blocked' \subseteq Blocked
    BY DEF BarrierTypes, Arrived, Came, Coming, Blocked
<1> QED BY <1>1, <1>2, <1>3, BoundsStand

LEMMA SpinEndsStep ==
    ASSUME IsFiniteSet(Threads), BarrierInv, NEW t \in Threads, Barriers!SpinEnds(t)
    PROVE  BarrierInv'
<1> USE DEF BarrierInv, Barriers!SpinEnds, Barriers!Goto
<1>1. BarrierTypes'
    BY DEF BarrierTypes, Blocked
<1>2. OnlyThroughAFullOne'
    BY DEF OnlyThroughAFullOne, BarrierTypes, Barriers!Full
<1>3. Arrived \subseteq Arrived' /\ Blocked' \subseteq Blocked
    BY DEF BarrierTypes, Arrived, Came, Coming, Blocked
<1> QED BY <1>1, <1>2, <1>3, BoundsStand

(* The addition counts the thread that makes it, and that thread had not   *)
(* been counted: it is in its first call.                                  *)
LEMMA AddStep ==
    ASSUME IsFiniteSet(Threads), BarrierInv, NEW t \in Threads, Barriers!Add(t)
    PROVE  BarrierInv'
<1> USE DEF BarrierInv, Barriers!Add, Barriers!Goto
<1>1. BarrierTypes'
    BY DEF BarrierTypes, Blocked
<1>2. OnlyThroughAFullOne'
    BY DEF OnlyThroughAFullOne, BarrierTypes, Barriers!Full
<1>3. CountsThreads'
    <2>1. Arrived \subseteq Threads /\ t \notin Arrived
        BY DEF OnlyThroughAFullOne, Arrived, Came, Coming
    <2>2. Arrived' = Arrived \cup {t}
        BY DEF OnlyThroughAFullOne, BarrierTypes, Arrived, Came, Coming
    <2>3. Cardinality(Arrived') = Cardinality(Arrived) + 1
        BY <2>1, <2>2, OneMore
    <2>4. Cardinality(Arrived) \in Nat
        BY <2>1, Sizes
    <2> QED BY <2>3, <2>4 DEF BarrierTypes, CountsThreads
<1>4. CoversTheWaiting'
    <2>1. Blocked \subseteq Threads /\ t \notin Blocked /\ Cardinality(Blocked) \in Nat
        <3>1. Blocked \subseteq Threads /\ t \notin Blocked
            BY DEF Blocked
        <3> QED BY <3>1, Sizes
    <2>2. Cardinality(Blocked \cup {t}) = Cardinality(Blocked) + 1
        BY <2>1, OneMore
    <2>3. Blocked' \subseteq Blocked \cup {t} /\ Blocked \cup {t} \subseteq Threads
        BY DEF BarrierTypes, Blocked
    <2>4. Cardinality(Blocked') <= Cardinality(Blocked \cup {t}) /\ Cardinality(Blocked') \in Nat
        BY <2>3, Sizes
    <2> QED BY <2>1, <2>2, <2>4 DEF BarrierTypes, CoversTheWaiting
<1> QED BY <1>1, <1>2, <1>3, <1>4

(* The threads the pthread barrier lets go are as many as it has places,   *)
(* and all of them were counted before.                                    *)
LEMMA BlockStep ==
    ASSUME IsFiniteSet(Threads), BarrierInv, NEW t \in Threads, Barriers!pthread_barrier_wait(t)
    PROVE  BarrierInv'
<1> DEFINE inside == mBarrier \cup {t}
<1>1. inside \subseteq Blocked /\ Blocked \subseteq Threads
    BY DEF BarrierInv, BarrierTypes, Barriers!pthread_barrier_wait, Blocked
<1>2. CASE Cardinality(inside) < mThreadCount /\ mBarrier' = inside /\ UNCHANGED barrierPc
    <2>1. BarrierTypes' /\ OnlyThroughAFullOne'
        BY <1>1, <1>2 DEF BarrierInv, Barriers!pthread_barrier_wait, BarrierTypes,
           OnlyThroughAFullOne, Blocked, Barriers!Full
    <2>2. Arrived \subseteq Arrived' /\ Blocked' \subseteq Blocked
        BY <1>2 DEF Barriers!pthread_barrier_wait, Arrived, Came, Coming, Blocked
    <2> QED BY <2>1, <2>2, BoundsStand DEF BarrierInv, Barriers!pthread_barrier_wait
<1>3. CASE /\ Cardinality(inside) = mThreadCount
           /\ mBarrier' = {}
           /\ barrierPc' = [u \in Threads |-> IF u \in inside THEN "out" ELSE barrierPc[u]]
    <2>1. Barriers!Full(mBarrierCount)
        <3>1. Cardinality(inside) <= Cardinality(Blocked) /\ Cardinality(Blocked) \in Nat
            BY <1>1, Sizes
        <3> QED BY <1>3, <3>1 DEF BarrierInv, BarrierTypes, CoversTheWaiting, Barriers!Full
    <2>2. BarrierTypes'
        BY <1>3 DEF BarrierInv, Barriers!pthread_barrier_wait, BarrierTypes, Blocked
    <2>3. OnlyThroughAFullOne'
        BY <1>3, <2>1 DEF BarrierInv, BarrierTypes, Barriers!pthread_barrier_wait,
           OnlyThroughAFullOne, Barriers!Full
    <2>4. Arrived \subseteq Arrived' /\ Blocked' \subseteq Blocked
        BY <1>1, <1>3 DEF BarrierInv, BarrierTypes, Barriers!pthread_barrier_wait, Arrived, Came,
           Coming, Blocked
    <2> QED BY <2>2, <2>3, <2>4, BoundsStand DEF BarrierInv, Barriers!pthread_barrier_wait
<1>4. Barriers!Cardinality(inside) = Cardinality(inside)
    BY SameCardinality
<1> QED BY <1>2, <1>3, <1>4 DEF Barriers!pthread_barrier_wait

LEMMA NextBarrierInv == ASSUME IsFiniteSet(Threads), BarrierInv, [Barriers!Next]_(Barriers!vars)
      PROVE BarrierInv'
<1>1. CASE UNCHANGED Barriers!vars
    BY <1>1 DEF Barriers!vars, BarrierInv, BarrierTypes, OnlyThroughAFullOne, CountsThreads,
       CoversTheWaiting,
                Arrived, Came, Coming, Blocked, Barriers!Full
<1>2. CASE Barriers!Next
    BY <1>2, WaitStep, CheckStep, AddStep, SpinEndsStep, BlockStep DEF Barriers!Next,
       Barriers!Running
<1> QED BY <1>1, <1>2

LEMMA BarrierInvImplies == ASSUME IsFiniteSet(Threads), BarrierInv PROVE Barriers!NobodyLeavesEarly
<1> SUFFICES ASSUME NEW t \in Threads, barrierPc[t] = "out", calls[t] > 0 PROVE Barriers!EnoughCame
    BY DEF Barriers!NobodyLeavesEarly
<1>1. mBarrierCount >= mThreadCount
    BY DEF BarrierInv, OnlyThroughAFullOne, Barriers!Full
<1>2. Arrived \subseteq Came /\ Came \subseteq Threads
    BY DEF Arrived, Came
<1>3. /\ Cardinality(Arrived) <= Cardinality(Came)
      /\ Cardinality(Arrived) \in Nat /\ Cardinality(Came) \in Nat
    BY <1>2, Sizes
<1>4. Cardinality(Came) >= mThreadCount
    BY <1>1, <1>3 DEF BarrierInv, BarrierTypes, CountsThreads
<1> QED BY <1>4, SameCardinality DEF Barriers!EnoughCame, Came

-----------------------------------------------------------------------------
(* A step is one of the object used and leaves the others alone.           *)
LEMMA SafetyPart == FairSpecAll => SpecAll
BY PTL DEF FairSpecAll

LEMMA RWLockPart == FairSpecAll => Spec
<1>1. InitAll => Init
    BY DEF InitAll
<1>2. [NextAll]_allVars => [Next]_vars
    BY DEF NextAll, Others, allVars
<1> QED BY <1>1, <1>2, SafetyPart, PTL DEF SpecAll, Spec

LEMMA RWLockInductive == FairSpecAll => []IInv
<1>1. IInv /\ [Next]_vars => IInv'
    BY TypeStep, WordsStep, ExclusionStep DEF IInv
<1> QED BY <1>1, InitIInv, RWLockPart, PTL DEF Spec

LEMMA LocksInductive == FairSpecAll => []LockInv
<1>1. InitAll => LockInv
    BY InitLocks DEF InitAll
<1>2. [NextAll]_allVars => [Locks!Next]_(Locks!vars)
    BY DEF NextAll, Others, allVars, lockVars, Locks!vars
<1>3. LockInv /\ [Locks!Next]_(Locks!vars) => LockInv'
    BY LockTypesStep, LockExclusionStep, WakeupStep DEF LockInv
<1> QED BY <1>1, <1>2, <1>3, SafetyPart, PTL DEF SpecAll

LEMMA BarriersInductive == FairSpecAll => []BarrierInv
<1>1. InitAll => BarrierInv
    BY ThreadsFinite, InitBarrierInv DEF InitAll
<1>2. [NextAll]_allVars => [Barriers!Next]_(Barriers!vars)
    BY DEF NextAll, Others, allVars, barrierVars, Barriers!vars
<1>3. BarrierInv /\ [Barriers!Next]_(Barriers!vars) => BarrierInv'
    BY ThreadsFinite, NextBarrierInv
<1> QED BY <1>1, <1>2, <1>3, SafetyPart, PTL DEF SpecAll

-----------------------------------------------------------------------------
(* RWLock keeps its types: the unsigned share count never underflows, for  *)
(* any number of threads and any mix of blocking and try_ calls.           *)
THEOREM TypeCorrect == FairSpecAll => []TypeOK
BY RWLockInductive, PTL DEF IInv

(* lock excludes lock and lock_shared, for any number of threads. *)
THEOREM MutualExclusionHolds == FairSpecAll => []MutualExclusion
BY RWLockInductive, PTL DEF IInv

(* No failed attempt ever leaves a share or a write bit behind. *)
THEOREM LockWordsAgreeHolds == FairSpecAll => []LockWordsAgree
BY RWLockInductive, PTL DEF IInv

(* Every step of RWLock is an acquisition, a release, or invisible to the  *)
(* callers: the handshake implements the abstract readers/writer lock.     *)
THEOREM RefinesSharedExclusive == FairSpecAll => ImplementsSharedExclusive
<1>1. Init => Abstract!Init
    BY DEF Init, Abstract!Init, Readers, Writers, At
<1>2. IInv /\ [Next]_vars => [Abstract!Next]_(Abstract!vars)
    <2> SUFFICES ASSUME IInv, [Next]_vars
                 PROVE  Abstract!Next \/ UNCHANGED <<Readers, Writers>>
        BY DEF Abstract!vars
    <2> USE DEF IInv
    <2>1. CASE UNCHANGED vars
        BY <2>1 DEF vars, Readers, Writers, At
    <2>2. ASSUME NEW t \in Threads,
                 Request(t) \/ AddShare(t) \/ SubShare(t) \/ CasLockType(t)
                 \/ ClearLockType(t)
          PROVE  UNCHANGED <<Readers, Writers>>
        BY <2>2, QuietStep, AddShareStep, SubShareStep, CasLockTypeStep, ClearLockTypeStep
    <2>3. ASSUME NEW t \in Threads, LoadLockType(t)
          PROVE  Abstract!AcquireShared(t) \/ UNCHANGED <<Readers, Writers>>
        <3>1. mLockType = 0 => Writers = {}
            BY HoldersClaim DEF LockWordsAgree
        <3> QED BY <2>3, <3>1, LoadLockTypeStep DEF Abstract!AcquireShared
    <2>4. ASSUME NEW t \in Threads, LoadShareCount(t)
          PROVE  Abstract!AcquireExclusive(t) \/ UNCHANGED <<Readers, Writers>>
        <3>1. mShareCount = 0 => Readers = {}
            BY HoldersClaim, SharingFinite, FS_EmptySet DEF LockWordsAgree
        <3>2. Writers = {}
            BY <2>4, HoldersClaim
            DEF LoadShareCount, LockWordsAgree, Writers, Claiming, Claims, At
        <3> QED BY <2>4, <3>1, <3>2, LoadShareCountStep DEF Abstract!AcquireExclusive
    <2>5. ASSUME NEW t \in Threads, unlock_shared(t)
          PROVE  Abstract!ReleaseShared(t)
        BY <2>5, unlock_sharedStep DEF Abstract!ReleaseShared
    <2>6. ASSUME NEW t \in Threads, unlock(t)
          PROVE  Abstract!ReleaseExclusive(t)
        BY <2>6, unlockStep DEF Abstract!ReleaseExclusive, MutualExclusion
    <2> QED
        BY <2>1, <2>2, <2>3, <2>4, <2>5, <2>6
        DEF Next, Acquiring, Release, Abstract!Next
<1> QED
    BY <1>1, <1>2, RWLockPart, RWLockInductive, PTL
    DEF Spec, Abstract!Spec, ImplementsSharedExclusive

(* The word stays 0 or 1, every thread where the code can be, and the      *)
(* pauses never grow past twice the maximum, whatever the maximum is.      *)
THEOREM FutexTypeCorrect == FairSpecAll => []Locks!TypeOK
BY LocksInductive, PTL DEF LockInv

(* Each of the four exclusive locks has one holder at a time.              *)
THEOREM FutexExclusion == FairSpecAll => []OneHolder
BY LocksInductive, PTL DEF LockInv, OneHolder

(* No thread sleeps in FUTEX_WAIT on a free lock with nobody on the way to *)
(* wake it or to take the lock.                                            *)
THEOREM FutexNoLostWakeup == FairSpecAll => []NoLostWakeup
BY LocksInductive, PTL DEF LockInv, NoLostWakeup

(* Nobody comes out of either barrier before as many threads as it has     *)
(* places have gone in, however often each of them calls wait.             *)
THEOREM LeavesAfterEnough == FairSpecAll => []NobodyLeavesEarly
<1>1. BarrierInv => NobodyLeavesEarly
    BY ThreadsFinite, BarrierInvImplies DEF NobodyLeavesEarly
<1> QED BY <1>1, BarriersInductive, PTL
=============================================================================
