--------------------------- MODULE SharedExclusive ---------------------------
(***************************************************************************)
(* What every readers/writer lock of RWLock.hpp promises its callers: any  *)
(* number of threads may hold it shared, one thread may hold it            *)
(* exclusively, never both at once.  How a lock decides who is next is not *)
(* part of the promise.                                                    *)
(***************************************************************************)
CONSTANT Threads

VARIABLES readers,   \* threads between lock_shared and unlock_shared
          writers    \* threads between lock and unlock

vars == <<readers, writers>>

Init == readers = {} /\ writers = {}

AcquireShared(t) ==
    /\ t \notin readers
    /\ writers = {}
    /\ readers' = readers \cup {t}
    /\ UNCHANGED writers

AcquireExclusive(t) ==
    /\ readers = {} /\ writers = {}
    /\ writers' = {t}
    /\ UNCHANGED readers

ReleaseShared(t) ==
    /\ t \in readers
    /\ readers' = readers \ {t}
    /\ UNCHANGED writers

ReleaseExclusive(t) ==
    /\ t \in writers
    /\ writers' = {}
    /\ UNCHANGED readers

Next == \E t \in Threads :
    \/ AcquireShared(t) \/ AcquireExclusive(t)
    \/ ReleaseShared(t) \/ ReleaseExclusive(t)

Spec == Init /\ [][Next]_vars
=============================================================================
