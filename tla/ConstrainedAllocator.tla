------------------------ MODULE ConstrainedAllocator ------------------------
(***************************************************************************)
(* ls::utils::ConstrainedAllocator: passes calls on to a memory source as  *)
(* long as the bytes it counts stay within MaxNumBytes.  It counts the     *)
(* bytes it was asked for and takes off the bytes it is told at the free.  *)
(*                                                                         *)
(* The count is an unsigned word: a negative number here is one that       *)
(* wrapped, which is beyond every limit.                                   *)
(***************************************************************************)
EXTENDS MemorySource

CONSTANT MaxNumBytes

Within(count) == 0 <= count /\ count <= MaxNumBytes

\* allocate(n), allocate_contiguous: the count and the range after it; the
\* source may refuse for reasons of its own.
Constrained(count, pools, n) ==
    IF ~Within(count + n) THEN {}
    ELSE {[count |-> count + n, pool |-> r] : r \in Granted(pools, n)}

\* Mutant: free passes the range on and counts nothing.
Freed_Uncounted(count, n) == count

\* free(p, n).
Freed(count, n) == count - n
=============================================================================
