-------------------------- MODULE AllocatorWrappers --------------------------
(***************************************************************************)
(* ls::utils::ConstrainedAllocator<0> over BlockAllocator<BlockSize> over  *)
(* a memory source.  The outer one counts the bytes it is asked for        *)
(* against a limit that is set when it is made; the inner one rounds what  *)
(* it passes on to whole blocks.  Callers remember the size they asked     *)
(* for, and pass it on when they give the memory back.                     *)
(*                                                                         *)
(* free(p) of ConstrainedAllocator aborts the program, and so does         *)
(* reallocate to no bytes at all, which calls it: neither is called here.  *)
(***************************************************************************)
EXTENDS Integers, FiniteSets

CONSTANTS BlockSize,          \* of BlockAllocator, in bytes
          mMaxAllocSize,      \* the limit that callers set
          Spots            \* the places a source may return

VARIABLE wrapped
(* wrapped.mBytesAllocated, wrapped.mMaxAllocSize  of the two allocators   *)
(* wrapped.asked  history: asked[a][p] is what was asked for at p, from a  *)
(* wrapped.given  the bytes the source gave at each place                  *)
(* wrapped.lost   history: a place came back with a size it did not have   *)

Allocators == {1, 2}

NoBlocks == [p \in {} |-> 0]

Init ==
    wrapped = [mBytesAllocated |-> [a \in Allocators |-> 0],
               mMaxAllocSize |-> [a \in Allocators |-> mMaxAllocSize],
               asked |-> [a \in Allocators |-> NoBlocks], given |-> NoBlocks, lost |-> FALSE]

-----------------------------------------------------------------------------
With(f, p, n) == [q \in DOMAIN f \cup {p} |-> IF q = p THEN n ELSE f[q]]
Without(f, p) == [q \in DOMAIN f \ {p} |-> f[q]]

\* What BlockAllocator passes on of n bytes.
Rounded(n) == n + IF n % BlockSize = 0 THEN 0 ELSE BlockSize - (n % BlockSize)

Unused == Spots \ DOMAIN wrapped.given

Fits(w, a, n) == w.mBytesAllocated[a] + n <= w.mMaxAllocSize[a]

\* allocate(n) and allocate_contiguous, with p the place the source finds
Allocated(w, a, p, n) ==
    [w EXCEPT !.mBytesAllocated[a] = @ + n,
              !.asked[a] = With(@, p, n), !.given = With(@, p, Rounded(n))]

\* free(p, n)
Freed(w, a, p, n) ==
    [w EXCEPT !.mBytesAllocated[a] = @ - n,
              !.asked[a] = Without(@, p), !.given = Without(@, p),
              !.lost = @ \/ Rounded(n) # w.given[p]]

\* Mutant: the old place is given back with the new size.
Reallocated_NewSize(w, a, old, p, n) == Freed(Allocated(w, a, p, n), a, old, n)

\* reallocate(old, n, m): the new place is found before the old one goes, so
\* the limit has to have room for both.
Reallocated(w, a, old, p, n) == Freed(Allocated(w, a, p, n), a, old, w.asked[a][old])

Allocate(a, n) ==
    \E p \in Unused : Fits(wrapped, a, n) /\ wrapped' = Allocated(wrapped, a, p, n)

FreeBlock(a, p) ==
    /\ p \in DOMAIN wrapped.asked[a]
    /\ wrapped' = Freed(wrapped, a, p, wrapped.asked[a][p])

Reallocate(a, old, n) ==
    /\ old \in DOMAIN wrapped.asked[a]
    /\ \E p \in Unused : Fits(wrapped, a, n) /\ wrapped' = Reallocated(wrapped, a, old, p, n)

\* A member that a move takes from one allocator to another, and what it leaves.
Handed(f, a, from, left) == [f EXCEPT ![a] = f[from], ![from] = left]

\* operator=(ConstrainedAllocator&&).  The count of the target is overwritten,
\* so its callers have given everything back.  The one that was moved from has
\* neither source nor limit, and serves no one until it is moved to.
Move(a, from) ==
    /\ wrapped.mMaxAllocSize[from] > 0 /\ wrapped.asked[a] = NoBlocks
    /\ wrapped' = [wrapped EXCEPT
           !.mBytesAllocated = Handed(@, a, from, 0),
           !.mMaxAllocSize = Handed(@, a, from, 0),
           !.asked = Handed(@, a, from, NoBlocks)]

Next ==
    \E a \in Allocators :
       \/ \E n \in 1..mMaxAllocSize : Allocate(a, n) \/ \E old \in Spots : Reallocate(a, old, n)
       \/ \E p \in Spots : FreeBlock(a, p)
       \/ \E from \in Allocators \ {a} : Move(a, from)

-----------------------------------------------------------------------------
\* The bytes at the places of f: f[p] of them at p
BytesAt(f) == UNION {{p} \X (1..f[p]) : p \in DOMAIN f}

(* Each count is what its callers have, through reallocations and moves,   *)
(* it stays within the limit, and the source gets every place back with    *)
(* the size it gave it.                                                    *)
WrappersKeepCount ==
    /\ \A a \in Allocators :
         /\ wrapped.mBytesAllocated[a] = Cardinality(BytesAt(wrapped.asked[a]))
         /\ wrapped.mBytesAllocated[a] <= wrapped.mMaxAllocSize[a]
    /\ ~wrapped.lost
=============================================================================
