-------------------------- MODULE GeneralAllocator --------------------------
(***************************************************************************)
(* ls::utils::GeneralAllocator over a ConstrainedAllocator over a memory   *)
(* source.  It takes pools from the source and hands out runs of blocks,   *)
(* each behind a header of one block.  Free runs form a list in address    *)
(* order: a request takes the front of the first run that is long enough,  *)
(* a free merges neighbours and gives a run back to the source when it is  *)
(* as long as the pool it came from and others are left.                   *)
(*                                                                         *)
(* mList is the list from mHead on along pNext; an entry is the header of  *)
(* its run.  A request of n bytes needs n \div block_size + 1 blocks and   *)
(* one more for a remainder: never less than two.                          *)
(***************************************************************************)
EXTENDS ConstrainedAllocator, FiniteSets, Sequences, SequencesExt

CONSTANTS CacheBlocks,     \* cache_size in blocks
          Needs,           \* blocks asked for, header included
          MaxLive          \* bound: allocations at a time

ASSUME AllocatorAssumption == CacheBlocks \in Nat \ {0} /\ Needs \subseteq Nat \ {0, 1}

VARIABLES mList, mLastAllocSize,
          mBytesAllocated,       \* of the ConstrainedAllocator, in blocks
          pools,                 \* ranges the source has given and not got back
          live,                  \* the allocations, by their headers
          strays                 \* history: what went to the source and is no pool

vars == <<mList, mLastAllocSize, mBytesAllocated, pools, live, strays>>

Entry(at, n, src, allocated) ==
    [at |-> at, numBlocks |-> n, pSrcPool |-> src, allocatedBlocks |-> allocated]

NewPool(r) == Entry(r.at, r.len, r.at, r.len)

End(e) == e.at + e.numBlocks

-----------------------------------------------------------------------------
\* The three sizes _alloc_new_cache asks for, one after the other.
ReserveBlocks(n, last) ==
    IF n < CacheBlocks THEN CacheBlocks
    ELSE IF 2 * n < last THEN last ELSE RoundedUp(3 * last, 2) \div 2

CacheRequests(n, last) ==
    {RoundedUp(n + ReserveBlocks(n, last), CacheBlocks), RoundedUp(n, CacheBlocks), n}

\* The number of entries in front of the address at.
Before(list, at) == Cardinality({i \in DOMAIN list : list[i].at < at})

\* _find_or_allocate_entry where a run is long enough: the first such run.
Fitting(list, n) == {i \in DOMAIN list : list[i].numBlocks >= n}

Unlinked(list, i) == SubSeq(list, 1, i - 1) \o SubSeq(list, i + 1, Len(list))

\* Mutant: the header of the allocation is not counted.
Taken_Overlaps(list, i, n) ==
    LET e == list[i]
    IN  IF e.numBlocks > n
        THEN [list EXCEPT ![i] = [e EXCEPT !.at = e.at + n - 1, !.numBlocks = e.numBlocks - n + 1]]
        ELSE Unlinked(list, i)

\* The rest of allocate: the front of entry i is taken, its rest stays linked.
Taken(list, i, n) ==
    LET e == list[i]
    IN  IF e.numBlocks > n
        THEN [list EXCEPT ![i] = [e EXCEPT !.at = e.at + n, !.numBlocks = e.numBlocks - n]]
        ELSE Unlinked(list, i)

\* e linked behind the first p entries, those from q on behind it.
Spliced(list, p, e, q) == SubSeq(list, 1, p) \o <<e>> \o SubSeq(list, q, Len(list))

\* _find_or_allocate_entry: where a new pool goes.
WithCache(list, e) == LET p == Before(list, e.at) IN Spliced(list, p, e, p + 1)

Cut(s, i, n) ==
    [s |-> [s EXCEPT !.list = Taken(s.list, i, n)],
     got |-> [s.list[i] EXCEPT !.numBlocks = n]]

Grow(s, n) ==
    UNION {{[list |-> WithCache(s.list, NewPool(c.pool)), last |-> c.pool.len,
             count |-> c.count, pools |-> s.pools \cup {c.pool}, strays |-> s.strays] :
                c \in Constrained(s.count, s.pools, r)} :
           r \in CacheRequests(n, s.last)}

\* What allocate may come to; nothing when every request is refused.
Allocated(s, n) ==
    IF Fitting(s.list, n) # {}
    THEN {Cut(s, CHOOSE i \in Fitting(s.list, n) : \A j \in Fitting(s.list, n) : i <= j, n)}
    ELSE {Cut(g, CHOOSE i \in Fitting(g.list, n) : TRUE, n) : g \in Grow(s, n)}

-----------------------------------------------------------------------------
TouchesNext(list, p, e) == p < Len(list) /\ End(e) = list[p + 1].at

\* Mutant: the run in front is not looked at.
TouchesPrev_Never(list, p, e) == FALSE

TouchesPrev(list, p, e) == p > 0 /\ End(list[p]) = e.at

\* The two calls of _merge_allocation_blocks: with the run behind, then with
\* the run in front, whose header stays.  at is the place of the merged run.
Merged(list, e) ==
    LET p    == Before(list, e.at)
        next == TouchesNext(list, p, e)
        prev == TouchesPrev(list, p, e)
        n    == e.numBlocks + IF next THEN list[p + 1].numBlocks ELSE 0
        run  == IF prev THEN [list[p] EXCEPT !.numBlocks = list[p].numBlocks + n]
                        ELSE [e EXCEPT !.numBlocks = n]
    IN  [at |-> IF prev THEN p ELSE p + 1,
         list |-> Spliced(list, IF prev THEN p - 1 ELSE p, run, IF next THEN p + 2 ELSE p + 1)]

\* Mutant: a whole pool is kept.
Prunable_Never(list, i) == FALSE

\* Prune the smallest cache when possible.
Prunable(list, i) == list[i].numBlocks = list[i].allocatedBlocks /\ Len(list) > 1

BlocksOf(ranges) == UNION {r.at..r.at + r.len - 1 : r \in ranges}

\* memory_source().free for each of the ranges, which do not overlap.
GivenBack(s, ranges) ==
    [list |-> s.list, last |-> s.last,
     count |-> Freed(s.count, Cardinality(BlocksOf(ranges))),
     pools |-> s.pools \ ranges, strays |-> ranges \ s.pools]

\* _free_impl.
FreeImpl(s, e) ==
    LET m   == Merged(s.list, e)
        run == m.list[m.at]
    IN  IF Prunable(m.list, m.at)
        THEN GivenBack([s EXCEPT !.list = Unlinked(m.list, m.at)],
                       {Span(run.at, run.numBlocks)})
        ELSE [s EXCEPT !.list = m.list]

-----------------------------------------------------------------------------
Now == [list |-> mList, last |-> mLastAllocSize, count |-> mBytesAllocated,
        pools |-> pools, strays |-> strays]

Becomes(s) ==
    /\ mList' = s.list
    /\ mLastAllocSize' = s.last
    /\ mBytesAllocated' = s.count
    /\ pools' = s.pools
    /\ strays' = s.strays

\* Both constructors; the second takes its first pool at once.
Init ==
    /\ \/ mList = <<>> /\ mLastAllocSize = 0 /\ mBytesAllocated = 0 /\ pools = {}
       \/ \E n \in Needs : \E c \in Constrained(0, {}, n) :
            /\ mList = <<NewPool(c.pool)>>
            /\ mLastAllocSize = c.pool.len
            /\ mBytesAllocated = c.count
            /\ pools = {c.pool}
    /\ live = {}
    /\ strays = {}

\* What follows after a range that is no pool went to the source is not modelled.
Modelled == strays = {}

\* allocate, allocate_contiguous, and reallocate of a null pointer.
Allocate(n) ==
    /\ Modelled
    /\ Cardinality(live) < MaxLive
    /\ \E o \in Allocated(Now, n) : Becomes(o.s) /\ live' = live \cup {o.got}

\* free with and without a size, and reallocate to no bytes.
Free(e) ==
    /\ Modelled
    /\ Becomes(FreeImpl(Now, e))
    /\ live' = live \ {e}

\* The new allocation is made before the old one is freed.
Reallocate(e, n) ==
    /\ Modelled
    /\ \E o \in Allocated(Now, n) :
         /\ Becomes(FreeImpl(o.s, e))
         /\ live' = (live \ {e}) \cup {o.got}

\* The destructor, once all is freed, and a new allocator in its place.
Destroy ==
    /\ Modelled
    /\ live = {}
    /\ mList # <<>>
    /\ Becomes(GivenBack([list |-> <<>>, last |-> 0, count |-> mBytesAllocated,
                          pools |-> pools, strays |-> strays],
                         {Span(e.at, e.numBlocks) :
                             e \in {f \in ToSet(mList) : f.pSrcPool = f.at}}))
    /\ UNCHANGED live

Next ==
    \/ \E n \in Needs : Allocate(n)
    \/ \E e \in live : Free(e)
    \/ \E e \in live, n \in Needs : Reallocate(e, n)
    \/ Destroy

Spec == Init /\ [][Next]_vars

-----------------------------------------------------------------------------
Addresses == 0..HeapBlocks - 1

Entries == [at : Addresses, numBlocks : 1..HeapBlocks,
            pSrcPool : Addresses, allocatedBlocks : 1..HeapBlocks]

(* Types of the list, the counters and the headers.                        *)
TypeOK ==
    /\ mList \in Seq(Entries)
    /\ mLastAllocSize \in 0..HeapBlocks
    /\ mBytesAllocated \in 0..MaxNumBytes
    /\ pools \subseteq [at : Addresses, len : 1..HeapBlocks]
    /\ live \subseteq Entries

Blocks(e) == e.at..End(e) - 1

Headers == ToSet(mList) \cup live

(* Every block of every pool is in one free run or in one allocation, and  *)
(* nothing else is: allocations never overlap, none is lost, and once all  *)
(* is freed the destructor finds every pool in the list.                   *)
BlocksAreConserved ==
    /\ \A e, f \in Headers : e # f => Blocks(e) \cap Blocks(f) = {}
    /\ UNION {Blocks(e) : e \in Headers} = BlocksOf(pools)
    /\ ToSet(mList) \cap live = {}

(* The list is in address order and no two free runs touch, whatever the   *)
(* order of the frees: a request fails only if no free run is long enough. *)
NeighboursAreMerged ==
    \A i \in 1..Len(mList) - 1 : End(mList[i]) < mList[i + 1].at

(* Through splits and merges each header names the pool it lies in and     *)
(* that pool's length, and at most one pool is kept with nothing in use.   *)
PoolsAreTracked ==
    /\ \A e \in Headers : \E r \in pools :
         /\ r = Span(e.pSrcPool, e.allocatedBlocks)
         /\ r.at <= e.at /\ End(e) <= r.at + r.len
    /\ Cardinality({e \in ToSet(mList) : e.numBlocks = e.allocatedBlocks}) <= 1

(* The ConstrainedAllocator counts what the source has given and not got   *)
(* back, no more and no less.                                              *)
BudgetIsExact == mBytesAllocated = Cardinality(BlocksOf(pools))

(* A range that munmap is called with begins at a page: "Invalid pointer   *)
(* detected on munmap()" at MemorySource.cpp:401 never appears.            *)
MunmapSucceeds == \A r \in strays : r.at % PageBlocks = 0
=============================================================================
