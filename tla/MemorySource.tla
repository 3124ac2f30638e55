---------------------------- MODULE MemorySource ----------------------------
(***************************************************************************)
(* ls::utils::MemorySource as the allocators see it: allocate gives a      *)
(* range of addresses that nobody else has, free takes one back.           *)
(* MallocMemorySource gives the size asked for, with malloc's own header   *)
(* between two ranges; SystemMemorySource rounds up to pages, and two      *)
(* mappings may lie side by side.                                          *)
(*                                                                         *)
(* Addresses and sizes are in blocks, the size of an AllocationEntry.      *)
(***************************************************************************)
EXTENDS Integers

CONSTANTS HeapBlocks,      \* bound: addresses are 0..HeapBlocks-1
          PageBlocks,      \* blocks in a page; 1 for malloc
          Gap              \* blocks between two ranges; 0 for mmap

ASSUME SourceAssumption ==
    /\ HeapBlocks \in Nat \ {0}
    /\ PageBlocks \in Nat \ {0}
    /\ Gap \in Nat

Span(at, n) == [at |-> at, len |-> n]

\* n made a multiple of m.
RoundedUp(n, m) == ((n + m - 1) \div m) * m

Apart(r, q) == r.at + r.len + Gap <= q.at \/ q.at + q.len + Gap <= r.at

\* What allocate(n) may return while the ranges of pools are in use.
Granted(pools, n) ==
    LET len == RoundedUp(n, PageBlocks)
    IN  {r \in {Span(at, len) : at \in 0..HeapBlocks - len} :
            r.at % PageBlocks = 0 /\ \A q \in pools : Apart(r, q)}
=============================================================================
