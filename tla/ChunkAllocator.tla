--------------------------- MODULE ChunkAllocator ---------------------------
(***************************************************************************)
(* ls::utils::ChunkAllocator<block_size, total_size>: a table of chunks,   *)
(* of which the free ones form a list through their first bytes.  A chunk  *)
(* that was handed out belongs to its caller, who may write over its link. *)
(* Moving the allocator takes the whole record along.                      *)
(***************************************************************************)
EXTENDS Integers, FiniteSets

CONSTANT NumChunks      \* total_size / block_size

VARIABLE chunks
(* chunks.mHead  the first free chunk, 0 if there is none                  *)
(* chunks.pNext  the first bytes of each chunk, -1 if a caller wrote them  *)
(* chunks.out    history: the chunks that callers have                     *)

Chunks == 1..NumChunks
Written == 0 - 1

Init ==
    chunks = [mHead |-> 1, pNext |-> [c \in Chunks |-> IF c < NumChunks THEN c + 1 ELSE 0],
              out |-> {}]

-----------------------------------------------------------------------------
\* Mutant: the head of the list is taken from behind the chunk, not from in it.
Allocate_NextInTable ==
    /\ chunks.mHead # 0
    /\ chunks' = [chunks EXCEPT !.mHead = IF @ < NumChunks THEN @ + 1 ELSE 0,
                                !.out = @ \cup {chunks.mHead}]

\* allocate() of both kinds; without a free chunk, or for more than fits in
\* one, it returns nullptr.
Allocate ==
    /\ chunks.mHead # 0
    /\ chunks' = [chunks EXCEPT !.mHead = chunks.pNext[@], !.out = @ \cup {chunks.mHead}]

\* A caller writes its chunk.
Write(c) ==
    /\ c \in chunks.out
    /\ chunks' = [chunks EXCEPT !.pNext[c] = Written]

\* free(p) and free(p, n)
Free(c) ==
    /\ c \in chunks.out
    /\ chunks' = [chunks EXCEPT !.pNext[c] = chunks.mHead, !.mHead = c, !.out = @ \ {c}]

Next ==
    \/ Allocate
    \/ \E c \in Chunks : Write(c) \/ Free(c)

-----------------------------------------------------------------------------
\* S has the first chunk of the list, and behind each of its chunks the next.
HoldsList(S) == ({chunks.mHead} \cup {chunks.pNext[c] : c \in S}) \cap Chunks \subseteq S

\* The chunks on the list
Listed == {c \in Chunks : \A S \in SUBSET Chunks : HoldsList(S) => c \in S}

(* The list has exactly the chunks nobody has, whatever callers wrote to   *)
(* theirs and in whatever order they were given back, so no chunk is       *)
(* handed out twice and none is lost.                                      *)
ChunksAreHandedOutOnce == chunks.out \cap Listed = {} /\ chunks.out \cup Listed = Chunks
=============================================================================
