--------------------------- MODULE Library_proofs ---------------------------
(***************************************************************************)
(* The parts of the library that hold data for one thread: the caches, the *)
(* containers, the allocators and Pointer (Interfaces_proofs is about the  *)
(* others).  Each has an inductive invariant of its own, because a step of *)
(* the library is a step of one part and leaves the others alone:          *)
(*                                                                         *)
(*   IInv         LRU8WayCache with any number of ways                     *)
(*   IndexedInv   IndexedCache                                             *)
(*   PointersInv  Pointer                                                  *)
(*   RingInv      RingBuffer                                               *)
(*   CachesInv    LRUCache beside LRU8WayCache, and both as an abstract    *)
(*                list                                                     *)
(*   ChunksInv    ChunkAllocator                                           *)
(*   WrapInv      ConstrainedAllocator over BlockAllocator                 *)
(*   TreeInv      BTree                                                    *)
(*   BitsInv      BitSet                                                   *)
(*                                                                         *)
(* The comment before each part says what its invariant rests on.          *)
(***************************************************************************)
EXTENDS Library, CommonLemmas, FiniteSetTheorems, WellFoundedInduction

-----------------------------------------------------------------------------
(* LRU8WayCache: the search for a zero row always finds one, the matrix is *)
(* the order of use, and the entry replaced is the oldest.                 *)
(*                                                                         *)
(* That there is a zero row is not inductive: it follows from the rows     *)
(* being a strict order, because the smallest row of such an order is      *)
(* empty.  And that the rows stay total needs the way of a miss to be one  *)
(* that exists.  So all three are proved together.                         *)
IInv == TypeOK /\ RowsAreTheOrderOfUse

LEMMA WayIdsFinite == IsFiniteSet(WayIds) /\ WayIds # {} /\ WayIds \subseteq Nat
<1>1. IsFiniteSet(WayIds)
    BY WaysPositive, FS_Interval DEF WayIds
<1>2. 0 \in WayIds
    BY WaysPositive DEF WayIds
<1>3. WayIds \subseteq Nat
    BY WaysPositive DEF WayIds
<1> QED BY <1>1, <1>2, <1>3

(* A non-empty family of sets of ways has a member that contains no other. *)
Below(A, B) == <<A, B>> \in StrictSubsetOrdering(WayIds)

LEMMA BelowIsStrictSubset ==
    \A A, B \in SUBSET WayIds : Below(A, B) <=> A \subseteq B /\ A # B
BY DEF Below, StrictSubsetOrdering

LEMMA SmallestSet ==
    \A F \in SUBSET (SUBSET WayIds) :
        F # {} => \E A \in F : \A B \in F : ~Below(B, A)
<1>1. SUBSET WayIds = FiniteSubsetsOf(WayIds)
    BY WayIdsFinite, FS_FiniteSubsetsOfFinite
<1>2. IsWellFoundedOn(StrictSubsetOrdering(WayIds), SUBSET WayIds)
    BY <1>1, FS_StrictSubsetOrderingWellFounded
<1> QED BY <1>2, WFMin DEF Below

(* A non-empty set of ways has a lowest one. *)
LEMMA LowestWay ==
    ASSUME NEW S \in SUBSET WayIds, S # {}
    PROVE  \E m \in S : \A n \in S : m <= n
<1> DEFINE Starts == {A \in SUBSET WayIds : \E n \in S : A = 0..n}
<1>1. ASSUME NEW n \in S PROVE n \in Nat /\ 0..n \in Starts
    <2>1. n \in 0..Ways - 1
        BY DEF WayIds
    <2> QED BY <2>1, WaysPositive DEF WayIds
<1>2. Starts \in SUBSET (SUBSET WayIds) /\ Starts # {}
    BY <1>1
<1>3. \E A \in Starts : \A B \in Starts : ~Below(B, A)
    <2> HIDE DEF Starts
    <2> QED BY <1>2, SmallestSet
<1>4. PICK m \in S : \A B \in Starts : ~Below(B, 0..m)
    BY <1>3
<1>5. ASSUME NEW n \in S, n < m PROVE FALSE
    <2>1. ~Below(0..n, 0..m)
        BY <1>1, <1>4
    <2>2. 0..n \subseteq 0..m /\ 0..n # 0..m
        BY <1>1, <1>5
    <2>3. 0..n \in SUBSET WayIds /\ 0..m \in SUBSET WayIds
        BY <1>1
    <2> QED BY <2>1, <2>2, <2>3, BelowIsStrictSubset
<1> QED BY <1>1, <1>5

(* A row with a bit in it strictly contains the row of that bit, so a      *)
(* smallest row is empty.                                                  *)
LEMMA ZeroRowExists == IInv => VictimExists
<1> SUFFICES ASSUME IInv PROVE ZeroRows # {}
    BY DEF VictimExists
<1> DEFINE Rows == {mRows[w] : w \in WayIds}
<1>1. Rows \in SUBSET (SUBSET WayIds) /\ Rows # {}
    <2>1. \A w \in WayIds : mRows[w] \in SUBSET WayIds
        BY DEF IInv, TypeOK
    <2> QED BY <2>1, WayIdsFinite, Zenon
<1>2. \E A \in Rows : \A B \in Rows : ~Below(B, A)
    <2> HIDE DEF Rows
    <2> QED BY <1>1, SmallestSet
<1>3. PICK w \in WayIds : \A u \in WayIds : ~Below(mRows[u], mRows[w])
    BY <1>2
<1>4. ASSUME NEW u \in mRows[w] PROVE FALSE
    <2>1. u \in WayIds /\ mRows[u] \subseteq mRows[w] /\ u \notin mRows[u]
        BY <1>4 DEF IInv, TypeOK, RowsAreTheOrderOfUse
    <2>2. Below(mRows[u], mRows[w])
        BY <1>4, <2>1, BelowIsStrictSubset DEF IInv, TypeOK
    <2> QED BY <1>3, <2>1, <2>2
<1>5. w \in ZeroRows
    BY <1>4 DEF ZeroRows
<1> QED BY <1>5

LEMMA VictimIsZeroRow ==
    ASSUME IInv
    PROVE  GetLRUIndex \in WayIds /\ mRows[GetLRUIndex] = {}
<1>1. ZeroRows \in SUBSET WayIds /\ ZeroRows # {}
    BY ZeroRowExists DEF VictimExists, ZeroRows
<1>2. \E w \in ZeroRows : \A u \in ZeroRows : w <= u
    BY <1>1, LowestWay
<1>3. GetLRUIndex \in ZeroRows
    BY <1>2 DEF GetLRUIndex
<1> QED BY <1>1, <1>3 DEF ZeroRows

LEMMA FoundWay ==
    ASSUME NEW k, Cached(k)
    PROVE  LookupIndexForKey(k) \in WayIds /\ mKeys[LookupIndexForKey(k)] = k
BY DEF Cached, LookupIndexForKey

LEMMA UsedWayIsAWay ==
    ASSUME IInv, NEW k
    PROVE  UsedWay(k) \in WayIds
BY FoundWay, VictimIsZeroRow DEF UsedWay

-----------------------------------------------------------------------------
(* A use of a way, as insert and query_or_update both make it. *)
Used(k) ==
    /\ mKeys' = [mKeys EXCEPT ![UsedWay(k)] = k]
    /\ UpdateLRUIndex(UsedWay(k))

LEMMA KeyIsNotMiss == \A k \in Keys : k # CACHE_MISS
BY KeysAreNumbers DEF CACHE_MISS

LEMMA UseKeepsKeysApart ==
    ASSUME IInv, NEW k \in Keys, Used(k),
           NEW w \in WayIds, NEW u \in WayIds, w # u
    PROVE  mKeys'[w] # mKeys'[u] \/ mKeys'[w] = CACHE_MISS
<1>1. CASE Cached(k)
    <2>1. UsedWay(k) \in WayIds /\ mKeys[UsedWay(k)] = k
        BY <1>1, FoundWay DEF UsedWay
    <2>2. mKeys' = mKeys
        BY <2>1 DEF Used, IInv, TypeOK
    <2> QED BY <2>2 DEF IInv, TypeOK
<1>2. CASE ~Cached(k)
    BY <1>2, UsedWayIsAWay DEF Used, IInv, TypeOK, Cached
<1> QED BY <1>1, <1>2

LEMMA UseKeepsOrder ==
    ASSUME IInv, NEW k \in Keys, Used(k)
    PROVE  RowsAreTheOrderOfUse'
<1> DEFINE x == UsedWay(k)
<1>1. x \in WayIds
    BY UsedWayIsAWay
<1>2. /\ mKeys' \in [WayIds -> Keys \cup {CACHE_MISS}]
      /\ mKeys'[x] = k
      /\ \A w \in WayIds \ {x} : mKeys'[w] = mKeys[w]
    BY <1>1 DEF Used, IInv, TypeOK
<1>3. /\ mRows'[x] = WayIds \ {x}
      /\ \A w \in WayIds \ {x} : mRows'[w] = mRows[w] \ {x}
    BY <1>1 DEF Used, UpdateLRUIndex
<1> HIDE DEF x
<1> USE <1>1, <1>2, <1>3, KeyIsNotMiss DEF IInv, TypeOK, RowsAreTheOrderOfUse
<1>4. ASSUME NEW w \in WayIds PROVE w \notin mRows'[w]
    OBVIOUS
<1>5. ASSUME NEW w \in WayIds, NEW u \in WayIds, u \in mRows'[w]
      PROVE  mRows'[u] \subseteq mRows'[w]
    <2>1. u # x
        BY <1>5
    <2>2. CASE w = x
        BY <2>1, <2>2
    <2>3. CASE w # x
        BY <1>5, <2>1, <2>3
    <2> QED BY <2>2, <2>3
<1>6. ASSUME NEW w \in WayIds, mKeys'[w] = CACHE_MISS PROVE mRows'[w] = {}
    BY <1>6
<1>7. ASSUME NEW w \in WayIds, NEW u \in WayIds, w # u, mKeys'[w] # CACHE_MISS
      PROVE  u \in mRows'[w] \/ w \in mRows'[u]
    <2>1. CASE w = x
        BY <1>7, <2>1
    <2>2. CASE u = x
        BY <1>7, <2>2
    <2>3. CASE w # x /\ u # x
        BY <1>7, <2>3
    <2> QED BY <2>1, <2>2, <2>3
<1> QED BY <1>4, <1>5, <1>6, <1>7

LEMMA UseKeepsIInv ==
    ASSUME IInv, NEW k \in Keys, Used(k),
           mData' \in [WayIds -> Values \cup {Blank}]
    PROVE  IInv'
<1>1. mKeys' \in [WayIds -> Keys \cup {CACHE_MISS}]
    BY UsedWayIsAWay DEF Used, IInv, TypeOK
<1>2. mRows' \in [WayIds -> SUBSET WayIds]
    BY DEF Used, UpdateLRUIndex, IInv, TypeOK
<1>3. TypeOK'
    BY <1>1, <1>2, UseKeepsKeysApart DEF TypeOK
<1> QED BY <1>3, UseKeepsOrder DEF IInv

-----------------------------------------------------------------------------
LEMMA InitIInv == Init => IInv
BY DEF Init, IInv, TypeOK, RowsAreTheOrderOfUse

LEMMA NextIInv == IInv /\ [Next]_vars => IInv'
<1> SUFFICES ASSUME IInv, [Next]_vars PROVE IInv'
    OBVIOUS
<1>1. CASE UNCHANGED vars
    BY <1>1 DEF vars, IInv, TypeOK, RowsAreTheOrderOfUse
<1>2. ASSUME NEW k \in Keys, NEW v \in Values, Insert(k, v) PROVE IInv'
    <2>1. Used(k)
        BY <1>2 DEF Insert, Used
    <2>2. mData' \in [WayIds -> Values \cup {Blank}]
        BY <1>2 DEF Insert, IInv, TypeOK
    <2> QED BY <2>1, <2>2, UseKeepsIInv
<1>3. ASSUME NEW k \in Keys, NEW v \in Values, QueryOrUpdate(k, v) PROVE IInv'
    <2>1. Used(k)
        BY <1>3 DEF QueryOrUpdate, Used
    <2>2. mData' \in [WayIds -> Values \cup {Blank}]
        BY <1>3 DEF QueryOrUpdate, IInv, TypeOK
    <2> QED BY <2>1, <2>2, UseKeepsIInv
<1>4. CASE Clear
    BY <1>4 DEF Clear, IInv, TypeOK, RowsAreTheOrderOfUse
<1> QED BY <1>1, <1>2, <1>3, <1>4 DEF Next

LEMMA IInvHolds == Spec => []IInv
BY InitIInv, NextIInv, PTL DEF Spec

(* No key is ever in two ways, whatever the number of ways, keys, values. *)
THEOREM TypeCorrect == Spec => []TypeOK
<1>1. IInv => TypeOK
    BY DEF IInv
<1> QED BY <1>1, IInvHolds, PTL

(* The bit matrix is the order in which the ways were used. *)
THEOREM OrderOfUseHolds == Spec => []RowsAreTheOrderOfUse
<1>1. IInv => RowsAreTheOrderOfUse
    BY DEF IInv
<1> QED BY <1>1, IInvHolds, PTL

(* _get_lru_index always returns a way that exists. *)
THEOREM VictimAlwaysExists == Spec => []VictimExists
BY ZeroRowExists, IInvHolds, PTL

(* A step replaces an entry only in the way found by _get_lru_index, and   *)
(* with that row zero the order puts every other way after it.             *)
LEMMA ReplacedIsOldest ==
    ASSUME IInv, [Next]_vars, NEW w \in WayIds, Replaced(w), NEW u \in WayIds \ {w}
    PROVE  w \in mRows[u]
<1>1. ASSUME NEW k \in Keys, mKeys' = [mKeys EXCEPT ![UsedWay(k)] = k]
      PROVE  w \in mRows[u]
    <2>1. w = UsedWay(k)
        BY <1>1, UsedWayIsAWay DEF Replaced, IInv, TypeOK
    <2>2. ~Cached(k)
        BY <1>1, <2>1, FoundWay DEF UsedWay, Replaced, IInv, TypeOK
    <2>3. mRows[w] = {}
        BY <2>1, <2>2, VictimIsZeroRow DEF UsedWay
    <2> QED BY <2>3 DEF Replaced, IInv, RowsAreTheOrderOfUse
<1>2. CASE UNCHANGED vars
    BY <1>2 DEF vars, Replaced
<1>3. CASE Clear
    BY <1>3 DEF Clear, Replaced
<1> QED BY <1>1, <1>2, <1>3 DEF Next, Insert, QueryOrUpdate

(* A miss that has to make room gives up the entry used longest ago. *)
THEOREM OldestIsReplaced == Spec => ReplacesTheOldest
<1>1. IInv /\ [Next]_vars =>
        [\A w \in WayIds : Replaced(w) => \A u \in WayIds \ {w} : w \in mRows[u]]_vars
    BY ReplacedIsOldest
<1> QED BY <1>1, IInvHolds, PTL DEF Spec, ReplacesTheOldest

-----------------------------------------------------------------------------
(* IndexedCache: which key shares a place with which is the residue modulo *)
(* the size.  What is written at a place is no Blank while a key is there. *)
IndexedInv ==
    /\ mCacheIds \in [Indexed!Places -> Keys \cup {Indexed!CACHE_MISS}]
    /\ indexedData \in [Indexed!Places -> Values \cup {Blank}]
    /\ stored \in [Keys -> Values \cup {Blank}]
    /\ \A i \in Indexed!Places : mCacheIds[i] # Indexed!CACHE_MISS => indexedData[i] # Blank
    /\ IndexedHitsAreCurrent

LEMMA PlaceOfKey ==
    ASSUME NEW k \in Keys
    PROVE  Indexed!HashId(k) \in Indexed!Places /\ k # Indexed!CACHE_MISS /\ k \in Nat
BY KeysAreNumbers, WaysPositive, DivMod DEF Indexed!HashId, Indexed!Places, Indexed!CACHE_MISS

LEMMA SharesPlace ==
    ASSUME NEW j \in Keys, NEW k \in Keys
    PROVE  (j - k) % Ways = 0 <=> Indexed!HashId(j) = Indexed!HashId(k)
<1>1. j \in Int /\ k \in Int
    BY KeysAreNumbers
<1> QED BY <1>1, WaysPositive, SameResidue DEF Indexed!HashId

LEMMA InitIndexed == InitAll => IndexedInv
<1> SUFFICES ASSUME InitAll PROVE IndexedInv
    OBVIOUS
<1>1. \A k \in Keys : Indexed!Query(k) = Blank
    BY PlaceOfKey DEF InitAll, Indexed!Init, Indexed!Query, Indexed!Cached
<1> QED BY <1>1 DEF InitAll, Indexed!Init, IndexedInv, IndexedHitsAreCurrent

(* v is left at the place of k: by insert, and by query_or_update, which   *)
(* leaves what a hit finds there.                                          *)
LEMMA PlaceIsTaken ==
    ASSUME IndexedInv, NEW k \in Keys, NEW v \in Values,
           mCacheIds' = [mCacheIds EXCEPT ![Indexed!HashId(k)] = k],
           indexedData' = [indexedData EXCEPT ![Indexed!HashId(k)] = v],
           Stored(k, v)
    PROVE  IndexedInv'
<1>1. Indexed!HashId(k) \in Indexed!Places
    BY PlaceOfKey
<1>2. ASSUME NEW j \in Keys PROVE Indexed!Query(j)' = stored'[j]
    <2>1. Indexed!HashId(j) \in Indexed!Places
        BY PlaceOfKey
    <2>2. CASE j = k
        BY <1>1, <2>2 DEF IndexedInv, Stored, Indexed!Query, Indexed!Cached, Indexed!HashId
    <2>3. CASE j # k /\ Indexed!HashId(j) = Indexed!HashId(k)
        <3>1. stored'[j] = Blank
            BY <2>3, SharesPlace DEF Stored
        <3>2. mCacheIds'[Indexed!HashId(j)] # j
            BY <1>1, <2>3 DEF IndexedInv
        <3> QED BY <3>1, <3>2 DEF Indexed!Query, Indexed!Cached, Indexed!HashId
    <2>4. CASE Indexed!HashId(j) # Indexed!HashId(k)
        <3>1. stored'[j] = stored[j]
            BY <2>4, SharesPlace DEF Stored
        <3>2. /\ mCacheIds'[Indexed!HashId(j)] = mCacheIds[Indexed!HashId(j)]
              /\ indexedData'[Indexed!HashId(j)] = indexedData[Indexed!HashId(j)]
            BY <2>1, <2>4 DEF IndexedInv
        <3> QED BY <3>1, <3>2 DEF IndexedInv, IndexedHitsAreCurrent, Indexed!Query, Indexed!Cached,
                                  Indexed!HashId
    <2> QED BY <2>2, <2>3, <2>4
<1>3. stored' \in [Keys -> Values \cup {Blank}]
    BY DEF IndexedInv, Stored
<1>4. /\ mCacheIds' \in [Indexed!Places -> Keys \cup {Indexed!CACHE_MISS}]
      /\ indexedData' \in [Indexed!Places -> Values \cup {Blank}]
      /\ \A i \in Indexed!Places : mCacheIds'[i] # Indexed!CACHE_MISS => indexedData'[i] # Blank
    BY <1>1, BlankIsNoValue DEF IndexedInv
<1> QED BY <1>2, <1>3, <1>4 DEF IndexedInv, IndexedHitsAreCurrent, Indexed!Places,
      Indexed!CACHE_MISS

LEMMA IndexedStep == IndexedInv /\ NextAll => IndexedInv'
<1> SUFFICES ASSUME IndexedInv, NextAll PROVE IndexedInv'
    OBVIOUS
<1>1. ASSUME NEW k \in Keys, NEW v \in Values, InsertAll(k, v) PROVE IndexedInv'
    BY <1>1, PlaceIsTaken DEF InsertAll, Indexed!Insert
<1>2. ASSUME NEW k \in Keys, NEW v \in Values, QueryOrUpdateAll(k, v) PROVE IndexedInv'
    <2> DEFINE h == Indexed!HashId(k)
    <2>1. /\ mCacheIds' = [mCacheIds EXCEPT ![h] = k]
          /\ indexedData' = IF Indexed!Cached(k) THEN indexedData
                            ELSE [indexedData EXCEPT ![h] = v]
          /\ Stored(k, IF stored[k] = Blank THEN v ELSE stored[k])
        BY <1>2 DEF QueryOrUpdateAll, Indexed!QueryOrUpdate
    <2>2. stored[k] = IF Indexed!Cached(k) THEN indexedData[h] ELSE Blank
        BY DEF IndexedInv, IndexedHitsAreCurrent, Indexed!Query
    <2>3. h \in Indexed!Places
        BY PlaceOfKey
    <2>4. CASE Indexed!Cached(k)
        <3>1. indexedData[h] \in Values
            BY <2>3, <2>4, PlaceOfKey DEF IndexedInv, Indexed!Cached
        <3>2. indexedData' = [indexedData EXCEPT ![h] = indexedData[h]]
            BY <2>1, <2>3, <2>4 DEF IndexedInv
        <3>3. Stored(k, indexedData[h])
            BY <2>1, <2>2, <2>4, <3>1, BlankIsNoValue
        <3> QED BY <2>1, <3>1, <3>2, <3>3, PlaceIsTaken
    <2>5. CASE ~Indexed!Cached(k)
        BY <2>1, <2>2, <2>5, PlaceIsTaken
    <2> QED BY <2>4, <2>5
<1>3. CASE ClearAll
    <2>1. \A k \in Keys : Indexed!Query(k)' = Blank
        BY <1>3, PlaceOfKey DEF ClearAll, Indexed!Clear, Indexed!Query, Indexed!Cached,
           Indexed!HashId,
           Indexed!Places, Indexed!CACHE_MISS
    <2> QED BY <1>3, <2>1 DEF ClearAll, Indexed!Clear, IndexedInv, IndexedHitsAreCurrent,
          Indexed!Places,
                              Indexed!CACHE_MISS
<1> QED BY <1>1, <1>2, <1>3 DEF NextAll

-----------------------------------------------------------------------------
(* A step of the library leaves the caches alone or is one of theirs.      *)
LEMMA CachesStep == [LibraryNext]_libraryVars => [NextAll]_allVars
BY DEF LibraryNext, Others, libraryVars

(* query finds in an IndexedCache what was last left under the key, and    *)
(* nothing once another key took its place or the cache was cleared.       *)
THEOREM IndexedHits == LibrarySpec => []IndexedHitsAreCurrent
<1>1. LibraryInit => IndexedInv
    BY InitIndexed DEF LibraryInit
<1>2. IndexedInv /\ [LibraryNext]_libraryVars => IndexedInv'
    <2>1. IndexedInv /\ UNCHANGED allVars => IndexedInv'
        BY DEF IndexedInv, IndexedHitsAreCurrent, Indexed!Query, Indexed!Cached, Indexed!HashId,
           allVars
    <2> QED BY <2>1, CachesStep, IndexedStep
<1>3. IndexedInv => IndexedHitsAreCurrent
    BY DEF IndexedInv
<1> QED BY <1>1, <1>2, <1>3, PTL DEF LibrarySpec
-----------------------------------------------------------------------------
(* The part "pointers".  Until an object has deleted the Pointer that was  *)
(* to be set, a live object has one Pointer that holds it or a caller, and *)
(* what does not exist holds nothing.                                      *)
OwnedOnce(h) ==
    /\ h \in [pData: [Pointer!Pointers -> Objects \cup {Null}],
              live: SUBSET Objects, raw: SUBSET Objects, spoilt: BOOLEAN]
    /\ h.raw \subseteq h.live
    /\ \A p \in Pointer!Pointers : h.pData[p] \in (h.live \ h.raw) \cup {Null}
    /\ \A o \in Objects \ h.live : h.pData[o] = Null
    /\ \A p, q \in Pointer!Pointers : h.pData[p] = h.pData[q] /\ h.pData[p] # Null => p = q
    /\ \A o \in h.live \ h.raw : \E p \in Pointer!Pointers : h.pData[p] = o

\* Objects that no caller has, and that are held from among them only: nobody else
\* leads to them.
Orphans(h, C) ==
    /\ C \subseteq h.live /\ C \cap h.raw = {}
    /\ \A p \in Pointer!Pointers : h.pData[p] \in C => p \in C

NothingLost(h) == \A C \in SUBSET Objects : Orphans(h, C) => C = {}

\* p is outside of E, which holds x and all that x owns.
Outside(h, E, x, p) ==
    /\ E \in SUBSET Objects /\ p \notin E /\ x \in E \cup {Null}
    /\ \A o \in E : h.pData[o] \in E \cup {Null}

PointersInv == heap.spoilt \/ (OwnedOnce(heap) /\ (ringed \/ NothingLost(heap)))

\* The heap without the objects in dead, where nobody refers to them.
Freed(h, dead) ==
    [h EXCEPT !.live = @ \ dead, !.raw = @ \ dead,
              !.pData = [p \in Pointer!Pointers |->
                  IF p \in dead \/ h.pData[p] \in dead THEN Null ELSE h.pData[p]]]

\* What is deleted with x exists and owns nothing else, and none of it but x has an
\* owner that stays.
LEMMA WhatIsDeleted ==
    ASSUME OwnedOnce(heap), NEW x \in heap.live \cup {Null}
    PROVE  /\ Pointer!Deletes(x) \subseteq heap.live
           /\ x # Null => x \in Pointer!Deletes(x)
           /\ \A o \in Pointer!Deletes(x) : heap.pData[o] \in Pointer!Deletes(x) \cup {Null}
           /\ \A o \in Pointer!Deletes(x), q \in Pointer!Pointers :
                o # x /\ heap.pData[q] = o => q \in Pointer!Deletes(x)
<1> DEFINE D == Pointer!Deletes(x)
           Closed(S) == {x} \ {Null} \subseteq S /\ Pointer!Owned(S) \subseteq S
<1>1. D = {o \in Objects : \A S \in SUBSET Objects : Closed(S) => o \in S}
  BY DEF Pointer!Deletes
<1>2. Closed(heap.live) /\ heap.live \in SUBSET Objects
  BY PointersAreApart DEF OwnedOnce, Pointer!Owned, Pointer!Pointers
<1>3. D \subseteq heap.live
  BY <1>1, <1>2
<1>4. x # Null => x \in D
  BY <1>1, <1>2
<1>5. ASSUME NEW o \in D PROVE heap.pData[o] \in D \cup {Null}
  <2> SUFFICES ASSUME heap.pData[o] # Null PROVE heap.pData[o] \in D
    OBVIOUS
  <2>1. o \in Objects
    BY <1>1
  <2>2. heap.pData[o] \in Objects
    BY <2>1 DEF OwnedOnce, Pointer!Pointers
  <2>3. ASSUME NEW S \in SUBSET Objects, Closed(S) PROVE heap.pData[o] \in S
    <3>1. o \in S
      BY <1>1, <2>3
    <3> QED BY <3>1, <2>3 DEF Pointer!Owned
  <2> QED BY <1>1, <2>2, <2>3
<1>6. ASSUME NEW o \in D, NEW q \in Pointer!Pointers, o # x, heap.pData[q] = o, q \notin D
      PROVE  FALSE
  <2> DEFINE S == D \ {o}
  <2>1. S \in SUBSET Objects /\ {x} \ {Null} \subseteq S
    BY <1>1, <1>4, <1>6
  <2>2. ASSUME NEW s \in S PROVE heap.pData[s] \in S \cup {Null}
    <3>1. s \in Pointer!Pointers /\ o \in Objects /\ o # Null
      BY <2>1, <1>1, PointersAreApart DEF Pointer!Pointers
    <3>2. heap.pData[s] # o
      BY <3>1, <1>6, <2>2 DEF OwnedOnce
    <3> QED BY <3>2, <1>5
  <2>3. Closed(S)
    BY <2>1, <2>2 DEF Pointer!Owned
  <2> QED BY <1>1, <2>1, <2>3
<1> QED BY <1>3, <1>4, <1>5, <1>6

LEMMA FreedIsOwnedOnce ==
    ASSUME NEW h, OwnedOnce(h), NEW dead \in SUBSET h.live,
           \A o \in dead : h.pData[o] \in dead \cup {Null}
    PROVE  OwnedOnce(Freed(h, dead))
<1> DEFINE g == Freed(h, dead)
<1>1. h \in [pData: [Pointer!Pointers -> Objects \cup {Null}],
             live: SUBSET Objects, raw: SUBSET Objects, spoilt: BOOLEAN]
  BY DEF OwnedOnce
<1>2. /\ g.live = h.live \ dead /\ g.raw = h.raw \ dead /\ g.spoilt = h.spoilt
      /\ g.pData = [p \in Pointer!Pointers |->
                     IF p \in dead \/ h.pData[p] \in dead THEN Null ELSE h.pData[p]]
      /\ g \in [pData: [Pointer!Pointers -> Objects \cup {Null}],
                live: SUBSET Objects, raw: SUBSET Objects, spoilt: BOOLEAN]
  BY <1>1 DEF Freed
<1> HIDE DEF g
<1>3. \A p \in Pointer!Pointers : g.pData[p] \in (g.live \ g.raw) \cup {Null}
  BY <1>2 DEF OwnedOnce
<1>4. \A o \in Objects \ g.live : g.pData[o] = Null
  BY <1>2 DEF OwnedOnce, Pointer!Pointers
<1>5. \A p, q \in Pointer!Pointers : g.pData[p] = g.pData[q] /\ g.pData[p] # Null => p = q
  BY <1>2 DEF OwnedOnce
<1>6. ASSUME NEW o \in g.live \ g.raw PROVE \E p \in Pointer!Pointers : g.pData[p] = o
  <2>1. o \in h.live \ h.raw /\ o \notin dead /\ o # Null
    BY <1>2, <1>1, PointersAreApart
  <2>2. PICK p \in Pointer!Pointers : h.pData[p] = o
    BY <2>1 DEF OwnedOnce
  <2>3. p \notin dead
    BY <2>1, <2>2
  <2> QED BY <1>2, <2>1, <2>2, <2>3
<1> QED BY <1>2, <1>3, <1>4, <1>5, <1>6 DEF OwnedOnce, g

\* clear() of a Pointer that is not itself deleted, before it is set again
LEMMA ClearedIsOwnedOnce ==
    ASSUME OwnedOnce(heap), NEW p \in Pointer!Pointers, p \notin Pointer!Deletes(heap.pData[p])
    PROVE  /\ [Pointer!Cleared(p) EXCEPT !.pData[p] = Null]
                = Freed(heap, Pointer!Deletes(heap.pData[p]))
           /\ OwnedOnce(Freed(heap, Pointer!Deletes(heap.pData[p])))
<1> DEFINE x == heap.pData[p]
           D == Pointer!Deletes(x)
           Left == Pointer!Cleared(p)
<1>1. heap \in [pData: [Pointer!Pointers -> Objects \cup {Null}],
                live: SUBSET Objects, raw: SUBSET Objects, spoilt: BOOLEAN]
  BY DEF OwnedOnce
<1>2. x \in heap.live \cup {Null}
  BY DEF OwnedOnce
<1>3. /\ D \subseteq heap.live
      /\ x # Null => x \in D
      /\ \A o \in D : heap.pData[o] \in D \cup {Null}
      /\ \A o \in D, q \in Pointer!Pointers : o # x /\ heap.pData[q] = o => q \in D
  BY <1>2, WhatIsDeleted
<1>4. OwnedOnce(Freed(heap, D))
  BY <1>3, FreedIsOwnedOnce
<1>5. Null \notin D
  BY <1>3, <1>1, PointersAreApart
<1>6. \A q \in Pointer!Pointers : heap.pData[q] \in D => q \in D \/ q = p
  BY <1>3, <1>5 DEF OwnedOnce
<1> HIDE DEF D
<1>7. \A q \in Pointer!Pointers :
        (IF q = p THEN Null ELSE IF q \in D THEN Null ELSE heap.pData[q])
          = (IF q \in D \/ heap.pData[q] \in D THEN Null ELSE heap.pData[q])
  BY <1>3, <1>6
<1>8. Pointer!Cleared(p) = Pointer!Without(heap, D)
  BY DEF Pointer!Cleared, D
<1>9. [Pointer!Without(heap, D) EXCEPT !.pData[p] = Null] = Freed(heap, D)
  BY <1>1, <1>7 DEF Pointer!Without, Freed
<1> QED BY <1>4, <1>8, <1>9 DEF D

LEMMA MovedIsOwnedOnce ==
    ASSUME NEW h, OwnedOnce(h), NEW to \in Roots \cup h.live, NEW from \in Pointer!Pointers,
           to # from, h.pData[to] = Null
    PROVE  OwnedOnce([h EXCEPT !.pData[to] = h.pData[from], !.pData[from] = Null])
<1> DEFINE g == [h EXCEPT !.pData[to] = h.pData[from], !.pData[from] = Null]
<1>1. h \in [pData: [Pointer!Pointers -> Objects \cup {Null}],
             live: SUBSET Objects, raw: SUBSET Objects, spoilt: BOOLEAN]
  BY DEF OwnedOnce
<1>2. to \in Pointer!Pointers
  BY <1>1 DEF Pointer!Pointers
<1>3. /\ g.live = h.live /\ g.raw = h.raw
      /\ g.pData \in [Pointer!Pointers -> Objects \cup {Null}]
      /\ \A p \in Pointer!Pointers :
           g.pData[p] = IF p = from THEN Null
                        ELSE IF p = to THEN h.pData[from] ELSE h.pData[p]
      /\ g \in [pData: [Pointer!Pointers -> Objects \cup {Null}],
                live: SUBSET Objects, raw: SUBSET Objects, spoilt: BOOLEAN]
  BY <1>1, <1>2
<1> HIDE DEF g
<1>4. \A p \in Pointer!Pointers : g.pData[p] \in (g.live \ g.raw) \cup {Null}
  BY <1>3 DEF OwnedOnce
<1>5. \A o \in Objects \ g.live : g.pData[o] = Null
  BY <1>3, PointersAreApart DEF OwnedOnce, Pointer!Pointers
<1>6. \A p, q \in Pointer!Pointers : g.pData[p] = g.pData[q] /\ g.pData[p] # Null => p = q
  BY <1>3 DEF OwnedOnce
<1>7. ASSUME NEW o \in g.live \ g.raw PROVE \E p \in Pointer!Pointers : g.pData[p] = o
  <2>1. o \in h.live \ h.raw /\ o # Null
    BY <1>3, <1>1, PointersAreApart
  <2>2. PICK p \in Pointer!Pointers : h.pData[p] = o
    BY <2>1 DEF OwnedOnce
  <2>3. CASE p = from
    BY <1>2, <1>3, <2>2, <2>3
  <2>4. CASE p # from
    BY <1>3, <2>1, <2>2, <2>4
  <2> QED BY <2>3, <2>4
<1> QED BY <1>3, <1>4, <1>5, <1>6, <1>7 DEF OwnedOnce, g

LEMMA SwappedIsOwnedOnce ==
    ASSUME NEW h, OwnedOnce(h), NEW p \in Roots \cup h.live, NEW q \in Roots \cup h.live
    PROVE  OwnedOnce([h EXCEPT !.pData[p] = h.pData[q], !.pData[q] = h.pData[p]])
<1> DEFINE g == [h EXCEPT !.pData[p] = h.pData[q], !.pData[q] = h.pData[p]]
<1>1. h \in [pData: [Pointer!Pointers -> Objects \cup {Null}],
             live: SUBSET Objects, raw: SUBSET Objects, spoilt: BOOLEAN]
  BY DEF OwnedOnce
<1>2. p \in Pointer!Pointers /\ q \in Pointer!Pointers
  BY <1>1 DEF Pointer!Pointers
<1>3. /\ g.live = h.live /\ g.raw = h.raw
      /\ g.pData \in [Pointer!Pointers -> Objects \cup {Null}]
      /\ \A r \in Pointer!Pointers :
           g.pData[r] = h.pData[IF r = p THEN q ELSE IF r = q THEN p ELSE r]
      /\ g \in [pData: [Pointer!Pointers -> Objects \cup {Null}],
                live: SUBSET Objects, raw: SUBSET Objects, spoilt: BOOLEAN]
  BY <1>1, <1>2
<1> HIDE DEF g
<1>4. \A r \in Pointer!Pointers : g.pData[r] \in (g.live \ g.raw) \cup {Null}
  BY <1>2, <1>3 DEF OwnedOnce
<1>5. \A o \in Objects \ g.live : g.pData[o] = Null
  BY <1>3, PointersAreApart DEF OwnedOnce, Pointer!Pointers
<1>6. \A r, s \in Pointer!Pointers : g.pData[r] = g.pData[s] /\ g.pData[r] # Null => r = s
  BY <1>2, <1>3 DEF OwnedOnce
<1>7. ASSUME NEW o \in g.live \ g.raw PROVE \E r \in Pointer!Pointers : g.pData[r] = o
  <2>1. PICK r \in Pointer!Pointers : h.pData[r] = o
    BY <1>3 DEF OwnedOnce
  <2> QED BY <1>2, <1>3, <2>1
<1> QED BY <1>3, <1>4, <1>5, <1>6, <1>7 DEF OwnedOnce, g

\* An empty Pointer takes an object from a caller.
LEMMA TakenIsOwnedOnce ==
    ASSUME NEW h, OwnedOnce(h), NEW p \in Roots \cup h.live, NEW o \in h.raw \cup {Null},
           h.pData[p] = Null
    PROVE  OwnedOnce([h EXCEPT !.pData[p] = o, !.raw = @ \ {o}])
<1> DEFINE g == [h EXCEPT !.pData[p] = o, !.raw = @ \ {o}]
<1>1. h \in [pData: [Pointer!Pointers -> Objects \cup {Null}],
             live: SUBSET Objects, raw: SUBSET Objects, spoilt: BOOLEAN]
  BY DEF OwnedOnce
<1>2. p \in Pointer!Pointers
  BY <1>1 DEF Pointer!Pointers
<1>3. /\ g.live = h.live /\ g.raw = h.raw \ {o}
      /\ g.pData = [h.pData EXCEPT ![p] = o]
      /\ g.pData \in [Pointer!Pointers -> Objects \cup {Null}]
      /\ g \in [pData: [Pointer!Pointers -> Objects \cup {Null}],
                live: SUBSET Objects, raw: SUBSET Objects, spoilt: BOOLEAN]
  BY <1>1, <1>2
<1> HIDE DEF g
<1>4. \A r \in Pointer!Pointers : g.pData[r] \in (g.live \ g.raw) \cup {Null}
  BY <1>1, <1>3 DEF OwnedOnce
<1>5. \A x \in Objects \ g.live : g.pData[x] = Null
  BY <1>1, <1>3, PointersAreApart DEF OwnedOnce, Pointer!Pointers
<1>6. \A r, s \in Pointer!Pointers : g.pData[r] = g.pData[s] /\ g.pData[r] # Null => r = s
  BY <1>1, <1>3 DEF OwnedOnce
<1>7. ASSUME NEW x \in g.live \ g.raw PROVE \E r \in Pointer!Pointers : g.pData[r] = x
  <2>1. CASE x = o
    BY <1>1, <1>2, <1>3, <2>1
  <2>2. CASE x # o
    <3>1. PICK r \in Pointer!Pointers : h.pData[r] = x
      BY <1>3, <2>2 DEF OwnedOnce
    <3>2. r # p
      BY <1>1, <1>3, <3>1, PointersAreApart
    <3> QED BY <1>1, <1>3, <3>1, <3>2
  <2> QED BY <2>1, <2>2
<1> QED BY <1>1, <1>3, <1>4, <1>5, <1>6, <1>7 DEF OwnedOnce, g

LEMMA MakeKeeps ==
    ASSUME OwnedOnce(heap), NEW to \in Roots \cup heap.live, NEW o \in Objects,
           Pointer!Make(to, o)
    PROVE  OwnedOnce(heap')
<1>1. heap \in [pData: [Pointer!Pointers -> Objects \cup {Null}],
                live: SUBSET Objects, raw: SUBSET Objects, spoilt: BOOLEAN]
  BY DEF OwnedOnce
<1>2. to \in Pointer!Pointers /\ heap.pData[to] = Null /\ o \notin heap.live
  BY <1>1 DEF Pointer!Pointers, Pointer!Make
<1>3. /\ heap'.live = heap.live \cup {o} /\ heap'.raw = heap.raw
      /\ heap'.pData = [heap.pData EXCEPT ![to] = o]
      /\ heap' \in [pData: [Pointer!Pointers -> Objects \cup {Null}],
                   live: SUBSET Objects, raw: SUBSET Objects, spoilt: BOOLEAN]
  BY <1>1, <1>2 DEF Pointer!Make
<1>4. \A r \in Pointer!Pointers : heap'.pData[r] \in (heap'.live \ heap'.raw) \cup {Null}
  BY <1>1, <1>2, <1>3 DEF OwnedOnce
<1>5. \A x \in Objects \ heap'.live : heap'.pData[x] = Null
  BY <1>1, <1>3, PointersAreApart DEF OwnedOnce, Pointer!Pointers
<1>6. \A r, s \in Pointer!Pointers : heap'.pData[r] = heap'.pData[s] /\ heap'.pData[r] # Null
      => r = s
  BY <1>1, <1>2, <1>3 DEF OwnedOnce
<1>7. ASSUME NEW x \in heap'.live \ heap'.raw PROVE \E r \in Pointer!Pointers : heap'.pData[r] = x
  <2>1. CASE x = o
    BY <1>1, <1>2, <1>3, <2>1
  <2>2. CASE x # o
    <3>1. PICK r \in Pointer!Pointers : heap.pData[r] = x
      BY <1>3, <2>2 DEF OwnedOnce
    <3>2. r # to
      BY <1>1, <1>2, <1>3, <2>2, <3>1, PointersAreApart
    <3> QED BY <1>1, <1>3, <3>1, <3>2
  <2> QED BY <2>1, <2>2
<1> QED BY <1>1, <1>3, <1>4, <1>5, <1>6, <1>7 DEF OwnedOnce

LEMMA ReleaseKeeps ==
    ASSUME OwnedOnce(heap), NEW p \in Pointer!Pointers, Pointer!Release(p)
    PROVE  OwnedOnce(heap')
<1>1. heap \in [pData: [Pointer!Pointers -> Objects \cup {Null}],
                live: SUBSET Objects, raw: SUBSET Objects, spoilt: BOOLEAN]
  BY DEF OwnedOnce
<1>2. heap.pData[p] \in heap.live \ heap.raw
  BY DEF OwnedOnce, Pointer!Release
<1>3. /\ heap'.live = heap.live /\ heap'.raw = heap.raw \cup {heap.pData[p]}
      /\ heap'.pData = [heap.pData EXCEPT ![p] = Null]
      /\ heap' \in [pData: [Pointer!Pointers -> Objects \cup {Null}],
                   live: SUBSET Objects, raw: SUBSET Objects, spoilt: BOOLEAN]
  BY <1>1, <1>2 DEF Pointer!Release
<1>4. \A r \in Pointer!Pointers : heap'.pData[r] \in (heap'.live \ heap'.raw) \cup {Null}
  BY <1>1, <1>3 DEF OwnedOnce, Pointer!Release
<1>5. \A x \in Objects \ heap'.live : heap'.pData[x] = Null
  BY <1>1, <1>3, PointersAreApart DEF OwnedOnce, Pointer!Pointers
<1>6. \A r, s \in Pointer!Pointers : heap'.pData[r] = heap'.pData[s] /\ heap'.pData[r] # Null
      => r = s
  BY <1>1, <1>3 DEF OwnedOnce
<1>7. ASSUME NEW x \in heap'.live \ heap'.raw PROVE \E r \in Pointer!Pointers : heap'.pData[r] = x
  <2>1. PICK r \in Pointer!Pointers : heap.pData[r] = x
    BY <1>3 DEF OwnedOnce
  <2> QED BY <1>1, <1>3, <2>1
<1> QED BY <1>1, <1>2, <1>3, <1>4, <1>5, <1>6, <1>7 DEF OwnedOnce

\* What is deleted takes along all that it owns.
LEMMA FreedLosesNothing ==
    ASSUME NEW h, OwnedOnce(h), NothingLost(h), NEW dead \in SUBSET h.live,
           \A o \in dead : h.pData[o] \in dead \cup {Null}
    PROVE  NothingLost(Freed(h, dead))
<1> DEFINE g == Freed(h, dead)
<1>1. h \in [pData: [Pointer!Pointers -> Objects \cup {Null}],
             live: SUBSET Objects, raw: SUBSET Objects, spoilt: BOOLEAN]
  BY DEF OwnedOnce
<1>2. /\ g.live = h.live \ dead /\ g.raw = h.raw \ dead
      /\ \A p \in Pointer!Pointers :
           g.pData[p] = IF p \in dead \/ h.pData[p] \in dead THEN Null ELSE h.pData[p]
  BY <1>1 DEF Freed
<1> HIDE DEF g
<1>3. ASSUME NEW C \in SUBSET Objects, Orphans(g, C) PROVE C = {}
  <2>1. C \subseteq h.live /\ C \cap h.raw = {} /\ C \cap dead = {}
    BY <1>2, <1>3 DEF Orphans
  <2>2. ASSUME NEW p \in Pointer!Pointers, h.pData[p] \in C PROVE p \in C
    <3>1. h.pData[p] \notin dead /\ h.pData[p] # Null
      BY <2>1, <2>2, PointersAreApart
    <3>2. p \notin dead
      BY <3>1
    <3> QED BY <1>2, <1>3, <2>2, <3>1, <3>2 DEF Orphans
  <2> QED BY <2>1, <2>2 DEF NothingLost, Orphans
<1> QED BY <1>3 DEF NothingLost, g

\* If only x is held by another Pointer, which has x within itself neither before nor
\* after, then nothing is lost.
LEMMA OneIsRehung ==
    ASSUME NEW h, NothingLost(h), NEW E, NEW x, NEW to \in Pointer!Pointers, Outside(h, E, x, to),
           NEW C \in SUBSET Objects, C \subseteq h.live, C \cap h.raw \subseteq {x},
           \A p \in Pointer!Pointers : h.pData[p] \in C => h.pData[p] = x \/ p \in C,
           x \in C => to \in C,
           x \notin C => Orphans(h, C)
    PROVE  C = {}
<1>1. CASE x \notin C
  BY <1>1 DEF NothingLost
<1>2. CASE x \in C
  <2>1. x \in E
    BY <1>2, PointersAreApart DEF Outside
  <2>2. Orphans(h, C \ E)
    <3>1. ASSUME NEW p \in Pointer!Pointers, h.pData[p] \in C \ E PROVE p \in C \ E
      <4>1. p \in C /\ h.pData[p] # Null
        BY <2>1, <3>1, PointersAreApart
      <4>2. p \notin E
        BY <3>1, <4>1 DEF Outside
      <4> QED BY <4>1, <4>2
    <3> QED BY <2>1, <3>1 DEF Orphans
  <2>3. C \ E = {}
    BY <2>2 DEF NothingLost
  <2> QED BY <1>2, <2>3 DEF Outside
<1> QED BY <1>1, <1>2

LEMMA TakenLosesNothing ==
    ASSUME NEW h, OwnedOnce(h), NothingLost(h), NEW p \in Pointer!Pointers,
           NEW o \in h.raw \cup {Null}, h.pData[p] = Null, NEW E, Outside(h, E, o, p)
    PROVE  NothingLost([h EXCEPT !.pData[p] = o, !.raw = @ \ {o}])
<1> DEFINE g == [h EXCEPT !.pData[p] = o, !.raw = @ \ {o}]
<1>1. h \in [pData: [Pointer!Pointers -> Objects \cup {Null}],
             live: SUBSET Objects, raw: SUBSET Objects, spoilt: BOOLEAN]
  BY DEF OwnedOnce
<1>2. g.live = h.live /\ g.raw = h.raw \ {o} /\ g.pData = [h.pData EXCEPT ![p] = o]
  BY <1>1
<1> HIDE DEF g
<1>3. ASSUME NEW C \in SUBSET Objects, Orphans(g, C) PROVE C = {}
  <2>1. /\ C \subseteq h.live /\ C \cap h.raw \subseteq {o}
        /\ o \in C => p \in C
    BY <1>1, <1>2, <1>3 DEF Orphans
  <2>2. ASSUME NEW q \in Pointer!Pointers, h.pData[q] \in C PROVE q \in C
    <3>1. q # p
      BY <2>2, PointersAreApart
    <3> QED BY <1>1, <1>2, <1>3, <2>2, <3>1 DEF Orphans
  <2>3. o \notin C => Orphans(h, C)
    BY <2>1, <2>2 DEF Orphans
  <2> QED BY <2>1, <2>2, <2>3, OneIsRehung
<1> QED BY <1>3 DEF NothingLost, g

LEMMA MovedLosesNothing ==
    ASSUME NEW h, OwnedOnce(h), NothingLost(h), NEW to \in Pointer!Pointers,
           NEW from \in Pointer!Pointers, to # from, h.pData[to] = Null,
           NEW E, Outside(h, E, h.pData[from], to)
    PROVE  NothingLost([h EXCEPT !.pData[to] = h.pData[from], !.pData[from] = Null])
<1> DEFINE g == [h EXCEPT !.pData[to] = h.pData[from], !.pData[from] = Null]
           x == h.pData[from]
<1>1. h \in [pData: [Pointer!Pointers -> Objects \cup {Null}],
             live: SUBSET Objects, raw: SUBSET Objects, spoilt: BOOLEAN]
  BY DEF OwnedOnce
<1>2. /\ g.live = h.live /\ g.raw = h.raw
      /\ \A p \in Pointer!Pointers :
           g.pData[p] = IF p = from THEN Null ELSE IF p = to THEN x ELSE h.pData[p]
  BY <1>1
<1> HIDE DEF g
<1>3. ASSUME NEW C \in SUBSET Objects, Orphans(g, C) PROVE C = {}
  <2>1. /\ C \subseteq h.live /\ C \cap h.raw \subseteq {x}
        /\ x \in C => to \in C
    BY <1>2, <1>3 DEF Orphans
  <2>2. ASSUME NEW q \in Pointer!Pointers, h.pData[q] \in C PROVE h.pData[q] = x \/ q \in C
    <3>1. q # to
      BY <2>2, PointersAreApart
    <3> QED BY <1>2, <1>3, <2>2, <3>1 DEF Orphans
  <2>3. x \notin C => Orphans(h, C)
    BY <1>2, <1>3, <2>2 DEF Orphans
  <2> HIDE DEF x
  <2>4. Outside(h, E, x, to)
    BY DEF x
  <2> QED BY <2>1, <2>2, <2>3, <2>4, OneIsRehung
<1> QED BY <1>3 DEF NothingLost, g

LEMMA OutsideOfDeleted ==
    ASSUME OwnedOnce(heap), NEW x \in heap.live \cup {Null}, NEW p \in Pointer!Pointers,
           p \notin Pointer!Deletes(x)
    PROVE  Outside(heap, Pointer!Deletes(x), x, p)
<1>1. heap.live \subseteq Objects
  BY DEF OwnedOnce
<1> QED BY <1>1, WhatIsDeleted DEF Outside

LEMMA OutsideOfFreed ==
    ASSUME OwnedOnce(heap), NEW dead \in SUBSET heap.live, NEW E, NEW x, NEW p,
           Outside(heap, E, x, p)
    PROVE  Outside(Freed(heap, dead), E, x, p)
<1>1. heap \in [pData: [Pointer!Pointers -> Objects \cup {Null}],
                live: SUBSET Objects, raw: SUBSET Objects, spoilt: BOOLEAN]
  BY DEF OwnedOnce
<1>2. \A q \in Pointer!Pointers : Freed(heap, dead).pData[q] \in {heap.pData[q], Null}
  BY <1>1 DEF Freed
<1> QED BY <1>2 DEF Outside, Pointer!Pointers

\* Where nothing is lost no object owns itself: with the objects on the way back to it
\* it would be held by nobody else.
LEMMA NoRings ==
    ASSUME OwnedOnce(heap), NothingLost(heap), NEW q \in Pointer!Pointers,
           q \in Pointer!Deletes(heap.pData[q])
    PROVE  FALSE
<1> DEFINE y == heap.pData[q]
           B == {e \in Pointer!Deletes(y) : q \in Pointer!Deletes(e)}
<1>1. y \in heap.live \ heap.raw /\ y # Null
  <2>1. y \in (heap.live \ heap.raw) \cup {Null}
    BY DEF OwnedOnce
  <2>2. Pointer!Deletes(Null) = {}
    BY DEF Pointer!Deletes, Pointer!Owned
  <2>3. Null \notin Objects /\ heap.live \subseteq Objects
    BY PointersAreApart DEF OwnedOnce
  <2> QED BY <2>1, <2>2, <2>3
<1>2. /\ Pointer!Deletes(y) \subseteq heap.live
      /\ \A o \in Pointer!Deletes(y) : heap.pData[o] \in Pointer!Deletes(y) \cup {Null}
      /\ \A o \in Pointer!Deletes(y), r \in Pointer!Pointers :
           o # y /\ heap.pData[r] = o => r \in Pointer!Deletes(y)
  <2>1. y \in heap.live \cup {Null}
    BY <1>1
  <2> HIDE DEF y
  <2> QED BY <2>1, WhatIsDeleted
<1>3. heap.live \subseteq Objects /\ q \in heap.live
  BY <1>2 DEF OwnedOnce
<1>4. ASSUME NEW r \in Pointer!Pointers, heap.pData[r] \in B PROVE r \in B
  <2>1. heap.pData[r] # Null
    BY <1>2, <1>3, <1>4, PointersAreApart
  <2>2. r \in Pointer!Deletes(y)
    <3>1. CASE heap.pData[r] = y
      BY <2>1, <3>1 DEF OwnedOnce
    <3>2. CASE heap.pData[r] # y
      BY <1>2, <1>4, <3>2
    <3> QED BY <3>1, <3>2
  <2>3. ASSUME NEW o \in Pointer!Deletes(heap.pData[r]) PROVE o \in Pointer!Deletes(r)
    <3>1. r # Null
      BY <2>2, <1>2, <1>3, PointersAreApart
    <3>2. ASSUME NEW S \in SUBSET Objects, {r} \ {Null} \subseteq S, Pointer!Owned(S) \subseteq S
          PROVE  o \in S
      <4>1. r \in S
        BY <3>1, <3>2
      <4>2. heap.pData[r] \in S
        BY <4>1, <2>1, <3>2 DEF Pointer!Owned
      <4> QED BY <4>2, <3>2, <2>3 DEF Pointer!Deletes
    <3>3. o \in Objects
      BY <2>3 DEF Pointer!Deletes
    <3> QED BY <3>2, <3>3 DEF Pointer!Deletes
  <2> QED BY <1>4, <2>2, <2>3
<1>5. B \cap heap.raw = {}
  <2> SUFFICES ASSUME NEW e \in Pointer!Deletes(y), e \in heap.raw PROVE FALSE
    OBVIOUS
  <2> DEFINE S == Pointer!Deletes(y) \ {e}
  <2>1. S \in SUBSET Objects /\ y \in S
    <3>1. y \in Pointer!Deletes(y)
      <4> HIDE DEF y
      <4> QED BY <1>1, WhatIsDeleted
    <3> QED BY <1>1, <1>2, <1>3, <3>1
  <2>2. ASSUME NEW s \in S, heap.pData[s] # Null PROVE heap.pData[s] \in S
    <3>1. s \in Pointer!Pointers
      BY <2>1 DEF Pointer!Pointers
    <3>2. heap.pData[s] # e
      BY <2>2, <3>1 DEF OwnedOnce
    <3> QED BY <1>2, <2>2, <3>2
  <2>3. {y} \ {Null} \subseteq S /\ Pointer!Owned(S) \subseteq S
    BY <2>1, <2>2 DEF Pointer!Owned
  <2>4. \A T \in SUBSET Objects : {y} \ {Null} \subseteq T /\ Pointer!Owned(T) \subseteq T => e \in T
    BY DEF Pointer!Deletes
  <2>5. e \in S
    <3> HIDE DEF S
    <3> QED BY <2>1, <2>3, <2>4
  <2> QED BY <2>5
<1>6. Orphans(heap, B)
  BY <1>2, <1>4, <1>5 DEF Orphans
<1>7. q \in B
  BY <1>3, WhatIsDeleted, PointersAreApart
<1>8. B \in SUBSET Objects
  BY <1>2, <1>3
<1> HIDE DEF B
<1> QED BY <1>6, <1>7, <1>8 DEF NothingLost

LEMMA SwappedLosesNothing ==
    ASSUME OwnedOnce(heap), NothingLost(heap), NEW p \in Pointer!Pointers,
           NEW q \in Pointer!Pointers, p # q,
           p \notin Pointer!Deletes(heap.pData[q]), q \notin Pointer!Deletes(heap.pData[p])
    PROVE  NothingLost([heap EXCEPT !.pData[p] = heap.pData[q], !.pData[q] = heap.pData[p]])
<1> DEFINE g == [heap EXCEPT !.pData[p] = heap.pData[q], !.pData[q] = heap.pData[p]]
           x == heap.pData[p]
           y == heap.pData[q]
           E == Pointer!Deletes(x) \cup Pointer!Deletes(y)
<1>1. heap \in [pData: [Pointer!Pointers -> Objects \cup {Null}],
                live: SUBSET Objects, raw: SUBSET Objects, spoilt: BOOLEAN]
  BY DEF OwnedOnce
<1>2. /\ g.live = heap.live /\ g.raw = heap.raw
      /\ \A r \in Pointer!Pointers :
           g.pData[r] = heap.pData[IF r = p THEN q ELSE IF r = q THEN p ELSE r]
  BY <1>1
<1> HIDE DEF g
<1>3. x \in heap.live \cup {Null} /\ y \in heap.live \cup {Null}
  BY DEF OwnedOnce
<1>4. /\ \A o \in E : heap.pData[o] \in E \cup {Null}
      /\ x \in E \cup {Null} /\ y \in E \cup {Null}
  <2> HIDE DEF x, y
  <2> QED BY <1>3, WhatIsDeleted
<1>5. p \notin E /\ q \notin E
  BY NoRings
<1> HIDE DEF E
<1>6. ASSUME NEW C \in SUBSET Objects, Orphans(g, C) PROVE C = {}
  <2>1. /\ C \subseteq heap.live /\ C \cap heap.raw = {} /\ Null \notin C
        /\ x \in C => q \in C
        /\ y \in C => p \in C
    BY <1>2, <1>6, PointersAreApart DEF Orphans
  <2>2. \A r \in Pointer!Pointers \ {p, q} : heap.pData[r] \in C => r \in C
    BY <1>2, <1>6 DEF Orphans
  <2>3. ASSUME NEW r \in Pointer!Pointers, heap.pData[r] \in C \ E PROVE r \in C \ E
    <3>1. r # p /\ r # q
      BY <1>4, <2>1, <2>3
    <3>2. r \notin E
      BY <1>4, <2>1, <2>3
    <3> QED BY <2>2, <2>3, <3>1, <3>2
  <2>4. Orphans(heap, C \ E)
    BY <2>1, <2>3 DEF Orphans
  <2>5. C \ E = {}
    BY <2>4 DEF NothingLost
  <2>6. x \notin C /\ y \notin C
    BY <1>5, <2>1, <2>5
  <2>7. Orphans(heap, C)
    BY <2>1, <2>2, <2>6 DEF Orphans
  <2> QED BY <2>7 DEF NothingLost
<1> QED BY <1>6 DEF NothingLost, g

LEMMA MakeLosesNothing ==
    ASSUME OwnedOnce(heap), NothingLost(heap), NEW to \in Roots \cup heap.live,
           NEW o \in Objects, Pointer!Make(to, o)
    PROVE  NothingLost(heap')
<1>1. heap \in [pData: [Pointer!Pointers -> Objects \cup {Null}],
                live: SUBSET Objects, raw: SUBSET Objects, spoilt: BOOLEAN]
  BY DEF OwnedOnce
<1>2. /\ to \in Pointer!Pointers /\ heap.pData[to] = Null /\ o \notin heap.live /\ to # o
      /\ o \in Pointer!Pointers /\ heap.pData[o] = Null
  BY <1>1, PointersAreApart DEF Pointer!Pointers, Pointer!Make, OwnedOnce
<1>3. /\ heap'.live = heap.live \cup {o} /\ heap'.raw = heap.raw
      /\ heap'.pData = [heap.pData EXCEPT ![to] = o]
  BY <1>1 DEF Pointer!Make
<1>4. ASSUME NEW C \in SUBSET Objects, Orphans(heap', C) PROVE C = {}
  <2>1. ASSUME NEW q \in Pointer!Pointers, heap.pData[q] \in C \ {o} PROVE q \in C \ {o}
    <3>1. q # to /\ q # o
      BY <1>2, <2>1, PointersAreApart
    <3> QED BY <1>1, <1>3, <1>4, <2>1, <3>1 DEF Orphans
  <2>2. Orphans(heap, C \ {o})
    BY <1>3, <1>4, <2>1 DEF Orphans
  <2>3. C \subseteq {o}
    BY <2>2 DEF NothingLost
  <2>4. o \in C => to \in C
    BY <1>1, <1>2, <1>3, <1>4 DEF Orphans
  <2> QED BY <1>2, <2>3, <2>4
<1> QED BY <1>4 DEF NothingLost

LEMMA ReleaseLosesNothing ==
    ASSUME OwnedOnce(heap), NothingLost(heap), NEW p \in Pointer!Pointers, Pointer!Release(p)
    PROVE  NothingLost(heap')
<1>1. heap \in [pData: [Pointer!Pointers -> Objects \cup {Null}],
                live: SUBSET Objects, raw: SUBSET Objects, spoilt: BOOLEAN]
  BY DEF OwnedOnce
<1>2. /\ heap'.live = heap.live /\ heap'.raw = heap.raw \cup {heap.pData[p]}
      /\ heap'.pData = [heap.pData EXCEPT ![p] = Null]
  BY <1>1 DEF Pointer!Release
<1>3. ASSUME NEW C \in SUBSET Objects, Orphans(heap', C) PROVE C = {}
  <2>1. ASSUME NEW q \in Pointer!Pointers, heap.pData[q] \in C PROVE q \in C
    <3>1. q # p
      BY <1>2, <1>3, <2>1 DEF Orphans
    <3> QED BY <1>1, <1>2, <1>3, <2>1, <3>1 DEF Orphans
  <2>2. Orphans(heap, C)
    BY <1>2, <1>3, <2>1 DEF Orphans
  <2> QED BY <2>2 DEF NothingLost
<1> QED BY <1>3 DEF NothingLost

LEMMA SpoiltStays == OwnedOnce(heap) /\ Pointer!Spoilt => PointersInv'
<1> SUFFICES ASSUME OwnedOnce(heap), Pointer!Spoilt PROVE PointersInv'
  OBVIOUS
<1>1. heap' = [heap EXCEPT !.spoilt = TRUE]
  BY DEF Pointer!Spoilt
<1>2. heap \in [pData: [Pointer!Pointers -> Objects \cup {Null}],
                live: SUBSET Objects, raw: SUBSET Objects, spoilt: BOOLEAN]
  BY DEF OwnedOnce
<1>3. heap'.spoilt
  BY <1>1, <1>2
<1> QED BY <1>3 DEF PointersInv

\* Nobody holds what a caller deletes, so nothing is left that refers to it.
LEMMA DeleteKeeps ==
    ASSUME OwnedOnce(heap), ringed \/ NothingLost(heap), NEW o \in heap.raw, Pointer!Delete(o)
    PROVE  PointersInv'
<1> DEFINE D == Pointer!Deletes(o)
<1>1. heap \in [pData: [Pointer!Pointers -> Objects \cup {Null}],
                live: SUBSET Objects, raw: SUBSET Objects, spoilt: BOOLEAN]
  BY DEF OwnedOnce
<1>2. CASE Pointer!Spoilt
  BY <1>2, SpoiltStays
<1>3. CASE heap' = Pointer!Without(heap, D) /\ UNCHANGED ringed
  <2>1. o \in heap.live /\ o # Null
    BY <1>1, PointersAreApart DEF OwnedOnce
  <2>2. /\ D \subseteq heap.live
        /\ \A x \in D : heap.pData[x] \in D \cup {Null}
        /\ \A x \in D, q \in Pointer!Pointers : x # o /\ heap.pData[q] = x => q \in D
    BY <2>1, WhatIsDeleted
  <2>3. OwnedOnce(Freed(heap, D)) /\ (NothingLost(heap) => NothingLost(Freed(heap, D)))
    BY <2>2, FreedIsOwnedOnce, FreedLosesNothing
  <2> HIDE DEF D
  <2>4. \A q \in Pointer!Pointers : heap.pData[q] \in D => q \in D
    BY <2>1, <2>2 DEF OwnedOnce
  <2>5. \A q \in Pointer!Pointers :
          (IF q \in D THEN Null ELSE heap.pData[q])
            = (IF q \in D \/ heap.pData[q] \in D THEN Null ELSE heap.pData[q])
    BY <2>4
  <2>6. Pointer!Without(heap, D) = Freed(heap, D)
    BY <1>1, <2>5 DEF Pointer!Without, Freed
  <2> QED BY <1>3, <2>3, <2>6 DEF PointersInv
<1> QED BY <1>2, <1>3 DEF Pointer!Delete

LEMMA ResetKeeps ==
    ASSUME OwnedOnce(heap), ringed \/ NothingLost(heap), NEW p \in Roots \cup heap.live,
           NEW o \in heap.raw \cup {Null}, Pointer!Reset(p, o)
    PROVE  PointersInv'
<1> DEFINE D == Pointer!Deletes(heap.pData[p])
           Left == Pointer!Cleared(p)
           Free == Freed(heap, D)
<1>1. heap \in [pData: [Pointer!Pointers -> Objects \cup {Null}],
                live: SUBSET Objects, raw: SUBSET Objects, spoilt: BOOLEAN]
  BY DEF OwnedOnce
<1>2. CASE Pointer!Spoilt
  BY <1>2, SpoiltStays
<1>3. CASE /\ ~Pointer!Inside(p, {p}) /\ (o # Null => o \notin D)
           /\ heap' = [Left EXCEPT !.pData[p] = o, !.raw = @ \ {o}]
           /\ Pointer!Takes(p, o)
  <2>1. p \in Pointer!Pointers /\ p \notin D
    BY <1>1, <1>3 DEF Pointer!Inside, Pointer!Pointers
  <2>2. [Left EXCEPT !.pData[p] = Null] = Free /\ OwnedOnce(Free)
    BY <2>1, ClearedIsOwnedOnce
  <2>9. ringed' \/ /\ NothingLost(heap) /\ NothingLost(Free)
                   /\ Outside(Free, Pointer!Deletes(o), o, p)
    <3> SUFFICES ASSUME ~ringed' PROVE NothingLost(Free) /\ Outside(Free, Pointer!Deletes(o), o, p)
      BY <1>3 DEF Pointer!Takes
    <3>1. NothingLost(heap) /\ p \notin Pointer!Deletes(o)
      BY <1>3 DEF Pointer!Takes
    <3>2. o \in heap.live \cup {Null} /\ heap.pData[p] \in heap.live \cup {Null}
      BY <2>1 DEF OwnedOnce
    <3>3. D \in SUBSET heap.live /\ \A x \in D : heap.pData[x] \in D \cup {Null}
      BY <3>2, WhatIsDeleted
    <3>4. Outside(heap, Pointer!Deletes(o), o, p)
      BY <2>1, <3>1, <3>2, OutsideOfDeleted
    <3> QED BY <3>1, <3>3, <3>4, FreedLosesNothing, OutsideOfFreed
  <2>3. /\ Free.live = heap.live \ D /\ Free.raw = heap.raw \ D
        /\ Free.pData \in [Pointer!Pointers -> Objects \cup {Null}]
    BY <1>1, <2>2 DEF Freed, OwnedOnce
  <2>4. /\ Left \in [pData: [Pointer!Pointers -> Objects \cup {Null}],
                     live: SUBSET Objects, raw: SUBSET Objects, spoilt: BOOLEAN]
    BY <1>1 DEF Pointer!Cleared, Pointer!Without
  <2> HIDE DEF Free, Left
  <2>5. Free.pData[p] = Null
    BY <2>1, <2>2, <2>4
  <2>6. [Left EXCEPT !.pData[p] = o, !.raw = @ \ {o}]
          = [Free EXCEPT !.pData[p] = o, !.raw = @ \ {o}]
    BY <2>1, <2>2, <2>4
  <2>7. p \in Roots \cup Free.live /\ o \in Free.raw \cup {Null}
    BY <1>3, <2>1, <2>3
  <2>8. OwnedOnce([Free EXCEPT !.pData[p] = o, !.raw = @ \ {o}])
    BY <2>2, <2>5, <2>7, TakenIsOwnedOnce
  <2>10. ringed' \/ NothingLost([Free EXCEPT !.pData[p] = o, !.raw = @ \ {o}])
    BY <2>1, <2>2, <2>5, <2>7, <2>9, TakenLosesNothing
  <2> QED BY <1>3, <2>6, <2>8, <2>10 DEF PointersInv, Left
<1> QED BY <1>2, <1>3 DEF Pointer!Reset

\* Both move assignments, for different Pointers
LEMMA MoveAssignKeeps ==
    ASSUME OwnedOnce(heap), ringed \/ NothingLost(heap), NEW to \in Roots \cup heap.live,
           NEW from \in Roots \cup heap.live, to # from,
           Pointer!MoveAssign(to, from) \/ Pointer!ArrayMoveAssign(to, from)
    PROVE  PointersInv'
<1> DEFINE D == Pointer!Deletes(heap.pData[to])
           Left == Pointer!Cleared(to)
           Free == Freed(heap, D)
<1>1. heap \in [pData: [Pointer!Pointers -> Objects \cup {Null}],
                live: SUBSET Objects, raw: SUBSET Objects, spoilt: BOOLEAN]
  BY DEF OwnedOnce
<1>2. CASE Pointer!Spoilt
  BY <1>2, SpoiltStays
<1>3. CASE /\ ~Pointer!Inside(to, {to, from})
           /\ heap' = [Left EXCEPT !.pData[to] = heap.pData[from], !.pData[from] = Null]
           /\ Pointer!Takes(to, heap.pData[from])
  <2>1. /\ to \in Pointer!Pointers /\ from \in Pointer!Pointers
        /\ to \notin D /\ from \notin D
    BY <1>1, <1>3 DEF Pointer!Inside, Pointer!Pointers
  <2>2. [Left EXCEPT !.pData[to] = Null] = Free /\ OwnedOnce(Free)
    BY <2>1, ClearedIsOwnedOnce
  <2>9. ringed' \/ /\ NothingLost(Free)
                   /\ Outside(Free, Pointer!Deletes(heap.pData[from]), heap.pData[from], to)
    <3> DEFINE x == heap.pData[from]
    <3> SUFFICES ASSUME ~ringed' PROVE NothingLost(Free) /\ Outside(Free, Pointer!Deletes(x), x, to)
      OBVIOUS
    <3>1. NothingLost(heap) /\ to \notin Pointer!Deletes(x)
      BY <1>3 DEF Pointer!Takes
    <3>2. x \in heap.live \cup {Null} /\ heap.pData[to] \in heap.live \cup {Null}
      BY <2>1 DEF OwnedOnce
    <3>3. D \in SUBSET heap.live /\ \A o \in D : heap.pData[o] \in D \cup {Null}
      BY <3>2, WhatIsDeleted
    <3> HIDE DEF x
    <3>4. Outside(heap, Pointer!Deletes(x), x, to)
      BY <2>1, <3>1, <3>2, OutsideOfDeleted
    <3> QED BY <3>1, <3>3, <3>4, FreedLosesNothing, OutsideOfFreed
  <2>3. /\ Free.live = heap.live \ D
        /\ Free.pData \in [Pointer!Pointers -> Objects \cup {Null}]
    BY <1>1, <2>2 DEF Freed, OwnedOnce
  <2>4. /\ Left \in [pData: [Pointer!Pointers -> Objects \cup {Null}],
                     live: SUBSET Objects, raw: SUBSET Objects, spoilt: BOOLEAN]
        /\ Left.pData[from] = heap.pData[from]
    BY <1>1, <2>1 DEF Pointer!Cleared, Pointer!Without
  <2> HIDE DEF Free, Left
  <2>5. Free.pData[to] = Null /\ Free.pData[from] = heap.pData[from]
    BY <2>1, <2>2, <2>4
  <2>6. [Left EXCEPT !.pData[to] = heap.pData[from], !.pData[from] = Null]
          = [Free EXCEPT !.pData[to] = Free.pData[from], !.pData[from] = Null]
    BY <2>1, <2>2, <2>4, <2>5
  <2>7. to \in Roots \cup Free.live
    BY <2>1, <2>3
  <2>8. OwnedOnce([Free EXCEPT !.pData[to] = Free.pData[from], !.pData[from] = Null])
    BY <2>1, <2>2, <2>5, <2>7, MovedIsOwnedOnce
  <2>10. ringed' \/ NothingLost([Free EXCEPT !.pData[to] = Free.pData[from], !.pData[from] = Null])
    BY <2>1, <2>2, <2>5, <2>9, MovedLosesNothing
  <2> QED BY <1>3, <2>6, <2>8, <2>10 DEF PointersInv, Left
<1> QED BY <1>2, <1>3 DEF Pointer!MoveAssign, Pointer!ArrayMoveAssign

LEMMA PointersStep == PointersInv /\ Pointer!Next => PointersInv'
<1> SUFFICES ASSUME OwnedOnce(heap), ringed \/ NothingLost(heap), Pointer!Next
             PROVE  PointersInv'
  BY DEF PointersInv, Pointer!Next
<1>1. \A p \in Pointer!Pointers : Pointer!Exists(p) => p \in Roots \cup heap.live
  BY DEF Pointer!Exists
<1>2. ASSUME NEW p \in Roots \cup heap.live, NEW o \in Objects, Pointer!Make(p, o)
      PROVE  PointersInv'
  BY <1>2, MakeKeeps, MakeLosesNothing DEF PointersInv, Pointer!Make
<1>3. ASSUME NEW p \in Roots \cup heap.live, NEW o \in heap.raw \cup {Null}, Pointer!Reset(p, o)
      PROVE  PointersInv'
  BY <1>3, ResetKeeps
<1>4. ASSUME NEW p \in Pointer!Pointers, Pointer!Release(p)
      PROVE  PointersInv'
  BY <1>4, ReleaseKeeps, ReleaseLosesNothing DEF PointersInv, Pointer!Release
<1>5. ASSUME NEW p \in Roots \cup heap.live, NEW q \in Roots \cup heap.live, p # q,
             Pointer!MoveAssign(p, q) \/ Pointer!ArrayMoveAssign(p, q)
      PROVE  PointersInv'
  BY <1>5, MoveAssignKeeps
<1>6. ASSUME NEW p \in Roots \cup heap.live, NEW q \in Roots \cup heap.live, p # q,
             q \in Pointer!Pointers, Pointer!MoveConstruct(p, q)
      PROVE  PointersInv'
  <2> DEFINE x == heap.pData[q]
  <2>1. OwnedOnce(heap')
    BY <1>6, MovedIsOwnedOnce DEF Pointer!MoveConstruct
  <2>2. ringed' \/ NothingLost(heap')
    <3> SUFFICES ASSUME ~ringed' PROVE NothingLost(heap')
      OBVIOUS
    <3>1. /\ NothingLost(heap) /\ p \notin Pointer!Deletes(x)
          /\ heap' = [heap EXCEPT !.pData[p] = x, !.pData[q] = Null]
      BY <1>6 DEF Pointer!MoveConstruct, Pointer!Takes
    <3>2. x \in heap.live \cup {Null} /\ p \in Pointer!Pointers
      BY <1>6 DEF OwnedOnce, Pointer!Pointers
    <3>3. Outside(heap, Pointer!Deletes(x), x, p)
      <4> HIDE DEF x
      <4> QED BY <3>1, <3>2, OutsideOfDeleted
    <3>4. heap.pData[p] = Null
      BY <1>6 DEF Pointer!MoveConstruct
    <3>5. NothingLost([heap EXCEPT !.pData[p] = heap.pData[q], !.pData[q] = Null])
      BY <1>6, <3>1, <3>2, <3>3, <3>4, MovedLosesNothing
    <3> QED BY <3>1, <3>5
  <2> QED BY <2>1, <2>2 DEF PointersInv
<1>7. ASSUME NEW p \in Roots \cup heap.live, NEW q \in Roots \cup heap.live, p # q,
             Pointer!Swap(p, q)
      PROVE  PointersInv'
  <2>1. OwnedOnce(heap')
    BY <1>7, SwappedIsOwnedOnce DEF Pointer!Swap
  <2>2. p \in Pointer!Pointers /\ q \in Pointer!Pointers
    BY <1>7 DEF OwnedOnce, Pointer!Pointers
  <2>3. ringed' \/ NothingLost(heap')
    BY <1>7, <2>2, SwappedLosesNothing DEF Pointer!Swap
  <2> QED BY <2>1, <2>3 DEF PointersInv
<1>8. ASSUME NEW o \in heap.raw, Pointer!Delete(o) PROVE PointersInv'
  BY <1>8, DeleteKeeps
<1> QED BY <1>1, <1>2, <1>3, <1>4, <1>5, <1>6, <1>7, <1>8 DEF Pointer!Next

LEMMA InitPointers == Pointer!Init => PointersInv
BY DEF Pointer!Init, PointersInv, OwnedOnce, NothingLost, Orphans, Pointer!Pointers

(* Every object behind a Pointer has one owner, whatever Pointers objects  *)
(* hold themselves: ~Pointer, reset, release, swap and the moves of        *)
(* Pointer.h, with PointerDeleter, do not delete an object twice, unless a *)
(* Pointer is set from inside of what it owns, and they lose no object as  *)
(* long as no Pointer is given what it is itself a part of.                *)
THEOREM OneOwner == LibrarySpec => []ObjectsAreOwnedOnce
<1>1. LibraryInit => PointersInv
  BY InitPointers DEF LibraryInit
<1>2. PointersInv /\ [LibraryNext]_libraryVars => PointersInv'
  <2>1. [LibraryNext]_libraryVars => [Pointer!Next]_<<heap, ringed>>
    BY DEF LibraryNext, Others, libraryVars
  <2>2. PointersInv /\ UNCHANGED <<heap, ringed>> => PointersInv'
    BY DEF PointersInv, OwnedOnce, NothingLost, Orphans
  <2> QED BY <2>1, <2>2, PointersStep
<1>3. PointersInv => ObjectsAreOwnedOnce
  <2> SUFFICES ASSUME OwnedOnce(heap), ringed \/ NothingLost(heap), ~heap.spoilt
               PROVE  ObjectsAreOwnedOnce
    BY DEF PointersInv, ObjectsAreOwnedOnce, Pointer!ObjectsAreOwnedOnce
  <2> DEFINE existing == Roots \cup heap.live
  <2>1. heap \in [pData: [Pointer!Pointers -> Objects \cup {Null}],
                  live: SUBSET Objects, raw: SUBSET Objects, spoilt: BOOLEAN]
    BY DEF OwnedOnce
  <2>2. existing \subseteq Pointer!Pointers
    BY <2>1 DEF Pointer!Pointers
  <2>3. \A p \in existing : heap.pData[p] \in heap.live \cup {Null}
    BY <2>2 DEF OwnedOnce
  <2>4. ASSUME NEW o \in heap.live
        PROVE  Pointer!Cardinality({p \in existing : heap.pData[p] = o})
                 = IF o \in heap.raw THEN 0 ELSE 1
    <3> DEFINE Holders == {p \in existing : heap.pData[p] = o}
    <3>1. Pointer!Cardinality(Holders) = Cardinality(Holders)
      BY DEF Pointer!Cardinality, Cardinality
    <3>2. o # Null
      BY <2>1, PointersAreApart
    <3>3. CASE o \in heap.raw
      <4>1. Holders = {}
        BY <2>2, <3>2, <3>3 DEF OwnedOnce
      <4> QED BY <3>1, <3>3, <4>1, FS_EmptySet
    <3>4. CASE o \notin heap.raw
      <4>1. PICK p \in Pointer!Pointers : heap.pData[p] = o
        BY <3>4 DEF OwnedOnce
      <4>2. p \in existing
        BY <3>2, <4>1 DEF OwnedOnce, Pointer!Pointers
      <4>3. Holders = {p}
        BY <2>2, <3>2, <4>1, <4>2 DEF OwnedOnce
      <4> QED BY <3>1, <3>4, <4>3, FS_Singleton
    <3> QED BY <3>3, <3>4
  <2>5. ASSUME NothingLost(heap), NEW o \in heap.live, NEW S \in SUBSET Objects,
               heap.raw \subseteq S, Pointer!Owned(Roots \cup S) \subseteq S
        PROVE  o \in S
    <3> DEFINE C == heap.live \ S
    <3>1. ASSUME NEW p \in Pointer!Pointers, heap.pData[p] \in C PROVE p \in C
      <4>1. heap.pData[p] # Null
        BY <3>1, <2>1, PointersAreApart
      <4>2. p \notin Roots \cup S
        BY <3>1, <4>1, <2>5 DEF Pointer!Owned
      <4> QED BY <3>1, <4>1, <4>2 DEF OwnedOnce, Pointer!Pointers
    <3>2. Orphans(heap, C) /\ C \in SUBSET Objects
      BY <2>1, <2>5, <3>1 DEF Orphans
    <3> HIDE DEF C
    <3>3. C = {}
      BY <2>5, <3>2 DEF NothingLost
    <3> QED BY <3>3 DEF C
  <2>6. ringed \/ heap.live \subseteq Pointer!Held
    BY <2>1, <2>5 DEF Pointer!Held
  <2> QED BY <2>3, <2>4, <2>6 DEF ObjectsAreOwnedOnce, Pointer!ObjectsAreOwnedOnce
<1> QED BY <1>1, <1>2, <1>3, PTL DEF LibrarySpec
-----------------------------------------------------------------------------
(* The part "ring".  Slot and Count are the source's index arithmetic      *)
(* without the two reductions: what they are proved equal to is where the  *)
(* modulus matters.                                                        *)
Slot(b, k) == IF b.mHead + k < b.mCapacity THEN b.mHead + k ELSE b.mHead + k - b.mCapacity

Count(b) == IF b.mHead <= b.mTail THEN b.mTail - b.mHead ELSE b.mTail + b.mCapacity - b.mHead

IsRing(b) ==
    /\ b = [mHead |-> b.mHead, mTail |-> b.mTail, mCapacity |-> b.mCapacity, mData |-> b.mData]
    /\ b.mCapacity \in 1 .. MaxSlots
    /\ b.mHead \in 0 .. b.mCapacity - 1
    /\ b.mTail \in 0 .. b.mCapacity - 1
    /\ b.mCapacity = 1 => b.mData = Ring!NoData
    /\ b.mCapacity # 1 => b.mData \in [0 .. b.mCapacity - 1 -> Values \cup {Blank}]

IsQueue(b, q) ==
    /\ IsRing(b)
    /\ q \in Seq(Values)
    /\ Len(q) = Count(b)
    /\ \A i \in 1 .. Len(q) : b.mData[Slot(b, i - 1)] = q[i]

RingInv == hazard \/ (IsQueue(buf, queue) /\ IsQueue(other, otherQueue))

LEMMA ModOnce ==
    ASSUME NEW c \in Nat \ {0}, NEW a \in 0 .. 2 * c - 1
    PROVE  a % c = IF a < c THEN a ELSE a - c
<1>1. CASE a < c
  <2>1. (c * 0 + a) % c = a
    BY <1>1, ModUnique
  <2> QED BY <1>1, <2>1
<1>2. CASE a >= c
  <2>1. (c * 1 + (a - c)) % c = a - c
    BY <1>2, ModUnique
  <2>2. c * 1 + (a - c) = a
    OBVIOUS
  <2> QED BY <1>2, <2>1, <2>2
<1> QED BY <1>1, <1>2

LEMMA SlotIsIndex ==
    ASSUME NEW b, IsRing(b), NEW k \in 0 .. b.mCapacity - 1
    PROVE  (b.mHead + k) % b.mCapacity = Slot(b, k) /\ Slot(b, k) \in 0 .. b.mCapacity - 1
<1>1. b.mCapacity \in Nat \ {0} /\ b.mHead \in 0 .. b.mCapacity - 1
  BY SlotsFitTheWord DEF IsRing
<1> DEFINE c == b.mCapacity
           a == b.mHead + k
<1>2. c \in Nat \ {0} /\ a \in 0 .. 2 * c - 1
  BY <1>1
<1> HIDE DEF c, a
<1>3. a % c = IF a < c THEN a ELSE a - c
  BY <1>2, ModOnce
<1> QED BY <1>1, <1>2, <1>3 DEF Slot, c, a

LEMMA FollowingIndex ==
    ASSUME NEW b, IsRing(b), NEW i \in 0 .. b.mCapacity - 1
    PROVE  Ring!Following(b, i) = IF i + 1 < b.mCapacity THEN i + 1 ELSE 0
<1> DEFINE c == b.mCapacity
           a == i + 1
<1>1. c \in Nat \ {0} /\ a \in 0 .. 2 * c - 1 /\ i \in 0 .. c - 1
  BY SlotsFitTheWord DEF IsRing
<1>2. Ring!Following(b, i) = a % c
  BY DEF Ring!Following
<1> HIDE DEF c, a
<1>3. a % c = IF a < c THEN a ELSE a - c
  BY <1>1, ModOnce
<1> QED BY <1>1, <1>2, <1>3 DEF c, a

LEMMA OccupiedIsCount ==
    ASSUME NEW b, IsRing(b)
    PROVE  Ring!Occupied(b) = Count(b) /\ Count(b) \in 0 .. b.mCapacity - 1
<1>1. /\ b.mCapacity \in Nat \ {0}
      /\ b.mHead \in 0 .. b.mCapacity - 1 /\ b.mTail \in 0 .. b.mCapacity - 1
  BY SlotsFitTheWord DEF IsRing
<1>2. b.mTail + b.mCapacity - b.mHead \in 0 .. 2 * b.mCapacity - 1
  BY <1>1
<1> DEFINE a == b.mTail + b.mCapacity - b.mHead
<1>3. a % b.mCapacity = IF a < b.mCapacity THEN a ELSE a - b.mCapacity
  BY <1>1, <1>2, ModOnce
<1> QED BY <1>1, <1>2, <1>3 DEF Count, Ring!Occupied

\* A difference of two indices, as size() and back() reduce it: first to a word, then to
\* the number of slots, which has to divide the word where the difference is negative.
LEMMA DifferenceOfIndices ==
    ASSUME NEW c \in Nat \ {0}, c <= WordModulus, NEW d \in -c .. c - 1,
           d < 0 => WordModulus % c = 0
    PROVE  (d % WordModulus) % c = IF d < 0 THEN d + c ELSE d
<1>1. WordModulus \in Nat \ {0}
  BY SlotsFitTheWord
<1>2. CASE d >= 0
  <2>1. d \in 0 .. 2 * WordModulus - 1 /\ d \in 0 .. 2 * c - 1
    BY <1>1, <1>2
  <2>2. d % WordModulus = IF d < WordModulus THEN d ELSE d - WordModulus
    BY <1>1, <2>1, ModOnce
  <2>3. d % c = IF d < c THEN d ELSE d - c
    BY <2>1, ModOnce
  <2> QED BY <1>1, <1>2, <2>2, <2>3
<1>3. CASE d < 0
  <2>1. WordModulus = c * (WordModulus \div c) /\ WordModulus \div c \in Int
    <3>1. WordModulus = c * (WordModulus \div c) + (WordModulus % c) /\ WordModulus \div c \in Int
      BY <1>1, DivMod
    <3>2. c * (WordModulus \div c) \in Int
      BY <3>1
    <3> QED BY <1>3, <3>1, <3>2
  <2>2. d % WordModulus = d + WordModulus
    <3> DEFINE q == -1
               r == d + WordModulus
    <3>1. q \in Int /\ r \in 0 .. WordModulus - 1 /\ WordModulus * q + r = d
      BY <1>1, <1>3
    <3> HIDE DEF q, r
    <3>2. (WordModulus * q + r) % WordModulus = r
      BY <1>1, <3>1, ModUnique
    <3> QED BY <3>1, <3>2 DEF r
  <2>3. (d + WordModulus) % c = d + c
    <3> DEFINE q == (WordModulus \div c) - 1
               r == d + c
    <3>1. q \in Int /\ r \in 0 .. c - 1
      BY <1>3, <2>1
    <3>2. c * q + r = d + c * (WordModulus \div c)
      BY <2>1
    <3>3. c * q + r = d + WordModulus
      BY <2>1, <3>2
    <3> HIDE DEF q, r
    <3>4. (c * q + r) % c = r
      BY <3>1, ModUnique
    <3> QED BY <3>3, <3>4 DEF r
  <2> QED BY <1>3, <2>2, <2>3
<1> QED BY <1>2, <1>3

LEMMA SizeIsCount ==
    ASSUME NEW b, IsRing(b), ~Ring!WrapAtRisk(b)
    PROVE  Ring!Size(b) = Count(b)
<1> DEFINE c == b.mCapacity
           d == b.mTail - b.mHead
<1>1. /\ c \in Nat \ {0} /\ c <= WordModulus
      /\ b.mHead \in 0 .. c - 1 /\ b.mTail \in 0 .. c - 1
  BY SlotsFitTheWord DEF IsRing
<1>2. d \in -c .. c - 1 /\ (d < 0 <=> b.mTail < b.mHead)
  BY <1>1
<1>3. d < 0 => WordModulus % c = 0
  BY <1>2 DEF Ring!WrapAtRisk
<1>4. Ring!Size(b) = (d % WordModulus) % c
  BY DEF Ring!Size
<1>5. Count(b) = IF d < 0 THEN d + c ELSE d
  BY <1>1 DEF Count
<1> HIDE DEF c, d
<1> QED BY <1>1, <1>2, <1>3, <1>4, <1>5, DifferenceOfIndices

LEMMA ContentsOfQueue ==
    ASSUME NEW b, NEW q, IsQueue(b, q)
    PROVE  Ring!Contents(b) = q
<1>1. IsRing(b) /\ q \in Seq(Values) /\ Len(q) = Count(b) /\ b.mHead \in Int
  BY SlotsFitTheWord DEF IsQueue, IsRing
<1>2. Ring!Occupied(b) = Len(q) /\ Len(q) \in 0 .. b.mCapacity - 1 /\ b.mCapacity \in Nat
  BY <1>1, SlotsFitTheWord, OccupiedIsCount DEF IsRing
<1>3. ASSUME NEW i \in 1 .. Len(q) PROVE b.mData[(b.mHead + i - 1) % b.mCapacity] = q[i]
  <2>1. i - 1 \in 0 .. b.mCapacity - 1 /\ b.mHead + (i - 1) = b.mHead + i - 1
    BY <1>1, <1>2
  <2>2. (b.mHead + (i - 1)) % b.mCapacity = Slot(b, i - 1)
    BY <1>1, <2>1, SlotIsIndex
  <2> QED BY <2>1, <2>2 DEF IsQueue
<1>4. q = [i \in 1 .. Len(q) |-> q[i]]
  BY <1>1
<1> QED BY <1>2, <1>3, <1>4 DEF Ring!Contents

LEMMA ClearedIsQueue == IsQueue(Ring!Cleared, <<>>)
BY SlotsFitTheWord DEF IsQueue, IsRing, Ring!Cleared, Count

LEMMA EmptyIsCountZero ==
    ASSUME NEW b, NEW q, IsQueue(b, q)
    PROVE  Ring!Empty(b) <=> q = <<>>
BY SlotsFitTheWord DEF Ring!Empty, IsQueue, IsRing, Count

LEMMA PushKeepsQueue ==
    ASSUME NEW b, NEW q, IsQueue(b, q), NEW v \in Values, Count(b) < b.mCapacity - 1
    PROVE  IsQueue(Ring!PushUnchecked(b, v), Append(q, v))
<1> DEFINE a == Ring!PushUnchecked(b, v)
           c == b.mCapacity
           h == b.mHead
           t == b.mTail
           d == b.mData
<1>1. /\ b = [mHead |-> h, mTail |-> t, mCapacity |-> c, mData |-> d]
      /\ c \in 1 .. MaxSlots /\ c \in Nat \ {0, 1} /\ h \in 0 .. c - 1 /\ t \in 0 .. c - 1
      /\ d \in [0 .. c - 1 -> Values \cup {Blank}]
      /\ Count(b) \in 0 .. c - 2 /\ Len(q) = Count(b) /\ q \in Seq(Values) /\ IsRing(b)
  <2>1. IsRing(b) /\ Count(b) \in 0 .. c - 1 /\ c \in Nat
    BY OccupiedIsCount, SlotsFitTheWord DEF IsQueue, IsRing
  <2> QED BY <2>1 DEF IsQueue, IsRing
<1>0. Count(b) = IF h <= t THEN t - h ELSE t + c - h
  BY DEF Count
<1>2. Ring!Following(b, t) = IF t + 1 < c THEN t + 1 ELSE 0
  BY <1>1, FollowingIndex
<1>5. a = [b EXCEPT !.mData[t] = v, !.mTail = IF t + 1 < c THEN t + 1 ELSE 0]
  BY <1>2 DEF Ring!PushUnchecked
<1> HIDE DEF a, h, t, c, d
<1>3. a = [mHead |-> h, mTail |-> (IF t + 1 < c THEN t + 1 ELSE 0), mCapacity |-> c,
           mData |-> [d EXCEPT ![t] = v]]
  BY <1>1, <1>5
<1>4. IsRing(a)
  BY <1>1, <1>3 DEF IsRing
<1>6. Count(a) = Count(b) + 1
  BY <1>1, <1>3, <1>0 DEF Count
<1>7. Append(q, v) \in Seq(Values) /\ Len(Append(q, v)) = Count(a)
  BY <1>1, <1>6
<1>8. ASSUME NEW i \in 1 .. Len(Append(q, v)) PROVE a.mData[Slot(a, i - 1)] = Append(q, v)[i]
  <2>1. Slot(a, i - 1) = IF h + (i - 1) < c THEN h + (i - 1) ELSE h + (i - 1) - c
    BY <1>3 DEF Slot
  <2>2. CASE i = Len(q) + 1
    <3>1. Slot(a, i - 1) = t
      <4>1. i - 1 = IF h <= t THEN t - h ELSE t + c - h
        BY <1>1, <1>0, <2>2
      <4>2. h \in 0 .. c - 1 /\ t \in 0 .. c - 1 /\ c \in Nat
        BY <1>1
      <4> DEFINE k == i - 1
      <4>3. /\ k = IF h <= t THEN t - h ELSE t + c - h
            /\ Slot(a, k) = IF h + k < c THEN h + k ELSE h + k - c
        BY <4>1, <2>1
      <4> HIDE DEF k
      <4>4. Slot(a, k) = t
        BY <4>2, <4>3
      <4> QED BY <4>4 DEF k
    <3> QED BY <1>1, <1>3, <2>2, <3>1
  <2>3. CASE i \in 1 .. Len(q)
    <3>1. Slot(a, i - 1) = Slot(b, i - 1) /\ Slot(b, i - 1) \in 0 .. c - 1
      BY <1>1, <2>1, <2>3 DEF Slot
    <3>2. Slot(a, i - 1) # t
      BY <1>1, <1>0, <2>1, <2>3
    <3>3. b.mData[Slot(b, i - 1)] = q[i]
      BY <2>3 DEF IsQueue
    <3>4. a.mData[Slot(b, i - 1)] = b.mData[Slot(b, i - 1)]
      BY <1>1, <1>3, <3>1, <3>2
    <3> QED BY <1>1, <2>3, <3>1, <3>3, <3>4
  <2> QED BY <1>1, <2>2, <2>3
<1> QED BY <1>4, <1>7, <1>8 DEF IsQueue, a

LEMMA PopKeepsQueue ==
    ASSUME NEW b, NEW q, IsQueue(b, q), ~Ring!Empty(b)
    PROVE  IsQueue(Ring!PopUnchecked(b), Tail(q))
<1> DEFINE a == Ring!PopUnchecked(b)
           c == b.mCapacity
           h == b.mHead
           t == b.mTail
           d == b.mData
<1>1. /\ b = [mHead |-> h, mTail |-> t, mCapacity |-> c, mData |-> d]
      /\ c \in 1 .. MaxSlots /\ c \in Nat \ {0, 1} /\ h \in 0 .. c - 1 /\ t \in 0 .. c - 1
      /\ h # t
      /\ d \in [0 .. c - 1 -> Values \cup {Blank}]
      /\ Len(q) = Count(b) /\ q \in Seq(Values) /\ IsRing(b)
  BY SlotsFitTheWord DEF IsQueue, IsRing, Ring!Empty
<1>0. Count(b) = IF h <= t THEN t - h ELSE t + c - h
  BY DEF Count
<1>2. Ring!Following(b, h) = IF h + 1 < c THEN h + 1 ELSE 0
  BY <1>1, FollowingIndex
<1>5. a = [b EXCEPT !.mData[h] = Blank, !.mHead = IF h + 1 < c THEN h + 1 ELSE 0]
  BY <1>2 DEF Ring!PopUnchecked
<1> HIDE DEF a, h, t, c, d
<1>3. a = [mHead |-> (IF h + 1 < c THEN h + 1 ELSE 0), mTail |-> t, mCapacity |-> c,
           mData |-> [d EXCEPT ![h] = Blank]]
  BY <1>1, <1>5
<1>4. IsRing(a)
  BY <1>1, <1>3 DEF IsRing
<1>6. Count(a) = Count(b) - 1 /\ Count(b) \in 1 .. c - 1
  BY <1>1, <1>3, <1>0 DEF Count
<1>7. /\ Tail(q) \in Seq(Values) /\ Len(Tail(q)) = Count(a)
      /\ \A i \in 1 .. Len(Tail(q)) : Tail(q)[i] = q[i + 1]
  BY <1>1, <1>6
<1>8. ASSUME NEW i \in 1 .. Len(Tail(q)) PROVE a.mData[Slot(a, i - 1)] = Tail(q)[i]
  <2>1. i \in Nat \ {0} /\ i + 1 \in 1 .. Len(q) /\ i \in 0 .. c - 2
    BY <1>1, <1>6, <1>7
  <2>2. Slot(a, i - 1) = Slot(b, i) /\ Slot(b, i) # h /\ Slot(b, i) \in 0 .. c - 1
    BY <1>1, <1>3, <2>1 DEF Slot
  <2>3. a.mData[Slot(b, i)] = b.mData[Slot(b, i)]
    BY <1>1, <1>3, <2>2
  <2>4. b.mData[Slot(b, i)] = q[i + 1]
    <3>1. b.mData[Slot(b, (i + 1) - 1)] = q[i + 1]
      BY <2>1 DEF IsQueue
    <3>2. (i + 1) - 1 = i
      BY <2>1
    <3> QED BY <3>1, <3>2
  <2> QED BY <1>7, <2>2, <2>3, <2>4
<1> QED BY <1>4, <1>7, <1>8 DEF IsQueue, a

\* A reallocation moves the elements to the front of the new storage.
LEMMA ReserveKeepsQueue ==
    ASSUME NEW b, NEW q, IsQueue(b, q), ~Ring!WrapAtRisk(b), NEW n \in Nat, n # 0,
           Ring!NewSlots(b, n) <= MaxSlots
    PROVE  IsQueue(Ring!Reserve(b, n), q)
<1> DEFINE a == Ring!Reserve(b, n)
           c == b.mCapacity
           s == Ring!NewSlots(b, n)
<1>1. CASE ~Ring!NeedsStorage(b, n)
  BY <1>1 DEF Ring!Reserve
<1>2. CASE Ring!NeedsStorage(b, n)
  <2>1. /\ IsRing(b) /\ q \in Seq(Values) /\ Len(q) = Count(b)
        /\ Ring!Occupied(b) = Len(q) /\ Ring!Size(b) = Len(q) /\ Ring!Contents(b) = q
        /\ Len(q) \in Nat
    BY OccupiedIsCount, SizeIsCount, ContentsOfQueue DEF IsQueue
  <2>2. s = 1 + (IF n < Len(q) THEN Len(q) ELSE n)
    BY <2>1 DEF Ring!NewSlots
  <2> HIDE DEF s
  <2>3. s \in Nat \ {0, 1} /\ s \in 1 .. MaxSlots /\ Len(q) <= s - 1
    BY <2>1, <2>2, SlotsFitTheWord DEF s
  <2>4. a = [mHead |-> 0, mTail |-> Len(q), mCapacity |-> s,
             mData |-> [i \in 0 .. s - 1 |-> IF i < Len(q) THEN q[i + 1] ELSE Blank]]
    BY <1>2, <2>1 DEF Ring!Reserve, s
  <2> HIDE DEF a
  <2>5. ASSUME NEW i \in 0 .. s - 1
        PROVE  (IF i < Len(q) THEN q[i + 1] ELSE Blank) \in Values \cup {Blank}
    BY <2>1, <2>3
  <2>6. a.mData \in [0 .. s - 1 -> Values \cup {Blank}]
    BY <2>4, <2>5
  <2>7. IsRing(a) /\ Count(a) = Len(q)
    BY <2>1, <2>3, <2>4, <2>6 DEF IsRing, Count
  <2>8. ASSUME NEW i \in 1 .. Len(q) PROVE a.mData[Slot(a, i - 1)] = q[i]
    <3>1. Slot(a, i - 1) = i - 1 /\ i - 1 \in 0 .. s - 1 /\ i - 1 < Len(q) /\ (i - 1) + 1 = i
      BY <2>1, <2>3, <2>4 DEF Slot
    <3> QED BY <2>4, <3>1
  <2> QED BY <2>1, <2>7, <2>8 DEF IsQueue, a
<1> QED BY <1>1, <1>2

LEMMA CopyKeepsQueue ==
    ASSUME NEW b, NEW q, IsQueue(b, q)
    PROVE  IsQueue(Ring!Copied(b), q)
<1> DEFINE a == Ring!Copied(b)
           c == b.mCapacity
<1>1. CASE Ring!Empty(b)
  BY <1>1, EmptyIsCountZero, ClearedIsQueue DEF Ring!Copied
<1>2. CASE ~Ring!Empty(b)
  <2>1. /\ IsRing(b) /\ q \in Seq(Values) /\ Len(q) = Count(b) /\ c \in Nat \ {0, 1}
        /\ b = [mHead |-> b.mHead, mTail |-> b.mTail, mCapacity |-> c, mData |-> b.mData]
        /\ b.mData \in [0 .. c - 1 -> Values \cup {Blank}]
    BY <1>2, SlotsFitTheWord DEF IsQueue, IsRing, Ring!Empty
  <2>2. Ring!Occupied(b) = Len(q) /\ Len(q) \in 0 .. c - 1
    BY <2>1, OccupiedIsCount
  <2> DEFINE Kept(i) == \E k \in 0 .. Ring!Occupied(b) - 1 : i = (b.mHead + k) % c
  <2>3. a = [mHead |-> b.mHead, mTail |-> b.mTail, mCapacity |-> c,
             mData |-> [i \in 0 .. c - 1 |-> IF Kept(i) THEN b.mData[i] ELSE Blank]]
    BY <1>2, <2>1 DEF Ring!Copied
  <2>4. ASSUME NEW i \in 1 .. Len(q) PROVE Kept(Slot(b, i - 1)) /\ Slot(b, i - 1) \in 0 .. c - 1
    <3>1. i - 1 \in 0 .. c - 1 /\ i - 1 \in 0 .. Ring!Occupied(b) - 1
      BY <2>1, <2>2
    <3>2. (b.mHead + (i - 1)) % c = Slot(b, i - 1) /\ Slot(b, i - 1) \in 0 .. c - 1
      BY <2>1, <3>1, SlotIsIndex
    <3> QED BY <3>1, <3>2
  <2> HIDE DEF a, Kept
  <2>5. IsRing(a) /\ Count(a) = Count(b)
    BY <2>1, <2>3 DEF IsRing, Count
  <2>6. ASSUME NEW i \in 1 .. Len(q) PROVE a.mData[Slot(a, i - 1)] = q[i]
    <3>1. Slot(a, i - 1) = Slot(b, i - 1)
      BY <2>3 DEF Slot
    <3>2. b.mData[Slot(b, i - 1)] = q[i]
      BY DEF IsQueue
    <3> QED BY <2>3, <2>4, <3>1, <3>2
  <2> QED BY <2>1, <2>5, <2>6 DEF IsQueue, a
<1> QED BY <1>1, <1>2

LEMMA StorageIsThere ==
    ASSUME NEW b, IsRing(b)
    PROVE  (b.mData # Ring!NoData <=> Ring!Capacity(b) > 0) /\ Ring!Capacity(b) \in Nat
<1>1. b.mCapacity \in Nat \ {0}
  BY SlotsFitTheWord DEF IsRing
<1>2. CASE b.mCapacity = 1
  BY <1>2 DEF IsRing, Ring!Capacity
<1>3. CASE b.mCapacity # 1
  <2>1. 0 \in DOMAIN b.mData /\ DOMAIN Ring!NoData = {}
    BY <1>1, <1>3 DEF IsRing, Ring!NoData
  <2>2. b.mData # Ring!NoData
    BY <2>1
  <2> QED BY <1>1, <1>3, <2>2 DEF Ring!Capacity
<1> QED BY <1>2, <1>3

\* Where nothing is at risk, full() is right ...
LEMMA FullIsRight ==
    ASSUME NEW b, NEW q, IsQueue(b, q), ~Ring!WrapAtRisk(b)
    PROVE  /\ Ring!Size(b) = Len(q)
           /\ Ring!Full(b) <=> Ring!Capacity(b) > 0 /\ Len(q) = Ring!Capacity(b)
BY SizeIsCount, StorageIsThere DEF IsQueue, Ring!Full

\* ... and so is back().
LEMMA BackIsNewest ==
    ASSUME NEW b, NEW q, IsQueue(b, q), ~Ring!WrapAtRisk(b), q # <<>>
    PROVE  Ring!Back(b) = q[Len(q)]
<1> DEFINE c == b.mCapacity
           d == b.mTail - 1
<1>1. /\ c \in Nat \ {0} /\ c <= WordModulus
      /\ b.mHead \in 0 .. c - 1 /\ b.mTail \in 0 .. c - 1
      /\ Len(q) = Count(b) /\ q \in Seq(Values)
  BY SlotsFitTheWord DEF IsRing, IsQueue
<1>2. Len(q) \in Nat \ {0}
  BY <1>1
<1>3. d \in -c .. c - 1
  BY <1>1
<1>4. d < 0 => WordModulus % c = 0
  BY <1>1, <1>2 DEF Ring!WrapAtRisk, Count
<1>5. Slot(b, Len(q) - 1) = IF d < 0 THEN d + c ELSE d
  <2> DEFINE h == b.mHead
             t == b.mTail
             n == Len(q)
  <2>1. /\ c \in Nat \ {0} /\ h \in 0 .. c - 1 /\ t \in 0 .. c - 1 /\ n \in Nat \ {0}
        /\ n = IF h <= t THEN t - h ELSE t + c - h
    BY <1>1, <1>2 DEF Count
  <2>2. Slot(b, n - 1) = IF h + (n - 1) < c THEN h + (n - 1) ELSE h + (n - 1) - c
    BY DEF Slot
  <2>3. d = t - 1
    OBVIOUS
  <2> HIDE DEF c, d, h, t, n
  <2>4. Slot(b, n - 1) = IF d < 0 THEN d + c ELSE d
    BY <2>1, <2>2, <2>3
  <2> QED BY <2>4 DEF n
<1>6. Ring!Back(b) = b.mData[(d % WordModulus) % c]
  BY DEF Ring!Back
<1> HIDE DEF c, d
<1>7. (d % WordModulus) % c = IF d < 0 THEN d + c ELSE d
  BY <1>1, <1>3, <1>4, DifferenceOfIndices
<1>8. b.mData[Slot(b, Len(q) - 1)] = q[Len(q)]
  BY <1>2 DEF IsQueue
<1> QED BY <1>5, <1>6, <1>7, <1>8

LEMMA PushIntoRoom ==
    ASSUME NEW b, NEW q, IsQueue(b, q), ~Ring!WrapAtRisk(b), NEW v \in Values,
           Ring!Capacity(b) > 0, ~Ring!Full(b)
    PROVE  IsQueue(Ring!PushUnchecked(b, v), Append(q, v))
<1>1. Len(q) = Count(b) /\ Count(b) \in 0 .. b.mCapacity - 1 /\ b.mCapacity \in Nat
  BY OccupiedIsCount, SlotsFitTheWord DEF IsQueue, IsRing
<1>2. Count(b) # b.mCapacity - 1
  BY <1>1, FullIsRight DEF Ring!Capacity
<1> QED BY <1>1, <1>2, PushKeepsQueue

LEMMA PushGrows ==
    ASSUME NEW b, NEW q, IsQueue(b, q), ~Ring!WrapAtRisk(b), NEW v \in Values,
           Ring!Full(b), ~Ring!NoRoom(b),
           Ring!NewSlots(b, Ring!ReallocSize(b)) <= MaxSlots
    PROVE  IsQueue(Ring!PushUnchecked(Ring!Reserve(b, Ring!ReallocSize(b)), v), Append(q, v))
<1> DEFINE n == Ring!ReallocSize(b)
           a == Ring!Reserve(b, n)
           c == Ring!Capacity(b)
<1>1. c \in Nat \ {0} /\ Len(q) = c /\ Ring!Size(b) = c /\ IsRing(b)
  BY StorageIsThere, FullIsRight DEF IsQueue
<1>2. n = (c * 3) \div 2 /\ n # c
  BY DEF Ring!NoRoom, Ring!ReallocSize
<1> HIDE DEF n, c
<1>3. n \in Nat /\ n > c
  <2> DEFINE e == c * 3
  <2>1. e \in Int /\ e = c + c + c /\ n = e \div 2
    BY <1>1, <1>2
  <2> HIDE DEF e
  <2>2. e = 2 * (e \div 2) + (e % 2) /\ e % 2 \in 0 .. 1 /\ e \div 2 \in Int
    BY <2>1
  <2> QED BY <1>1, <1>2, <2>1, <2>2
<1>4. Ring!NeedsStorage(b, n) /\ Ring!NewSlots(b, n) = n + 1 /\ n # 0
  BY <1>1, <1>2, <1>3 DEF Ring!NeedsStorage, Ring!NewSlots, c
<1>5. IsQueue(a, q)
  BY <1>3, <1>4, ReserveKeepsQueue DEF n
<1>6. a.mCapacity = n + 1
  BY <1>4 DEF Ring!Reserve
<1>7. Count(a) = Len(q)
  BY <1>5 DEF IsQueue
<1> HIDE DEF a
<1>8. IsQueue(Ring!PushUnchecked(a, v), Append(q, v))
  BY <1>1, <1>3, <1>5, <1>6, <1>7, PushKeepsQueue
<1> QED BY <1>8 DEF a, n

LEMMA ShrinkKeepsQueue ==
    ASSUME NEW b, NEW q, IsQueue(b, q), ~Ring!WrapAtRisk(b)
    PROVE  IsQueue(Ring!Reserve(b, Ring!Size(b)), q)
<1>1. /\ Ring!Size(b) = Len(q) /\ Len(q) \in Nat
      /\ Len(q) \in 0 .. b.mCapacity - 1 /\ b.mCapacity \in 1 .. MaxSlots
  BY FullIsRight, OccupiedIsCount DEF IsQueue, IsRing
<1>2. CASE Len(q) = 0
  <2>1. q = <<>>
    BY <1>2 DEF IsQueue
  <2> QED BY <1>1, <1>2, <2>1, ClearedIsQueue DEF Ring!Reserve
<1>3. CASE Len(q) # 0
  <2>1. Ring!NewSlots(b, Len(q)) <= MaxSlots
    BY <1>1, SlotsFitTheWord DEF Ring!NewSlots
  <2> QED BY <1>1, <1>3, <2>1, ReserveKeepsQueue
<1> QED BY <1>2, <1>3

LEMMA RingStep == RingInv /\ Ring!Next => RingInv'
<1> SUFFICES ASSUME IsQueue(buf, queue), IsQueue(other, otherQueue), Ring!Next, ~hazard'
             PROVE  IsQueue(buf', queue') /\ IsQueue(other', otherQueue')
  BY DEF RingInv, Ring!Next, Ring!Push, Ring!PushAfterCheck, Ring!PushFails, Ring!Pop,
     Ring!ReserveCall, Ring!ShrinkToFit, Ring!CopyOut, Ring!MoveIn, Ring!OnBuf
<1>1. ASSUME NEW v \in Values, Ring!Push(v) PROVE IsQueue(buf', queue')
  <2>1. ~Ring!WrapAtRisk(buf) /\ ~Ring!NoRoom(buf) /\ queue' = Append(queue, v)
    BY <1>1 DEF Ring!Push
  <2>2. Ring!Capacity(buf) # 0
    BY <2>1 DEF Ring!NoRoom
  <2>3. CASE Ring!Capacity(buf) > 0 /\ ~Ring!Full(buf) /\ buf' = Ring!PushUnchecked(buf, v)
    BY <2>1, <2>3, PushIntoRoom
  <2>4. CASE /\ Ring!Full(buf) /\ Ring!NewSlots(buf, Ring!ReallocSize(buf)) <= MaxSlots
             /\ buf' = Ring!PushUnchecked(Ring!Reserve(buf, Ring!ReallocSize(buf)), v)
    BY <2>1, <2>4, PushGrows
  <2> QED BY <1>1, <2>2, <2>3, <2>4 DEF Ring!Push
<1>2. ASSUME NEW v \in Values, Ring!PushAfterCheck(v) PROVE IsQueue(buf', queue')
  BY <1>2, PushIntoRoom DEF Ring!PushAfterCheck
<1>3. ASSUME Ring!Pop PROVE IsQueue(buf', queue')
  BY <1>3, PopKeepsQueue DEF Ring!Pop
<1>4. ASSUME NEW n \in 0 .. MaxRequest, Ring!ReserveCall(n) PROVE IsQueue(buf', queue')
  <2>1. n \in Nat
    BY SlotsFitTheWord
  <2>2. CASE UNCHANGED <<buf, queue>>
    BY <2>2
  <2>3. CASE n = 0 /\ buf' = Ring!Reserve(buf, n) /\ queue' = <<>>
    BY <2>3, ClearedIsQueue DEF Ring!Reserve
  <2>4. CASE n # 0 /\ buf' = Ring!Reserve(buf, n) /\ queue' = queue
    BY <1>4, <2>1, <2>4, ReserveKeepsQueue DEF Ring!ReserveCall
  <2> QED BY <1>4, <2>2, <2>3, <2>4 DEF Ring!ReserveCall
<1>5. ASSUME Ring!ShrinkToFit PROVE IsQueue(buf', queue')
  BY <1>5, ShrinkKeepsQueue DEF Ring!ShrinkToFit
<1>6. CASE Ring!CopyOut
  BY <1>6, CopyKeepsQueue, ClearedIsQueue DEF Ring!CopyOut
<1>7. CASE Ring!MoveIn
  BY <1>7, ClearedIsQueue DEF Ring!MoveIn
<1>8. CASE Ring!PushFails
  BY <1>8 DEF Ring!PushFails, Ring!OnBuf
<1>9. ~Ring!CopyOut /\ ~Ring!MoveIn => UNCHANGED <<other, otherQueue>>
  BY DEF Ring!Next, Ring!Push, Ring!PushAfterCheck, Ring!PushFails, Ring!Pop,
     Ring!ReserveCall, Ring!ShrinkToFit, Ring!OnBuf
<1> QED BY <1>1, <1>2, <1>3, <1>4, <1>5, <1>6, <1>7, <1>8, <1>9 DEF Ring!Next

LEMMA InitRing == Ring!Init => RingInv
<1> SUFFICES ASSUME NEW n \in 0 .. MaxRequest, buf = Ring!Reserve(Ring!Cleared, n)
             PROVE  IsQueue(buf, <<>>)
  BY ClearedIsQueue DEF Ring!Init, RingInv
<1>1. n \in Nat /\ n + 1 <= MaxSlots
  BY SlotsFitTheWord
<1>2. Ring!Cleared.mHead = 0 /\ Ring!Cleared.mTail = 0 /\ Ring!Cleared.mCapacity = 1
  BY DEF Ring!Cleared
<1>3. ~Ring!WrapAtRisk(Ring!Cleared) /\ IsRing(Ring!Cleared)
  BY <1>2, ClearedIsQueue DEF Ring!WrapAtRisk, IsQueue
<1>4. Ring!Size(Ring!Cleared) = 0
  BY <1>2, <1>3, SizeIsCount DEF Count
<1>5. n # 0 => Ring!NewSlots(Ring!Cleared, n) <= MaxSlots
  BY <1>1, <1>4 DEF Ring!NewSlots
<1>6. CASE n = 0
  BY <1>6, ClearedIsQueue DEF Ring!Reserve
<1>7. CASE n # 0
  BY <1>1, <1>3, <1>5, <1>7, ClearedIsQueue, ReserveKeepsQueue
<1> QED BY <1>6, <1>7

(* A RingBuffer is a FIFO queue through wrap-around, growth, shrinking,    *)
(* copies and moves, and what size(), full() and back() say of it is true, *)
(* for every number of slots that fits into a word: it has to divide 2^64  *)
(* only when one of them is called, or storage is replaced, after mTail    *)
(* wrapped around.                                                         *)
THEOREM FifoOrder == LibrarySpec => []KeepsFifoOrder
<1>1. LibraryInit => RingInv
  BY InitRing DEF LibraryInit
<1>2. RingInv /\ [LibraryNext]_libraryVars => RingInv'
  <2>1. [LibraryNext]_libraryVars => [Ring!Next]_<<buf, other, queue, otherQueue, hazard>>
    BY DEF LibraryNext, Others, libraryVars
  <2>2. RingInv /\ UNCHANGED <<buf, other, queue, otherQueue, hazard>> => RingInv'
    BY DEF RingInv
  <2> QED BY <2>1, <2>2, RingStep
<1>3. RingInv => KeepsFifoOrder
  BY ContentsOfQueue, FullIsRight, BackIsNewest
     DEF RingInv, KeepsFifoOrder, Ring!KeepsFifoOrder, Ring!CountsItsElements
<1> QED BY <1>1, <1>2, <1>3, PTL DEF LibrarySpec
-----------------------------------------------------------------------------
(* LRUCache beside LRU8WayCache.  The list is sorted by use and the matrix *)
(* says who was used after whom: they agree when every entry of one is an  *)
(* entry of the other and the places of two entries are in the order of    *)
(* the rows of their ways.  Both caches have as many places, so they are   *)
(* full together, and then the last place and the zero row hold one key.   *)
ListInv ==
    /\ listKeys \in [WayIds -> Keys \cup {CACHE_MISS}]
    /\ listIndices \in [WayIds -> WayIds]
    /\ listData \in [WayIds -> Values \cup {Blank}]
    /\ \A i, j \in WayIds : i # j => listIndices[i] # listIndices[j]
    /\ \A i, j \in WayIds : i < j /\ listKeys[j] # CACHE_MISS => listKeys[i] # CACHE_MISS
    /\ \A i, j \in WayIds : i # j /\ listKeys[i] = listKeys[j] => listKeys[i] = CACHE_MISS

\* Way w and place i hold the same entry.
Same(w, i) == mKeys[w] = listKeys[i] /\ mKeys[w] # CACHE_MISS

Agree ==
    /\ \A i \in WayIds : listKeys[i] # CACHE_MISS => \E w \in WayIds : Same(w, i)
    /\ \A w \in WayIds : mKeys[w] # CACHE_MISS => \E i \in WayIds : Same(w, i)
    /\ \A w, i \in WayIds : Same(w, i) => mData[w] = listData[listIndices[i]] /\ mData[w] \in Values
    /\ \A w, u, i, j \in WayIds : Same(w, i) /\ Same(u, j) /\ i < j => u \in mRows[w]

CachesInv == IInv /\ ListInv /\ Agree

LEMMA ListNames == List!Places = WayIds /\ List!CACHE_MISS = CACHE_MISS
BY DEF List!Places, WayIds, List!CACHE_MISS, CACHE_MISS

LEMMA InjectionIsOnto ==
    ASSUME NEW f \in [WayIds -> WayIds], \A u, w \in WayIds : f[u] = f[w] => u = w
    PROVE  \A w \in WayIds : \E u \in WayIds : f[u] = w
<1>1. f \in Injection(WayIds, WayIds)
  BY DEF Injection, IsInjective
<1>2. f \in Surjection(WayIds, WayIds)
  BY <1>1, WayIdsFinite, FS_Injection
<1> QED BY <1>2 DEF Surjection

LEMMA FullTogether ==
    ASSUME CachesInv
    PROVE  (\A w \in WayIds : mKeys[w] # CACHE_MISS)
          <=> (\A i \in WayIds : listKeys[i] # CACHE_MISS)
<1>1. ASSUME \A w \in WayIds : mKeys[w] # CACHE_MISS
      PROVE  \A i \in WayIds : listKeys[i] # CACHE_MISS
  <2> DEFINE f == [w \in WayIds |-> CHOOSE i \in WayIds : Same(w, i)]
  <2>1. \A w \in WayIds : f[w] \in WayIds /\ Same(w, f[w])
    BY <1>1 DEF CachesInv, Agree
  <2> HIDE DEF f
  <2>2. f \in [WayIds -> WayIds]
    BY <2>1 DEF f
  <2>3. \A u, w \in WayIds : f[u] = f[w] => u = w
    BY <2>1 DEF Same, CachesInv, IInv, TypeOK
  <2>4. \A i \in WayIds : \E w \in WayIds : f[w] = i
    BY <2>2, <2>3, InjectionIsOnto
  <2> QED BY <2>1, <2>4 DEF Same
<1>2. ASSUME \A i \in WayIds : listKeys[i] # CACHE_MISS
      PROVE  \A w \in WayIds : mKeys[w] # CACHE_MISS
  <2> DEFINE f == [i \in WayIds |-> CHOOSE w \in WayIds : Same(w, i)]
  <2>1. \A i \in WayIds : f[i] \in WayIds /\ Same(f[i], i)
    BY <1>2 DEF CachesInv, Agree
  <2> HIDE DEF f
  <2>2. f \in [WayIds -> WayIds]
    BY <2>1 DEF f
  <2>3. \A i, j \in WayIds : f[i] = f[j] => i = j
    BY <1>2, <2>1 DEF Same, CachesInv, ListInv
  <2>4. \A w \in WayIds : \E i \in WayIds : f[i] = w
    BY <2>2, <2>3, InjectionIsOnto
  <2> QED BY <2>1, <2>4 DEF Same
<1> QED BY <1>1, <1>2

LEMMA ListSearch ==
    ASSUME CachesInv, NEW k \in Keys
    PROVE  /\ List!Cached(k) <=> Cached(k)
           /\ List!Cached(k) => List!UsedPlace(k) \in WayIds /\ listKeys[List!UsedPlace(k)] = k
           /\ ~List!Cached(k) => List!UsedPlace(k) = Ways - 1
<1>1. List!Cached(k) <=> \E i \in WayIds : listKeys[i] = k
  BY ListNames DEF List!Cached
<1>2. List!Cached(k) <=> Cached(k)
  BY <1>1, KeyIsNotMiss DEF Cached, CachesInv, Agree, Same
<1>3. ASSUME NEW i \in WayIds, listKeys[i] = k
      PROVE  listKeys[i] = k /\ \A j \in 0 .. i - 1 : listKeys[j] # k
  <2>1. \A j \in 0 .. i - 1 : j \in WayIds /\ j # i
    BY WaysPositive DEF WayIds
  <2> QED BY <1>3, <2>1, KeyIsNotMiss DEF CachesInv, ListInv
<1>4. List!Cached(k) => List!SearchIndex(k) \in WayIds /\ listKeys[List!SearchIndex(k)] = k
  BY <1>1, <1>3, ListNames DEF List!SearchIndex
<1> QED BY <1>2, <1>4 DEF List!UsedPlace

\* The place that is turned to the front and the way that is used hold the same entry, or
\* none: an entry that a miss pushes out of one cache goes out of the other too.
LEMMA SamePlaceIsUsed ==
    ASSUME CachesInv, NEW k \in Keys
    PROVE  /\ List!UsedPlace(k) \in WayIds /\ UsedWay(k) \in WayIds
           /\ \A w \in WayIds \ {UsedWay(k)} : mKeys[w] # k
           /\ \A i \in WayIds \ {List!UsedPlace(k)} : listKeys[i] # k
           /\ \A w, i \in WayIds : Same(w, i) => (w = UsedWay(k) <=> i = List!UsedPlace(k))
<1> DEFINE p == List!UsedPlace(k)
           x == UsedWay(k)
<1>1. x \in WayIds
  BY UsedWayIsAWay DEF CachesInv
<1>2. CASE Cached(k)
  <2>1. mKeys[x] = k /\ p \in WayIds /\ listKeys[p] = k
    BY <1>2, FoundWay, ListSearch DEF UsedWay
  <2> HIDE DEF p, x
  <2> QED BY <1>1, <2>1, KeyIsNotMiss DEF p, x, Same, CachesInv, ListInv, IInv, TypeOK
<1>3. CASE ~Cached(k)
  <2>1. p = Ways - 1 /\ p \in WayIds /\ (\A w \in WayIds : mKeys[w] # k)
        /\ (\A i \in WayIds : listKeys[i] # k)
    BY <1>3, ListSearch, WaysPositive, ListNames DEF Cached, List!Cached, WayIds
  <2>2. mRows[x] = {}
    BY <1>3, VictimIsZeroRow DEF UsedWay, CachesInv
  <2>3. \A i \in WayIds : i < p \/ i = p
    BY <2>1, WaysPositive DEF WayIds
  <2> HIDE DEF p, x
  <2>4. CASE \A w \in WayIds : mKeys[w] # CACHE_MISS
    <3>1. listKeys[p] # CACHE_MISS
      BY <2>1, <2>4, FullTogether
    <3>2. PICK w \in WayIds : Same(w, p)
      BY <2>1, <3>1 DEF CachesInv, Agree
    <3>3. w = x
      <4>1. PICK i \in WayIds : Same(x, i)
        BY <1>1, <2>4 DEF CachesInv, Agree
      <4>2. ~(i < p)
        BY <1>1, <2>1, <2>2, <3>2, <4>1 DEF CachesInv, Agree
      <4>3. i = p
        BY <2>3, <4>2
      <4> QED BY <1>1, <3>2, <4>1, <4>3 DEF Same, CachesInv, IInv, TypeOK
    <3> QED BY <1>1, <2>1, <3>2, <3>3 DEF p, x, Same, CachesInv, ListInv, IInv, TypeOK
  <2>5. CASE \E w \in WayIds : mKeys[w] = CACHE_MISS
    <3>1. PICK u \in WayIds : mKeys[u] = CACHE_MISS
      BY <2>5
    <3>2. mKeys[x] = CACHE_MISS
      BY <1>1, <2>2, <3>1 DEF CachesInv, IInv, RowsAreTheOrderOfUse
    <3>3. listKeys[p] = CACHE_MISS
      <4>1. \E i \in WayIds : listKeys[i] = CACHE_MISS
        BY <2>5, FullTogether
      <4> QED BY <2>1, <2>3, <4>1 DEF CachesInv, ListInv
    <3> QED BY <1>1, <2>1, <3>2, <3>3 DEF p, x, Same
  <2> QED BY <2>4, <2>5
<1> QED BY <1>2, <1>3

\* Where a place of the turned list comes from
Source(p, i) == IF i <= p THEN i - 1 ELSE i

LEMMA SourceOfPlace ==
    ASSUME NEW p \in WayIds
    PROVE  /\ \A i \in WayIds \ {0} : Source(p, i) \in WayIds \ {p}
           /\ \A i, j \in WayIds \ {0} : i < j <=> Source(p, i) < Source(p, j)
           /\ \A i, j \in WayIds \ {0} : i = j <=> Source(p, i) = Source(p, j)
           /\ \A i \in WayIds \ {p} : \E j \in WayIds \ {0} : Source(p, j) = i
           /\ 0 \in WayIds /\ \A i \in WayIds \ {0} : 0 < i
<1>1. ASSUME NEW i \in WayIds \ {p} PROVE \E j \in WayIds \ {0} : Source(p, j) = i
  <2>1. CASE i < p
    <3>1. i + 1 \in WayIds \ {0} /\ Source(p, i + 1) = i
      BY <2>1, WaysPositive DEF WayIds, Source
    <3> QED BY <3>1
  <2>2. CASE i > p
    <3>1. i \in WayIds \ {0} /\ Source(p, i) = i
      BY <2>2, WaysPositive DEF WayIds, Source
    <3> QED BY <3>1
  <2> QED BY <2>1, <2>2, WaysPositive DEF WayIds
<1> QED BY <1>1, WaysPositive DEF WayIds, Source

LEMMA ListTurns ==
    ASSUME CachesInv, NEW k \in Keys, List!UpdateIndex(k)
    PROVE  /\ listKeys' \in [WayIds -> Keys \cup {CACHE_MISS}]
           /\ listIndices' \in [WayIds -> WayIds]
           /\ listKeys'[0] = k /\ listIndices'[0] = listIndices[List!UsedPlace(k)]
           /\ \A i \in WayIds \ {0} :
                /\ listKeys'[i] = listKeys[Source(List!UsedPlace(k), i)]
                /\ listIndices'[i] = listIndices[Source(List!UsedPlace(k), i)]
<1> DEFINE p == List!UsedPlace(k)
<1>1. p \in WayIds
  BY SamePlaceIsUsed
<1>2. listKeys' = List!Rotated(listKeys, p, k)
      /\ listIndices' = List!Rotated(listIndices, p, listIndices[p])
  BY DEF List!UpdateIndex
<1> HIDE DEF p
<1>3. /\ listKeys' = [i \in WayIds |-> IF i = 0 THEN k ELSE listKeys[Source(p, i)]]
      /\ listIndices' =
           [i \in WayIds |-> IF i = 0 THEN listIndices[p] ELSE listIndices[Source(p, i)]]
  BY <1>2, ListNames DEF List!Rotated, Source
<1>4. \A i \in WayIds \ {0} : Source(p, i) \in WayIds
  BY <1>1, SourceOfPlace
<1> QED BY <1>1, <1>3, <1>4, SourceOfPlace DEF CachesInv, ListInv, p

LEMMA UseKeepsList ==
    ASSUME CachesInv, NEW k \in Keys, List!UpdateIndex(k),
           listData' \in [WayIds -> Values \cup {Blank}]
    PROVE  ListInv'
<1> DEFINE p == List!UsedPlace(k)
<1>1. p \in WayIds /\ \A i \in WayIds \ {p} : listKeys[i] # k
  BY SamePlaceIsUsed
<1>2. /\ listKeys' \in [WayIds -> Keys \cup {CACHE_MISS}]
      /\ listIndices' \in [WayIds -> WayIds]
      /\ listKeys'[0] = k /\ listIndices'[0] = listIndices[p]
      /\ \A i \in WayIds \ {0} : /\ listKeys'[i] = listKeys[Source(p, i)]
                                 /\ listIndices'[i] = listIndices[Source(p, i)]
  BY ListTurns
<1> HIDE DEF p
<1>3. /\ \A i \in WayIds \ {0} : Source(p, i) \in WayIds \ {p}
      /\ \A i, j \in WayIds \ {0} : i < j <=> Source(p, i) < Source(p, j)
      /\ \A i, j \in WayIds \ {0} : i = j <=> Source(p, i) = Source(p, j)
      /\ 0 \in WayIds /\ \A i \in WayIds \ {0} : 0 < i
  BY <1>1, SourceOfPlace
<1>4. ASSUME NEW i \in WayIds, NEW j \in WayIds, i # j PROVE listIndices'[i] # listIndices'[j]
  <2> DEFINE From(n) == IF n = 0 THEN p ELSE Source(p, n)
  <2>1. \A n \in WayIds : From(n) \in WayIds /\ listIndices'[n] = listIndices[From(n)]
    BY <1>1, <1>2, <1>3
  <2>2. From(i) # From(j)
    BY <1>3, <1>4
  <2> HIDE DEF From
  <2> QED BY <2>1, <2>2 DEF CachesInv, ListInv
<1>5. ASSUME NEW i \in WayIds, NEW j \in WayIds, i < j, listKeys'[j] # CACHE_MISS
      PROVE  listKeys'[i] # CACHE_MISS
  <2>1. j # 0
    BY <1>3, <1>5, WayIdsFinite
  <2>2. CASE i = 0
    BY <1>2, <2>2, KeyIsNotMiss
  <2>3. CASE i # 0
    BY <1>2, <1>3, <1>5, <2>1, <2>3 DEF CachesInv, ListInv
  <2> QED BY <2>2, <2>3
<1>6. ASSUME NEW i \in WayIds, NEW j \in WayIds, i # j, listKeys'[i] = listKeys'[j]
      PROVE  listKeys'[i] = CACHE_MISS
  <2>1. CASE i = 0 \/ j = 0
    BY <1>1, <1>2, <1>3, <1>6, <2>1
  <2>2. CASE i # 0 /\ j # 0
    BY <1>2, <1>3, <1>6, <2>2 DEF CachesInv, ListInv
  <2> QED BY <2>1, <2>2
<1> QED BY <1>2, <1>4, <1>5, <1>6 DEF ListInv

\* What query_or_update leaves on a hit, what it and insert leave otherwise
DataUsed(k, v) ==
    \/ /\ mData' = [mData EXCEPT ![UsedWay(k)] = v]
       /\ listData' = [listData EXCEPT ![List!Slot(k)] = v]
    \/ Cached(k) /\ UNCHANGED <<mData, listData>>

LEMMA UseKeepsAgree ==
    ASSUME CachesInv, NEW k \in Keys, NEW v \in Values, Used(k), List!UpdateIndex(k), DataUsed(k, v)
    PROVE  /\ Agree'
           /\ mData' \in [WayIds -> Values \cup {Blank}]
           /\ listData' \in [WayIds -> Values \cup {Blank}]
<1> DEFINE p == List!UsedPlace(k)
           x == UsedWay(k)
           s == listIndices[p]
<1>1. /\ p \in WayIds /\ x \in WayIds
      /\ \A w \in WayIds \ {x} : mKeys[w] # k
      /\ \A i \in WayIds \ {p} : listKeys[i] # k
      /\ \A w, i \in WayIds : Same(w, i) => (w = x <=> i = p)
  BY SamePlaceIsUsed
<1>2. /\ listKeys' \in [WayIds -> Keys \cup {CACHE_MISS}]
      /\ listIndices' \in [WayIds -> WayIds]
      /\ listKeys'[0] = k /\ listIndices'[0] = s
      /\ \A i \in WayIds \ {0} : /\ listKeys'[i] = listKeys[Source(p, i)]
                                 /\ listIndices'[i] = listIndices[Source(p, i)]
  BY ListTurns
<1>3. /\ \A i \in WayIds \ {0} : Source(p, i) \in WayIds \ {p}
      /\ \A i, j \in WayIds \ {0} : i < j <=> Source(p, i) < Source(p, j)
      /\ \A i \in WayIds \ {p} : \E j \in WayIds \ {0} : Source(p, j) = i
      /\ 0 \in WayIds /\ \A i \in WayIds \ {0} : 0 < i
  BY <1>1, SourceOfPlace
<1>4. /\ mKeys'[x] = k
      /\ \A w \in WayIds \ {x} : mKeys'[w] = mKeys[w]
      /\ mRows'[x] = WayIds \ {x}
      /\ \A w \in WayIds \ {x} : mRows'[w] = mRows[w] \ {x}
  BY <1>1 DEF Used, UpdateLRUIndex, CachesInv, IInv, TypeOK
<1>5. k # CACHE_MISS
  BY KeyIsNotMiss
<1>6. Cached(k) => Same(x, p)
  BY FoundWay, ListSearch, <1>5 DEF UsedWay, Same
<1>7. \/ mData' = [mData EXCEPT ![x] = v] /\ listData' = [listData EXCEPT ![s] = v]
      \/ Cached(k) /\ mData' = mData /\ listData' = listData
  BY DEF DataUsed, List!Slot
<1>8. s \in WayIds /\ \A i \in WayIds \ {p} : listIndices[i] # s
  BY <1>1 DEF CachesInv, ListInv
<1> HIDE DEF p, x, s
\* Behind the first place the same ways are at the same entries as before.
<1>9. \A w \in WayIds, i \in WayIds \ {0} :
        Same(w, i)' <=> w # x /\ Same(w, Source(p, i))
  BY <1>1, <1>2, <1>3, <1>4, <1>5 DEF Same
<1>10. \A w \in WayIds : Same(w, 0)' <=> w = x
  BY <1>1, <1>2, <1>4, <1>5 DEF Same
<1>11. ASSUME NEW i \in WayIds, listKeys'[i] # CACHE_MISS PROVE \E w \in WayIds : Same(w, i)'
  <2>1. CASE i = 0
    BY <1>1, <1>10, <2>1
  <2>2. CASE i # 0
    <3>1. PICK w \in WayIds : Same(w, Source(p, i))
      BY <1>2, <1>3, <1>11, <2>2 DEF CachesInv, Agree
    <3>2. w # x
      BY <1>1, <1>3, <2>2, <3>1
    <3> QED BY <1>9, <2>2, <3>1, <3>2
  <2> QED BY <2>1, <2>2
<1>12. ASSUME NEW w \in WayIds, mKeys'[w] # CACHE_MISS PROVE \E i \in WayIds : Same(w, i)'
  <2>1. CASE w = x
    BY <1>3, <1>10, <2>1
  <2>2. CASE w # x
    <3>1. PICK i \in WayIds : Same(w, i)
      BY <1>4, <1>12, <2>2 DEF CachesInv, Agree
    <3>2. PICK j \in WayIds \ {0} : Source(p, j) = i
      BY <1>1, <1>3, <2>2, <3>1
    <3> QED BY <1>9, <2>2, <3>1, <3>2
  <2> QED BY <2>1, <2>2
<1>13. mData \in [WayIds -> Values \cup {Blank}] /\ listData \in [WayIds -> Values \cup {Blank}]
  BY DEF CachesInv, IInv, TypeOK, ListInv
<1>14. ASSUME NEW w \in WayIds, NEW i \in WayIds, Same(w, i)'
       PROVE  mData'[w] = listData'[listIndices'[i]] /\ mData'[w] \in Values
  <2>1. CASE i = 0
    <3>1. w = x
      BY <1>10, <1>14, <2>1
    <3>2. Cached(k) => mData[x] = listData[s] /\ mData[x] \in Values
      BY <1>1, <1>6 DEF CachesInv, Agree, s
    <3> QED BY <1>1, <1>2, <1>7, <1>8, <1>13, <2>1, <3>1, <3>2
  <2>2. CASE i # 0
    <3>1. w # x /\ Same(w, Source(p, i)) /\ Source(p, i) \in WayIds \ {p}
      BY <1>3, <1>9, <1>14, <2>2
    <3>2. mData[w] = listData[listIndices[Source(p, i)]] /\ mData[w] \in Values
      BY <3>1 DEF CachesInv, Agree
    <3>3. listIndices[Source(p, i)] # s /\ listIndices'[i] = listIndices[Source(p, i)]
      BY <1>2, <1>8, <2>2, <3>1
    <3>4. mData'[w] = mData[w]
      BY <1>7, <1>13, <3>1
    <3>5. listData'[listIndices'[i]] = listData[listIndices'[i]]
      BY <1>2, <1>7, <1>13, <3>3
    <3> QED BY <3>2, <3>3, <3>4, <3>5
  <2> QED BY <2>1, <2>2
<1>15. ASSUME NEW w \in WayIds, NEW u \in WayIds, NEW i \in WayIds, NEW j \in WayIds,
              Same(w, i)', Same(u, j)', i < j
       PROVE  u \in mRows'[w]
  <2>1. j # 0
    BY <1>3, <1>15, WayIdsFinite
  <2>2. u # x /\ Same(u, Source(p, j))
    BY <1>9, <1>15, <2>1
  <2>3. CASE i = 0
    BY <1>4, <1>10, <1>15, <2>2, <2>3
  <2>4. CASE i # 0
    <3>1. w # x /\ Same(w, Source(p, i)) /\ Source(p, i) < Source(p, j)
      BY <1>3, <1>9, <1>15, <2>1, <2>4
    <3>2. u \in mRows[w]
      BY <1>3, <2>1, <2>2, <2>4, <3>1 DEF CachesInv, Agree
    <3> QED BY <1>4, <2>2, <3>1, <3>2
  <2> QED BY <2>3, <2>4
<1>16. mData' \in [WayIds -> Values \cup {Blank}] /\ listData' \in [WayIds -> Values \cup {Blank}]
  BY <1>7, <1>13
<1> QED BY <1>11, <1>12, <1>14, <1>15, <1>16 DEF Agree

LEMMA UseKeepsCaches ==
    ASSUME CachesInv, NEW k \in Keys, NEW v \in Values, Used(k), List!UpdateIndex(k), DataUsed(k, v)
    PROVE  CachesInv'
<1>1. /\ Agree'
      /\ mData' \in [WayIds -> Values \cup {Blank}]
      /\ listData' \in [WayIds -> Values \cup {Blank}]
  BY UseKeepsAgree
<1>2. IInv
  BY DEF CachesInv
<1> QED BY <1>1, <1>2, UseKeepsIInv, UseKeepsList DEF CachesInv

LEMMA StepIsUse ==
    ASSUME CachesInv, NEW k \in Keys, NEW v \in Values, InsertAll(k, v) \/ QueryOrUpdateAll(k, v)
    PROVE  Used(k) /\ List!UpdateIndex(k) /\ DataUsed(k, v)
<1>1. List!Cached(k) <=> Cached(k)
  BY ListSearch
<1> QED BY <1>1 DEF InsertAll, QueryOrUpdateAll, Insert, QueryOrUpdate, List!Insert,
           List!QueryOrUpdate, Used, DataUsed

LEMMA CachesInvStep == CachesInv /\ [NextAll]_allVars => CachesInv'
<1>1. CachesInv /\ UNCHANGED allVars => CachesInv'
  BY DEF CachesInv, IInv, TypeOK, RowsAreTheOrderOfUse, ListInv, Agree, Same, allVars, vars
<1>2. ASSUME CachesInv, ClearAll PROVE CachesInv'
  <2>1. IInv'
    BY <1>2, NextIInv DEF CachesInv, ClearAll, Next
  <2>2. /\ mKeys' = [w \in WayIds |-> CACHE_MISS] /\ listKeys' = [i \in WayIds |-> CACHE_MISS]
        /\ listIndices' = [i \in WayIds |-> i] /\ listData' = listData
    BY <1>2, ListNames DEF ClearAll, Clear, List!Clear
  <2>3. ListInv' /\ Agree'
    BY <1>2, <2>2 DEF CachesInv, ListInv, Agree, Same
  <2> QED BY <2>1, <2>3 DEF CachesInv
<1>3. ASSUME CachesInv, NEW k \in Keys, NEW v \in Values, InsertAll(k, v) \/ QueryOrUpdateAll(k, v)
      PROVE  CachesInv'
  BY <1>3, StepIsUse, UseKeepsCaches
<1> QED BY <1>1, <1>2, <1>3 DEF NextAll

LEMMA InitCachesInv == InitAll => CachesInv
<1> SUFFICES ASSUME InitAll PROVE CachesInv
  OBVIOUS
<1>1. IInv
  BY InitIInv DEF InitAll
<1>2. /\ mKeys = [w \in WayIds |-> CACHE_MISS] /\ listKeys = [i \in WayIds |-> CACHE_MISS]
      /\ listIndices = [i \in WayIds |-> i] /\ listData = [i \in WayIds |-> Blank]
  BY ListNames DEF InitAll, Init, List!Init, List!Emptied
<1>3. ListInv /\ Agree
  BY <1>2 DEF ListInv, Agree, Same
<1> QED BY <1>1, <1>3 DEF CachesInv

LEMMA CountedByPlaces ==
    ASSUME NEW m \in Nat, NEW S, NEW f \in [0 .. m - 1 -> S],
           \A i, j \in 0 .. m - 1 : f[i] = f[j] => i = j,
           \A x \in S : \E i \in 0 .. m - 1 : f[i] = x
    PROVE  Cardinality(S) = m
<1>1. f \in Injection(0 .. m - 1, S) /\ f \in Surjection(0 .. m - 1, S)
  BY DEF Injection, IsInjective, Surjection
<1>2. ExistsBijection(0 .. m - 1, S)
  BY <1>1 DEF ExistsBijection, Bijection
<1>3. IsFiniteSet(0 .. m - 1) /\ Cardinality(0 .. m - 1) = m
  <2>1. 0 \in Int /\ m - 1 \in Int
    OBVIOUS
  <2>2. /\ IsFiniteSet(0 .. m - 1)
        /\ Cardinality(0 .. m - 1) = IF 0 > m - 1 THEN 0 ELSE (m - 1) - 0 + 1
    BY <2>1, FS_Interval
  <2> QED BY <2>2
<1> QED BY <1>2, <1>3, FS_Bijection

LEMMA UsedPlacesAreFirst ==
    ASSUME CachesInv
    PROVE  \E m \in 0 .. Ways : List!UsedPlaces = 0 .. m - 1
<1> DEFINE Unused == {i \in WayIds : listKeys[i] = CACHE_MISS}
<1>1. List!UsedPlaces = WayIds \ Unused
  BY ListNames DEF List!UsedPlaces
<1>2. CASE Unused = {}
  BY <1>1, <1>2, WaysPositive DEF WayIds
<1>3. CASE Unused # {}
  <2>1. PICK m \in Unused : \A n \in Unused : m <= n
    BY <1>3, LowestWay
  <2>2. m \in 0 .. Ways /\ m \in WayIds
    BY WaysPositive DEF WayIds
  <2>3. \A i \in WayIds : i < m => i \notin Unused
    BY <2>1, <2>2, WaysPositive DEF WayIds
  <2>4. \A i \in WayIds : m < i => i \in Unused
    BY <2>1, <2>2 DEF CachesInv, ListInv
  <2>5. WayIds \ Unused = 0 .. m - 1
    BY <2>1, <2>2, <2>3, <2>4, WaysPositive DEF WayIds
  <2> QED BY <1>1, <2>2, <2>5
<1> QED BY <1>2, <1>3

LEMMA EntriesAgree == CachesInv => List!Entries = Entries
<1> SUFFICES ASSUME CachesInv PROVE List!Entries = Entries
  OBVIOUS
<1> DEFINE WayAt(i) == CHOOSE w \in WayIds : Same(w, i)
<1>1. PICK m \in 0 .. Ways : List!UsedPlaces = 0 .. m - 1
  BY UsedPlacesAreFirst
<1>2. m \in Nat /\ 0 .. m - 1 \subseteq WayIds
  BY WaysPositive DEF WayIds
<1>3. \A i \in WayIds : listKeys[i] # CACHE_MISS <=> i \in 0 .. m - 1
  BY <1>1, ListNames DEF List!UsedPlaces
<1>4. \A i \in 0 .. m - 1 : WayAt(i) \in WayIds /\ Same(WayAt(i), i)
  BY <1>2, <1>3 DEF CachesInv, Agree
<1> HIDE DEF WayAt
<1>5. \A i \in 0 .. m - 1 : WayAt(i) \in UsedWays
  BY <1>4 DEF UsedWays, Same
<1>6. \A i, j \in 0 .. m - 1 : WayAt(i) = WayAt(j) => i = j
  BY <1>2, <1>3, <1>4 DEF Same, CachesInv, ListInv
<1>7. ASSUME NEW w \in UsedWays PROVE \E i \in 0 .. m - 1 : WayAt(i) = w
  <2>1. PICK i \in WayIds : Same(w, i)
    BY DEF UsedWays, CachesInv, Agree
  <2>2. i \in 0 .. m - 1
    BY <1>3, <2>1 DEF Same
  <2>3. WayAt(i) = w
    BY <1>4, <2>1, <2>2 DEF Same, CachesInv, IInv, TypeOK, UsedWays
  <2> QED BY <2>2, <2>3
<1>8. Cardinality(UsedWays) = m
  <2> DEFINE f == [i \in 0 .. m - 1 |-> WayAt(i)]
  <2>1. f \in [0 .. m - 1 -> UsedWays] /\ \A i \in 0 .. m - 1 : f[i] = WayAt(i)
    BY <1>5
  <2> HIDE DEF f
  <2> QED BY <1>2, <1>6, <1>7, <2>1, CountedByPlaces
<1>9. ASSUME NEW j \in 0 .. m - 1
      PROVE  Cardinality({u \in UsedWays : WayAt(j) \in mRows[u]}) = j
  <2> DEFINE Later == {u \in UsedWays : WayAt(j) \in mRows[u]}
             f == [i \in 0 .. j - 1 |-> WayAt(i)]
  <2>1. \A i \in 0 .. m - 1 : WayAt(j) \in mRows[WayAt(i)] <=> i < j
    <3>1. ASSUME NEW i \in 0 .. m - 1, i < j PROVE WayAt(j) \in mRows[WayAt(i)]
      BY <1>2, <1>4, <3>1 DEF CachesInv, Agree
    <3>2. ASSUME NEW i \in 0 .. m - 1, j < i PROVE WayAt(j) \notin mRows[WayAt(i)]
      <4>1. WayAt(i) \in mRows[WayAt(j)]
        BY <1>2, <1>4, <3>2 DEF CachesInv, Agree
      <4> QED BY <1>4, <4>1 DEF CachesInv, IInv, RowsAreTheOrderOfUse
    <3>3. WayAt(j) \notin mRows[WayAt(j)]
      BY <1>4 DEF CachesInv, IInv, RowsAreTheOrderOfUse
    <3> QED BY <1>2, <3>1, <3>2, <3>3
  <2>2. j \in Nat /\ 0 .. j - 1 \subseteq 0 .. m - 1 /\ \A i \in 0 .. j - 1 : i < j
    BY <1>2
  <2>3. f \in [0 .. j - 1 -> Later] /\ \A i \in 0 .. j - 1 : f[i] = WayAt(i)
    BY <1>5, <2>1, <2>2
  <2>4. \A x \in Later : \E i \in 0 .. j - 1 : f[i] = x
    <3> SUFFICES ASSUME NEW x \in Later PROVE \E i \in 0 .. j - 1 : f[i] = x
      OBVIOUS
    <3>1. PICK i \in 0 .. m - 1 : WayAt(i) = x
      BY <1>7
    <3>2. i < j
      BY <2>1, <3>1
    <3>3. i \in 0 .. j - 1
      BY <1>2, <3>2
    <3> QED BY <2>3, <3>1, <3>3
  <2> HIDE DEF f, Later
  <2>5. \A i, n \in 0 .. j - 1 : f[i] = f[n] => i = n
    BY <1>6, <2>2, <2>3
  <2>6. Cardinality(Later) = j
    BY <2>2, <2>3, <2>4, <2>5, CountedByPlaces
  <2> QED BY <2>6 DEF Later
<1>10. ASSUME NEW n \in 1 .. m PROVE NthUsed(n) = WayAt(n - 1)
  <2>1. n - 1 \in 0 .. m - 1
    BY <1>2
  <2>2. ASSUME NEW w \in UsedWays,
               Cardinality({u \in UsedWays : w \in mRows[u]}) = n - 1
        PROVE  w = WayAt(n - 1)
    BY <1>7, <1>9, <2>2
  <2> QED BY <1>5, <1>9, <2>1, <2>2 DEF NthUsed
<1>11. List!Cardinality(List!UsedPlaces) = m
  <2>1. \A S : List!Cardinality(S) = Cardinality(S)
    BY DEF List!Cardinality, Cardinality
  <2>2. Cardinality(0 .. m - 1) = m
    <3> DEFINE f == [i \in 0 .. m - 1 |-> i]
    <3>1. f \in [0 .. m - 1 -> 0 .. m - 1] /\ \A i \in 0 .. m - 1 : f[i] = i
      OBVIOUS
    <3> HIDE DEF f
    <3> QED BY <1>2, <3>1, CountedByPlaces
  <2> QED BY <1>1, <2>1, <2>2
<1>12. \A n \in 1 .. m : /\ listKeys[n - 1] = mKeys[NthUsed(n)]
                         /\ listData[listIndices[n - 1]] = mData[NthUsed(n)]
  <2>1. \A n \in 1 .. m : n - 1 \in 0 .. m - 1 /\ n - 1 \in WayIds
    BY <1>2
  <2> QED BY <1>4, <1>10, <2>1 DEF CachesInv, Agree, Same
<1> QED BY <1>8, <1>11, <1>12 DEF List!Entries, Entries

LEMMA CachesInvHolds == LibrarySpec => []CachesInv
<1>1. LibraryInit => CachesInv
  BY InitCachesInv DEF LibraryInit
<1>2. CachesInv /\ [LibraryNext]_libraryVars => CachesInv'
  BY CachesStep, CachesInvStep
<1> QED BY <1>1, <1>2, PTL DEF LibrarySpec

(* LRUCache, which rotates its arrays, and LRU8WayCache, which sets bits,  *)
(* hold the same entries in the same order after every sequence of calls,  *)
(* whatever their size.                                                    *)
THEOREM CachesAgree == LibrarySpec => []ListAgreesWithMatrix
<1>1. CachesInv => ListAgreesWithMatrix
  BY EntriesAgree DEF ListAgreesWithMatrix
<1> QED BY <1>1, CachesInvHolds, PTL

-----------------------------------------------------------------------------
(* The list as a sequence of entries, which is what the abstract list is   *)
(* about.                                                                  *)
EntryAt(i) == [key |-> listKeys[i], val |-> listData[listIndices[i]]]

LEMMA SizeOfPrefix == \A m \in Nat : List!Cardinality(0 .. m - 1) = m
<1> SUFFICES ASSUME NEW m \in Nat PROVE List!Cardinality(0 .. m - 1) = m
  OBVIOUS
<1>1. List!Cardinality(0 .. m - 1) = Cardinality(0 .. m - 1)
  BY DEF List!Cardinality, Cardinality
<1> DEFINE f == [i \in 0 .. m - 1 |-> i]
<1>2. f \in [0 .. m - 1 -> 0 .. m - 1] /\ \A i \in 0 .. m - 1 : f[i] = i
  OBVIOUS
<1> HIDE DEF f
<1>3. Cardinality(0 .. m - 1) = m
  BY <1>2, CountedByPlaces
<1> QED BY <1>1, <1>3

LEMMA SequenceOfEntries ==
    ASSUME CachesInv, NEW m \in 0 .. Ways, List!UsedPlaces = 0 .. m - 1
    PROVE  /\ List!Entries \in Seq([key : Keys, val : Values]) /\ Len(List!Entries) = m
           /\ \A n \in 1 .. m : List!Entries[n] = EntryAt(n - 1)
<1>1. m \in Nat /\ \A n \in 1 .. m : n - 1 \in WayIds /\ n - 1 \in List!UsedPlaces
  BY WaysPositive DEF WayIds
<1>2. List!Entries = [n \in 1 .. m |-> EntryAt(n - 1)]
  BY <1>1, SizeOfPrefix DEF List!Entries, EntryAt
<1>3. ASSUME NEW n \in 1 .. m PROVE EntryAt(n - 1) \in [key : Keys, val : Values]
  <2>1. n - 1 \in WayIds /\ listKeys[n - 1] # CACHE_MISS
    BY <1>1, ListNames DEF List!UsedPlaces
  <2>2. listKeys[n - 1] \in Keys
    BY <2>1 DEF CachesInv, ListInv
  <2>3. PICK w \in WayIds : Same(w, n - 1)
    BY <2>1 DEF CachesInv, Agree
  <2>4. listData[listIndices[n - 1]] \in Values
    BY <2>1, <2>3 DEF CachesInv, Agree
  <2> QED BY <2>2, <2>4 DEF EntryAt
<1> QED BY <1>1, <1>2, <1>3

\* The turned list
LEMMA EntriesTurn ==
    ASSUME CachesInv, NEW k \in Keys, NEW v \in Values, List!UpdateIndex(k), Used(k),
           DataUsed(k, v),
           NEW m \in 0 .. Ways, List!UsedPlaces = 0 .. m - 1
    PROVE  LET p == List!UsedPlace(k)
               n == IF Cached(k) \/ m = Ways THEN m ELSE m + 1
           IN  /\ List!UsedPlaces' = 0 .. n - 1
               /\ List!Entries' = [i \in 1 .. n |->
                     IF i = 1 THEN [key |-> k, val |-> listData'[listIndices[p]]]
                     ELSE List!Entries[IF i <= p + 1 THEN i - 1 ELSE i]]
<1> DEFINE p == List!UsedPlace(k)
           s == listIndices[p]
           n == IF Cached(k) \/ m = Ways THEN m ELSE m + 1
           E == List!Entries
<1>1. p \in WayIds /\ s \in WayIds /\ \A i \in WayIds \ {p} : listIndices[i] # s
  BY SamePlaceIsUsed DEF CachesInv, ListInv
<1>2. /\ listKeys' \in [WayIds -> Keys \cup {CACHE_MISS}]
      /\ listKeys'[0] = k /\ listIndices'[0] = s
      /\ \A i \in WayIds \ {0} : /\ listKeys'[i] = listKeys[Source(p, i)]
                                 /\ listIndices'[i] = listIndices[Source(p, i)]
  BY ListTurns
<1>3. /\ \A i \in WayIds \ {0} : Source(p, i) \in WayIds \ {p}
      /\ 0 \in WayIds
  BY <1>1, SourceOfPlace
<1>4. /\ m \in Nat /\ Ways \in Nat \ {0} /\ WayIds = 0 .. Ways - 1
      /\ \A i \in WayIds : listKeys[i] # CACHE_MISS <=> i < m
  BY WaysPositive, ListNames DEF WayIds, List!UsedPlaces
<1>5. k # CACHE_MISS /\ (Cached(k) => p < m) /\ (~Cached(k) => p = Ways - 1)
  BY <1>1, <1>4, KeyIsNotMiss, ListSearch
<1>6. /\ E \in Seq([key : Keys, val : Values]) /\ Len(E) = m
      /\ \A i \in 1 .. m : E[i] = EntryAt(i - 1)
  BY SequenceOfEntries
<1>7. \A i \in WayIds \ {p} : listData'[listIndices[i]] = listData[listIndices[i]]
  <2>1. listData' = [listData EXCEPT ![s] = v] \/ listData' = listData
    BY DEF DataUsed, List!Slot
  <2> QED BY <1>1, <2>1 DEF CachesInv, ListInv
<1>8. List!UsedPlaces' = {i \in WayIds : listKeys'[i] # CACHE_MISS}
  BY ListNames DEF List!UsedPlaces
<1> HIDE DEF p, s, n, E
<1>9. n \in Nat /\ n \in 1 .. Ways
  BY <1>1, <1>4, <1>5 DEF n
<1>10. ASSUME NEW i \in WayIds PROVE listKeys'[i] # CACHE_MISS <=> i < n
  <2>1. CASE i = 0
    BY <1>2, <1>5, <1>9, <2>1
  <2>2. CASE i # 0
    <3>1. listKeys'[i] # CACHE_MISS <=> Source(p, i) < m
      BY <1>2, <1>3, <1>4, <2>2
    <3> QED BY <1>1, <1>4, <1>5, <2>2, <3>1 DEF n, Source
  <2> QED BY <2>1, <2>2
<1>11. List!UsedPlaces' = 0 .. n - 1
  BY <1>4, <1>8, <1>9, <1>10
<1>12. List!Entries' = [i \in 1 .. n |-> EntryAt(i - 1)']
  <2>1. List!Cardinality(List!UsedPlaces)' = n
    BY <1>9, <1>11, SizeOfPrefix DEF List!Cardinality
  <2> QED BY <2>1 DEF List!Entries, EntryAt
<1>13. ASSUME NEW i \in 1 .. n
       PROVE  EntryAt(i - 1)' = IF i = 1 THEN [key |-> k, val |-> listData'[s]]
                                ELSE E[IF i <= p + 1 THEN i - 1 ELSE i]
  <2>1. CASE i = 1
    <3>1. i - 1 = 0
      BY <2>1
    <3>2. EntryAt(i - 1)' = [key |-> listKeys'[i - 1], val |-> listData'[listIndices'[i - 1]]]
      BY DEF EntryAt
    <3> QED BY <1>2, <2>1, <3>1, <3>2
  <2>2. CASE i # 1
    <3> DEFINE j == Source(p, i - 1)
    <3>1. i - 1 \in WayIds \ {0}
      BY <1>4, <1>9, <2>2
    <3>2. j \in WayIds \ {p}
      BY <1>3, <3>1
    <3>3. j < m
      BY <1>4, <1>10, <1>9, <1>2, <3>1, <3>2
    <3>4. j + 1 = (IF i <= p + 1 THEN i - 1 ELSE i) /\ j + 1 \in 1 .. m /\ (j + 1) - 1 = j
      BY <1>1, <1>4, <3>1, <3>2, <3>3 DEF Source
    <3>5. EntryAt(i - 1)' = EntryAt(j)
      BY <1>2, <1>7, <3>1, <3>2 DEF EntryAt
    <3> HIDE DEF j
    <3>6. E[j + 1] = EntryAt(j)
      BY <1>6, <3>4
    <3> QED BY <2>2, <3>4, <3>5, <3>6
  <2> QED BY <2>1, <2>2
<1> QED BY <1>11, <1>12, <1>13 DEF p, s, n, E

\* e in front of E, in the place of the entry behind the first p of them.
MovedToFront(E, e, p) == <<e>> \o SubSeq(E, 1, p) \o SubSeq(E, p + 2, Len(E))
Turned(E, e, p) ==
    [i \in 1 .. Len(E) |-> IF i = 1 THEN e ELSE E[IF i <= p + 1 THEN i - 1 ELSE i]]

LEMMA ThreeParts ==
    ASSUME NEW T, NEW E \in Seq(T), NEW e \in T, NEW p \in 0 .. Len(E) - 1
    PROVE  MovedToFront(E, e, p) = Turned(E, e, p)
<1> DEFINE A == SubSeq(E, 1, p)
           B == SubSeq(E, p + 2, Len(E))
           m == Len(E)
           C == <<e>> \o A
           R == C \o B
<1>1. m \in Nat /\ p \in Nat /\ p < m
  OBVIOUS
<1>2. A \in Seq(T) /\ Len(A) = p /\ \A i \in 1 .. p : A[i] = E[i]
  BY <1>1
<1>3. B \in Seq(T) /\ Len(B) = m - p - 1 /\ \A i \in 1 .. m - p - 1 : B[i] = E[p + 1 + i]
  BY <1>1
<1>4. <<e>> \in Seq(T) /\ Len(<<e>>) = 1 /\ <<e>>[1] = e
  OBVIOUS
<1> HIDE DEF A, B, m
<1>5. /\ C \in Seq(T) /\ Len(C) = p + 1 /\ C[1] = e
      /\ \A i \in 2 .. p + 1 : C[i] = E[i - 1]
  BY <1>1, <1>2, <1>4
<1> HIDE DEF C
<1>6. /\ R \in Seq(T) /\ Len(R) = m
      /\ \A i \in 1 .. p + 1 : R[i] = C[i]
      /\ \A i \in p + 2 .. m : R[i] = B[i - p - 1]
  <2>1. /\ R \in Seq(T) /\ Len(R) = Len(C) + Len(B)
        /\ \A i \in 1 .. Len(C) : R[i] = C[i]
        /\ \A i \in Len(C) + 1 .. Len(C) + Len(B) : R[i] = B[i - Len(C)]
    <3>1. C \in Seq(T) /\ B \in Seq(T)
      BY <1>3, <1>5
    <3> QED BY <3>1, Joined
  <2>2. \A i \in p + 2 .. m : i \in Len(C) + 1 .. Len(C) + Len(B) /\ i - Len(C) = i - p - 1
    BY <1>1, <1>3, <1>5
  <2> HIDE DEF R
  <2>3. R \in Seq(T) /\ Len(R) = m
    BY <1>1, <1>3, <1>5, <2>1
  <2>4. \A i \in 1 .. p + 1 : R[i] = C[i]
    BY <1>5, <2>1
  <2>5. \A i \in p + 2 .. m : R[i] = B[i - p - 1]
    BY <2>1, <2>2
  <2> QED BY <2>3, <2>4, <2>5
<1>7. ASSUME NEW i \in 1 .. m
      PROVE  R[i] = IF i = 1 THEN e ELSE E[IF i <= p + 1 THEN i - 1 ELSE i]
  <2> HIDE DEF R
  <2>1. CASE i = 1
    <3>1. 1 \in 1 .. p + 1
      BY <1>1
    <3>2. R[1] = C[1] /\ C[1] = e
      BY <1>5, <1>6, <3>1
    <3> QED BY <2>1, <3>2
  <2>2. CASE i \in 2 .. p + 1
    <3>1. i \in 1 .. p + 1 /\ i # 1 /\ i <= p + 1
      BY <1>1, <2>2
    <3>2. R[i] = C[i] /\ C[i] = E[i - 1]
      BY <1>5, <1>6, <2>2, <3>1
    <3> QED BY <3>1, <3>2
  <2>3. CASE i \in p + 2 .. m
    <3>1. R[i] = B[i - p - 1] /\ i - p - 1 \in 1 .. m - p - 1 /\ p + 1 + (i - p - 1) = i
      BY <1>1, <1>6, <2>3
    <3>2. B[i - p - 1] = E[p + 1 + (i - p - 1)]
      BY <1>3, <3>1
    <3> QED BY <1>1, <2>3, <3>1, <3>2
  <2> QED BY <1>1, <2>1, <2>2, <2>3
<1> HIDE DEF R
<1>8. R = [i \in 1 .. m |-> R[i]]
  BY <1>6
<1>9. R = [i \in 1 .. m |-> IF i = 1 THEN e ELSE E[IF i <= p + 1 THEN i - 1 ELSE i]]
  BY <1>7, <1>8
<1> QED BY <1>9 DEF R, A, B, C, m, MovedToFront, Turned

LEMMA InFront ==
    ASSUME NEW T, NEW E \in Seq(T), NEW e \in T, NEW n \in 0 .. Len(E)
    PROVE  <<e>> \o SubSeq(E, 1, n) = [i \in 1 .. n + 1 |-> IF i = 1 THEN e ELSE E[i - 1]]
<1> DEFINE A == SubSeq(E, 1, n)
           R == <<e>> \o A
<1>1. n \in Nat /\ A \in Seq(T) /\ Len(A) = n /\ \A i \in 1 .. n : A[i] = E[i]
  OBVIOUS
<1>2. <<e>> \in Seq(T) /\ Len(<<e>>) = 1 /\ <<e>>[1] = e
  OBVIOUS
<1> HIDE DEF A
<1>3. R \in Seq(T) /\ Len(R) = n + 1 /\ R[1] = e /\ \A i \in 2 .. n + 1 : R[i] = E[i - 1]
  BY <1>1, <1>2
<1> HIDE DEF R
<1>4. R = [i \in 1 .. n + 1 |-> R[i]]
  BY <1>3
<1>5. \A i \in 1 .. n + 1 : R[i] = IF i = 1 THEN e ELSE E[i - 1]
  BY <1>1, <1>3
<1>6. R = [i \in 1 .. n + 1 |-> IF i = 1 THEN e ELSE E[i - 1]]
  BY <1>4, <1>5
<1> QED BY <1>6 DEF R, A

\* A use of the caches is a use of the abstract list.
LEMMA UseIsAbstract ==
    ASSUME CachesInv, Entries = List!Entries, Entries' = List!Entries',
           NEW k \in Keys, NEW v \in Values, List!UpdateIndex(k), Used(k), DataUsed(k, v)
    PROVE  \E u \in Values : Abstract!Use(k, u)
<1> DEFINE p == List!UsedPlace(k)
           s == listIndices[p]
           u == IF Cached(k) THEN listData'[s] ELSE v
           E == List!Entries
           e == [key |-> k, val |-> u]
           T == [key : Keys, val : Values]
<1>1. PICK m \in 0 .. Ways : List!UsedPlaces = 0 .. m - 1
  BY UsedPlacesAreFirst
<1> DEFINE n == IF Cached(k) \/ m = Ways THEN m ELSE m + 1
<1>2. List!Entries' = [i \in 1 .. n |->
        IF i = 1 THEN [key |-> k, val |-> listData'[s]] ELSE E[IF i <= p + 1 THEN i - 1 ELSE i]]
  BY <1>1, EntriesTurn
<1>3. /\ E \in Seq(T) /\ Len(E) = m
      /\ \A i \in 1 .. m : E[i] = EntryAt(i - 1)
  BY <1>1, SequenceOfEntries
<1>4. /\ m \in Nat /\ Ways \in Nat \ {0} /\ WayIds = 0 .. Ways - 1 /\ m <= Ways
      /\ \A i \in WayIds : listKeys[i] # CACHE_MISS <=> i < m
  BY <1>1, WaysPositive, ListNames DEF WayIds, List!UsedPlaces
<1>5. p \in WayIds /\ s \in WayIds
  BY SamePlaceIsUsed DEF CachesInv, ListInv
<1>6. /\ k # CACHE_MISS
      /\ Cached(k) => p < m /\ listKeys[p] = k
      /\ ~Cached(k) => p = Ways - 1 /\ \A i \in WayIds : listKeys[i] # k
  BY <1>4, <1>5, KeyIsNotMiss, ListSearch, ListNames DEF List!Cached
<1>7. u \in Values /\ listData'[s] = u
  <2>1. CASE listData' = [listData EXCEPT ![s] = v]
    BY <1>5, <2>1 DEF CachesInv, ListInv
  <2>2. CASE Cached(k) /\ listData' = listData
    <3>1. Same(UsedWay(k), p) /\ UsedWay(k) \in WayIds
      BY <1>6, <2>2, FoundWay DEF UsedWay, Same
    <3>2. listData[s] \in Values
      BY <1>5, <3>1 DEF CachesInv, Agree
    <3> QED BY <2>2, <3>2
  <2> QED BY <2>1, <2>2 DEF DataUsed, List!Slot
<1> HIDE DEF p, s, u, E, n
<1>8. e \in T
  BY <1>7
<1>9. List!Entries' = [i \in 1 .. n |-> IF i = 1 THEN e ELSE E[IF i <= p + 1 THEN i - 1 ELSE i]]
  BY <1>2, <1>7
<1> HIDE DEF e, T
<1>10. Abstract!Entry(k, u) = e
  BY DEF Abstract!Entry, e
<1>11. CASE Cached(k)
  <2>1. n = m /\ p \in 0 .. m - 1 /\ p + 1 \in 1 .. m /\ (p + 1) - 1 = p /\ (p + 1) + 1 = p + 2
    BY <1>4, <1>5, <1>6, <1>11 DEF n
  <2>2. List!Entries' = <<e>> \o SubSeq(E, 1, p) \o SubSeq(E, p + 2, Len(E))
    <3>0. p \in 0 .. Len(E) - 1
      BY <1>3, <2>1
    <3>1. <<e>> \o SubSeq(E, 1, p) \o SubSeq(E, p + 2, Len(E))
            = [i \in 1 .. Len(E) |-> IF i = 1 THEN e ELSE E[IF i <= p + 1 THEN i - 1 ELSE i]]
      <4>1. E \in Seq(T) /\ e \in T
        BY <1>3, <1>8
      <4>2. MovedToFront(E, e, p) = Turned(E, e, p)
        BY <4>1, <3>0, ThreeParts
      <4> QED BY <4>2 DEF MovedToFront, Turned
    <3> QED BY <1>3, <1>9, <2>1, <3>1
  <2>3. E[p + 1].key = k
    BY <1>3, <1>6, <1>11, <2>1 DEF EntryAt
  <2>4. Entries = E /\ Entries' = <<e>> \o SubSeq(Entries, 1, (p + 1) - 1)
                                        \o SubSeq(Entries, (p + 1) + 1, Len(Entries))
    BY <2>1, <2>2 DEF E
  <2>5. Abstract!Again(k, u)
    BY <1>3, <1>10, <2>1, <2>3, <2>4 DEF Abstract!Again
  <2> QED BY <1>7, <2>5 DEF Abstract!Use
<1>12. CASE ~Cached(k)
  <2> DEFINE l == IF m < Ways THEN m ELSE Ways - 1
  <2>1. l \in 0 .. m /\ n = l + 1 /\ \A i \in 1 .. n : i <= p + 1
    BY <1>4, <1>6, <1>12 DEF n
  <2> HIDE DEF l
  <2>2. List!Entries' = [i \in 1 .. l + 1 |-> IF i = 1 THEN e ELSE E[i - 1]]
    BY <1>9, <2>1
  <2>3. List!Entries' = <<e>> \o SubSeq(E, 1, l)
    BY <1>3, <1>8, <2>1, <2>2, InFront
  <2>4. \A i \in 1 .. Len(E) : E[i].key # k
    <3>1. \A i \in 1 .. m : i - 1 \in WayIds
      BY <1>4
    <3> QED BY <1>3, <1>6, <1>12, <3>1 DEF EntryAt
  <2>5. Entries = E /\ Len(E) = m
    BY <1>3 DEF E
  <2>6. Abstract!First(k, u)
    BY <1>10, <2>3, <2>4, <2>5 DEF Abstract!First, l
  <2> QED BY <1>7, <2>6 DEF Abstract!Use
<1> QED BY <1>11, <1>12

\* Nothing is left of either list after clear().
LEMMA ClearIsAbstract ==
    ASSUME ClearAll, Entries' = List!Entries' PROVE Abstract!Clear
<1>1. List!UsedPlaces' = 0 .. 0 - 1
  BY ListNames DEF ClearAll, List!Clear, List!UsedPlaces
<1>2. List!Cardinality(List!UsedPlaces)' = 0
  BY <1>1, SizeOfPrefix DEF List!Cardinality
<1>3. List!Entries' = <<>>
  BY <1>2 DEF List!Entries
<1> QED BY <1>3 DEF Abstract!Clear

LEMMA InitIsAbstract == InitAll => Abstract!Init
<1> SUFFICES ASSUME InitAll PROVE Entries = <<>>
  BY DEF Abstract!Init
<1>1. UsedWays = {}
  BY DEF InitAll, Init, UsedWays
<1>2. Cardinality(UsedWays) = 0
  BY <1>1, FS_EmptySet
<1> QED BY <1>2 DEF Entries

(* The bit matrix of LRU8WayCache implements the list of entries in the    *)
(* order of use, for any number of ways: a hit moves its entry to the      *)
(* front, a miss of a full cache pushes out the one at the back.  It does  *)
(* because LRUCache does and both hold the same entries.                   *)
THEOREM MatrixRefinesLRU == LibrarySpec => MatrixImplementsLRU
<1>1. LibraryInit => Abstract!Init
  BY InitIsAbstract DEF LibraryInit
<1>2. CachesInv /\ ListAgreesWithMatrix /\ ListAgreesWithMatrix' /\ [LibraryNext]_libraryVars
        => [Abstract!Next]_Entries
  <2> SUFFICES ASSUME CachesInv, Entries = List!Entries, Entries' = List!Entries',
                      [NextAll]_allVars
               PROVE  [Abstract!Next]_Entries
    BY CachesStep DEF ListAgreesWithMatrix
  <2>1. ASSUME NEW k \in Keys, NEW v \in Values, InsertAll(k, v) \/ QueryOrUpdateAll(k, v)
        PROVE  \E u \in Values : Abstract!Use(k, u)
    BY <2>1, StepIsUse, UseIsAbstract
  <2>2. CASE ClearAll
    BY <2>2, ClearIsAbstract DEF Abstract!Next
  <2>3. CASE UNCHANGED allVars
    BY <2>3 DEF allVars, vars, Entries, UsedWays, NthUsed
  <2> QED BY <2>1, <2>2, <2>3 DEF NextAll, Abstract!Next
<1> QED BY <1>1, <1>2, CachesInvHolds, CachesAgree, PTL
        DEF LibrarySpec, MatrixImplementsLRU, Abstract!Spec
-----------------------------------------------------------------------------
(* ChunkAllocator.  The list is a path: it stays among the chunks nobody   *)
(* has, no two of them lead to the same chunk and none to the first, so    *)
(* taking the first leaves the others on it.                               *)
FreeChunks == Chunk!Chunks \ chunks.out

ChunksInv ==
    /\ chunks \in [mHead : Int, pNext : [Chunk!Chunks -> Int], out : SUBSET Chunk!Chunks]
    /\ chunks.mHead \in FreeChunks \cup {0}
    /\ \A c \in FreeChunks : /\ chunks.pNext[c] \in FreeChunks \cup {0}
                             /\ chunks.pNext[c] = chunks.mHead => chunks.mHead = 0
    /\ \A c, d \in FreeChunks :
         chunks.pNext[c] = chunks.pNext[d] /\ chunks.pNext[c] # 0 => c = d
    /\ \A S \in SUBSET Chunk!Chunks : Chunk!HoldsList(S) => FreeChunks \subseteq S

LEMMA ChunksAreNumbers == Chunk!Chunks \subseteq Nat /\ 0 \notin Chunk!Chunks
BY MemoryHasRoom DEF Chunk!Chunks

LEMMA InitChunksInv == Chunk!Init => ChunksInv
<1> SUFFICES ASSUME Chunk!Init PROVE ChunksInv
  OBVIOUS
<1>1. /\ chunks.mHead = 1 /\ chunks.out = {} /\ FreeChunks = Chunk!Chunks
      /\ chunks.pNext = [c \in Chunk!Chunks |-> IF c < NumChunks THEN c + 1 ELSE 0]
      /\ chunks \in [mHead : Int, pNext : [Chunk!Chunks -> Int], out : SUBSET Chunk!Chunks]
  BY MemoryHasRoom DEF Chunk!Init, Chunk!Chunks, FreeChunks
<1>2. chunks.mHead \in FreeChunks \cup {0}
  BY <1>1, MemoryHasRoom DEF Chunk!Chunks
<1>3. \A c \in FreeChunks : /\ chunks.pNext[c] \in FreeChunks \cup {0}
                            /\ chunks.pNext[c] = chunks.mHead => chunks.mHead = 0
  BY <1>1, MemoryHasRoom DEF Chunk!Chunks
<1>4. \A c, d \in FreeChunks :
        chunks.pNext[c] = chunks.pNext[d] /\ chunks.pNext[c] # 0 => c = d
  BY <1>1, MemoryHasRoom DEF Chunk!Chunks
<1>5. ASSUME NEW S \in SUBSET Chunk!Chunks, Chunk!HoldsList(S), NEW x \in Chunk!Chunks \ S
      PROVE  FALSE
  <2>1. Chunk!Chunks \ S \in SUBSET Nat /\ Chunk!Chunks \ S # {}
    BY ChunksAreNumbers, <1>5
  <2>2. PICK m \in Chunk!Chunks \ S : \A n \in Chunk!Chunks \ S : m <= n
    BY <2>1, LeastNumber
  <2>3. m # 1
    BY <1>1, <1>5, <2>2 DEF Chunk!HoldsList
  <2>4. m - 1 \in Chunk!Chunks /\ m - 1 < NumChunks /\ (m - 1) + 1 = m /\ ~(m <= m - 1)
    BY <2>2, <2>3, MemoryHasRoom DEF Chunk!Chunks
  <2>5. m - 1 \in S
    BY <2>2, <2>4
  <2>6. chunks.pNext[m - 1] = m
    BY <1>1, <2>4
  <2> QED BY <1>5, <2>2, <2>5, <2>6 DEF Chunk!HoldsList
<1> QED BY <1>1, <1>2, <1>3, <1>4, <1>5 DEF ChunksInv

LEMMA ChunkAllocated == ChunksInv /\ Chunk!Allocate => ChunksInv'
<1> SUFFICES ASSUME ChunksInv, Chunk!Allocate PROVE ChunksInv'
  OBVIOUS
<1> DEFINE h == chunks.mHead
<1>1. h \in FreeChunks /\ h # 0 /\ h \in Chunk!Chunks
  BY DEF ChunksInv, Chunk!Allocate, FreeChunks
<1>2. /\ chunks'.mHead = chunks.pNext[h] /\ chunks'.pNext = chunks.pNext
      /\ chunks'.out = chunks.out \cup {h} /\ FreeChunks' = FreeChunks \ {h}
      /\ chunks' \in [mHead : Int, pNext : [Chunk!Chunks -> Int], out : SUBSET Chunk!Chunks]
  BY <1>1 DEF ChunksInv, Chunk!Allocate, FreeChunks
<1>3. \A c \in FreeChunks : chunks.pNext[c] # h
  BY <1>1 DEF ChunksInv
<1>4. ASSUME NEW S \in SUBSET Chunk!Chunks, Chunk!HoldsList(S)' PROVE FreeChunks' \subseteq S
  <2>1. Chunk!HoldsList(S \cup {h})
    BY <1>1, <1>2, <1>4 DEF Chunk!HoldsList
  <2>2. FreeChunks \subseteq S \cup {h}
    BY <1>1, <2>1 DEF ChunksInv
  <2> QED BY <1>2, <2>2
<1>5. chunks'.mHead \in (FreeChunks \cup {0})'
  BY <1>1, <1>2, <1>3 DEF ChunksInv
<1>6. \A c \in FreeChunks' : /\ chunks'.pNext[c] \in (FreeChunks \cup {0})'
                             /\ chunks'.pNext[c] = chunks'.mHead => chunks'.mHead = 0
  BY <1>1, <1>2, <1>3 DEF ChunksInv
<1>7. \A c, d \in FreeChunks' :
        chunks'.pNext[c] = chunks'.pNext[d] /\ chunks'.pNext[c] # 0 => c = d
  BY <1>2 DEF ChunksInv
<1> QED BY <1>2, <1>4, <1>5, <1>6, <1>7 DEF ChunksInv

LEMMA ChunkWritten == \A c : ChunksInv /\ Chunk!Write(c) => ChunksInv'
<1> SUFFICES ASSUME NEW c, ChunksInv, Chunk!Write(c) PROVE ChunksInv'
  OBVIOUS
<1>1. /\ c \in Chunk!Chunks /\ c \notin FreeChunks
      /\ chunks'.mHead = chunks.mHead /\ chunks'.out = chunks.out /\ FreeChunks' = FreeChunks
      /\ \A d \in Chunk!Chunks \ {c} : chunks'.pNext[d] = chunks.pNext[d]
      /\ chunks' \in [mHead : Int, pNext : [Chunk!Chunks -> Int], out : SUBSET Chunk!Chunks]
  BY DEF ChunksInv, Chunk!Write, Chunk!Written, FreeChunks
<1>2. \A d \in FreeChunks : d \in Chunk!Chunks /\ chunks'.pNext[d] = chunks.pNext[d]
  BY <1>1 DEF FreeChunks
<1>3. ASSUME NEW S \in SUBSET Chunk!Chunks, Chunk!HoldsList(S)' PROVE FreeChunks' \subseteq S
  <2>1. Chunk!HoldsList(S \cap FreeChunks)
    <3>1. chunks.mHead \in FreeChunks => chunks.mHead \in S
      BY <1>1, <1>3 DEF Chunk!HoldsList, FreeChunks
    <3>2. \A d \in S \cap FreeChunks : chunks.pNext[d] \in FreeChunks => chunks.pNext[d] \in S
      BY <1>2, <1>3 DEF Chunk!HoldsList, FreeChunks
    <3> QED BY <3>1, <3>2, ChunksAreNumbers DEF Chunk!HoldsList, ChunksInv
  <2>2. FreeChunks \subseteq S \cap FreeChunks
    BY <2>1 DEF ChunksInv
  <2> QED BY <1>1, <2>2
<1> QED BY <1>1, <1>2, <1>3 DEF ChunksInv

LEMMA ChunkFreed == \A c : ChunksInv /\ Chunk!Free(c) => ChunksInv'
<1> SUFFICES ASSUME NEW c, ChunksInv, Chunk!Free(c) PROVE ChunksInv'
  OBVIOUS
<1>1. /\ c \in Chunk!Chunks /\ c \notin FreeChunks /\ c # 0
      /\ chunks'.mHead = c /\ FreeChunks' = FreeChunks \cup {c}
      /\ chunks'.pNext[c] = chunks.mHead
      /\ \A d \in Chunk!Chunks \ {c} : chunks'.pNext[d] = chunks.pNext[d]
      /\ chunks' \in [mHead : Int, pNext : [Chunk!Chunks -> Int], out : SUBSET Chunk!Chunks]
  <2>1. /\ c \in chunks.out /\ chunks.out \subseteq Chunk!Chunks
        /\ chunks.pNext \in [Chunk!Chunks -> Int] /\ chunks.mHead \in Int
        /\ chunks \in [mHead : Int, pNext : [Chunk!Chunks -> Int], out : SUBSET Chunk!Chunks]
    BY DEF ChunksInv, Chunk!Free
  <2>2. /\ chunks'.mHead = c /\ chunks'.out = chunks.out \ {c}
        /\ chunks'.pNext = [chunks.pNext EXCEPT ![c] = chunks.mHead]
    BY <2>1 DEF Chunk!Free
  <2>4. c \in Chunk!Chunks /\ c # 0
    BY <2>1, ChunksAreNumbers
  <2>3. chunks' \in [mHead : Int, pNext : [Chunk!Chunks -> Int], out : SUBSET Chunk!Chunks]
    <3>1. chunks' = [mHead |-> chunks'.mHead, pNext |-> chunks'.pNext, out |-> chunks'.out]
      BY <2>1 DEF Chunk!Free
    <3>2. /\ c \in Int /\ [chunks.pNext EXCEPT ![c] = chunks.mHead] \in [Chunk!Chunks -> Int]
          /\ chunks.out \ {c} \in SUBSET Chunk!Chunks
      BY <2>1, <2>4, ChunksAreNumbers
    <3> QED BY <2>2, <3>1, <3>2
  <2> QED BY <2>1, <2>2, <2>3, <2>4 DEF FreeChunks
<1>2. \A d \in FreeChunks : d \in Chunk!Chunks /\ chunks'.pNext[d] = chunks.pNext[d]
  BY <1>1 DEF FreeChunks
<1>3. ASSUME NEW S \in SUBSET Chunk!Chunks, Chunk!HoldsList(S)' PROVE FreeChunks' \subseteq S
  <2>1. c \in S
    BY <1>1, <1>3 DEF Chunk!HoldsList
  <2>2. Chunk!HoldsList(S \cap FreeChunks)
    BY <1>1, <1>2, <1>3, <2>1, ChunksAreNumbers DEF Chunk!HoldsList, ChunksInv
  <2>3. FreeChunks \subseteq S \cap FreeChunks
    BY <2>2 DEF ChunksInv
  <2> QED BY <1>1, <2>1, <2>3
<1>4. \A d \in FreeChunks' : /\ chunks'.pNext[d] \in (FreeChunks \cup {0})'
                             /\ chunks'.pNext[d] = chunks'.mHead => chunks'.mHead = 0
  BY <1>1, <1>2 DEF ChunksInv
<1>5. \A d, e \in FreeChunks' :
        chunks'.pNext[d] = chunks'.pNext[e] /\ chunks'.pNext[d] # 0 => d = e
  BY <1>1, <1>2 DEF ChunksInv
<1> QED BY <1>1, <1>3, <1>4, <1>5 DEF ChunksInv

LEMMA ChunksInvStep == ChunksInv /\ [Chunk!Next]_chunks => ChunksInv'
<1>1. ChunksInv /\ UNCHANGED chunks => ChunksInv'
  BY DEF ChunksInv, FreeChunks, Chunk!HoldsList
<1> QED BY <1>1, ChunkAllocated, ChunkWritten, ChunkFreed DEF Chunk!Next

LEMMA ChunksHandedOut == ChunksInv => Chunk!ChunksAreHandedOutOnce
<1> SUFFICES ASSUME ChunksInv PROVE Chunk!Listed = FreeChunks /\ chunks.out \subseteq Chunk!Chunks
  BY DEF Chunk!ChunksAreHandedOutOnce, FreeChunks
<1>1. FreeChunks \in SUBSET Chunk!Chunks /\ Chunk!HoldsList(FreeChunks)
  BY ChunksAreNumbers DEF ChunksInv, Chunk!HoldsList, FreeChunks
<1> QED BY <1>1 DEF ChunksInv, Chunk!Listed

-----------------------------------------------------------------------------
(* ConstrainedAllocator over BlockAllocator.  A place is asked for by one  *)
(* of the two allocators, and the source has given it in whole blocks of   *)
(* what was asked.                                                         *)
Sizes == UNION {[D -> Nat] : D \in SUBSET Spots}

Held(w, a) == DOMAIN w.asked[a]

Counted(w) ==
    /\ \A a \in Wrappers!Allocators :
         /\ IsFiniteSet(Wrappers!BytesAt(w.asked[a]))
         /\ w.mBytesAllocated[a] = Cardinality(Wrappers!BytesAt(w.asked[a]))
         /\ w.mBytesAllocated[a] <= w.mMaxAllocSize[a]
    /\ ~w.lost

WrapInv(w) ==
    /\ w \in [mBytesAllocated : [Wrappers!Allocators -> Int],
              mMaxAllocSize : [Wrappers!Allocators -> Int],
              asked : [Wrappers!Allocators -> Sizes], given : Sizes, lost : BOOLEAN]
    /\ \A a \in Wrappers!Allocators : \A p \in Held(w, a) :
         p \in DOMAIN w.given /\ w.given[p] = Wrappers!Rounded(w.asked[a][p])
    /\ Held(w, 1) \cap Held(w, 2) = {}
    /\ Counted(w)

LEMMA BytesOfOne ==
    ASSUME NEW p, NEW n \in Nat
    PROVE  IsFiniteSet({p} \X (1 .. n)) /\ Cardinality({p} \X (1 .. n)) = n
<1>1. IsFiniteSet({p}) /\ Cardinality({p}) = 1
  BY FS_Singleton
<1>2. IsFiniteSet(1 .. n) /\ Cardinality(1 .. n) = n
  BY FS_Interval
<1>3. IsFiniteSet({p} \X (1 .. n)) /\ Cardinality({p} \X (1 .. n)) = 1 * n
  <2> DEFINE S == {p}
             T == 1 .. n
  <2> HIDE DEF S, T
  <2>1. IsFiniteSet(S) /\ Cardinality(S) = 1 /\ IsFiniteSet(T) /\ Cardinality(T) = n
    BY <1>1, <1>2 DEF S, T
  <2>2. IsFiniteSet(S \X T) /\ Cardinality(S \X T) = Cardinality(S) * Cardinality(T)
    BY <2>1, FS_Product
  <2> QED BY <2>1, <2>2 DEF S, T
<1> QED BY <1>3

\* Bytes at one more place, or at one less
LEMMA BytesMore ==
    ASSUME NEW f \in Sizes, IsFiniteSet(Wrappers!BytesAt(f)), NEW p \in Spots \ DOMAIN f,
           NEW n \in Nat
    PROVE  /\ Wrappers!With(f, p, n) \in Sizes
           /\ IsFiniteSet(Wrappers!BytesAt(Wrappers!With(f, p, n)))
           /\ Cardinality(Wrappers!BytesAt(Wrappers!With(f, p, n)))
                = Cardinality(Wrappers!BytesAt(f)) + n
<1> DEFINE g == Wrappers!With(f, p, n)
           A == Wrappers!BytesAt(f)
           B == {p} \X (1 .. n)
<1>1. /\ DOMAIN f \in SUBSET Spots /\ DOMAIN g = DOMAIN f \cup {p} /\ g[p] = n
      /\ \A q \in DOMAIN f : g[q] = f[q] /\ q # p /\ f[q] \in Nat
      /\ g = [q \in DOMAIN f \cup {p} |-> IF q = p THEN n ELSE f[q]]
  BY DEF Sizes, Wrappers!With
<1>2. g \in [DOMAIN f \cup {p} -> Nat]
  BY <1>1
<1>3. g \in Sizes
  BY <1>1, <1>2 DEF Sizes
<1> HIDE DEF g
<1>4. Wrappers!BytesAt(g) = A \cup B
  BY <1>1 DEF Wrappers!BytesAt
<1>5. A \cap B = {}
  BY <1>1 DEF Wrappers!BytesAt
<1>6. IsFiniteSet(B) /\ Cardinality(B) = n
  BY BytesOfOne
<1> HIDE DEF A, B
<1>7. IsFiniteSet(A) /\ Cardinality(A) \in Nat
  BY FS_CardinalityType DEF A
<1>8. /\ IsFiniteSet(A \cup B)
      /\ Cardinality(A \cup B) = Cardinality(A) + Cardinality(B) - Cardinality(A \cap B)
  BY <1>6, <1>7, FS_Union
<1>9. Cardinality(A \cap B) = 0
  BY <1>5, FS_EmptySet
<1>10. Cardinality(Wrappers!BytesAt(g)) = Cardinality(A) + n
  BY <1>4, <1>6, <1>7, <1>8, <1>9
<1> QED BY <1>3, <1>4, <1>8, <1>10 DEF g, A

LEMMA BytesLess ==
    ASSUME NEW f \in Sizes, IsFiniteSet(Wrappers!BytesAt(f)), NEW p \in DOMAIN f
    PROVE  /\ Wrappers!Without(f, p) \in Sizes
           /\ DOMAIN Wrappers!Without(f, p) = DOMAIN f \ {p}
           /\ \A q \in DOMAIN f \ {p} : Wrappers!Without(f, p)[q] = f[q]
           /\ IsFiniteSet(Wrappers!BytesAt(Wrappers!Without(f, p)))
           /\ Cardinality(Wrappers!BytesAt(Wrappers!Without(f, p)))
                = Cardinality(Wrappers!BytesAt(f)) - f[p]
<1> DEFINE g == Wrappers!Without(f, p)
<1>1. /\ DOMAIN f \in SUBSET Spots /\ f[p] \in Nat /\ f = [q \in DOMAIN f |-> f[q]]
      /\ \A q \in DOMAIN f : f[q] \in Nat
  BY DEF Sizes
<1>2. /\ g \in [DOMAIN f \ {p} -> Nat] /\ DOMAIN f \ {p} \in SUBSET Spots
      /\ \A q \in DOMAIN f \ {p} : g[q] = f[q]
  BY <1>1 DEF Wrappers!Without
<1>3. g \in Sizes /\ DOMAIN g = DOMAIN f \ {p}
  BY <1>2 DEF Sizes
<1> HIDE DEF g
<1>4. Wrappers!With(g, p, f[p]) = f
  BY <1>1, <1>2, <1>3 DEF Wrappers!With
<1>5. Wrappers!BytesAt(g) \subseteq Wrappers!BytesAt(f)
  BY <1>2, <1>3 DEF Wrappers!BytesAt
<1>6. IsFiniteSet(Wrappers!BytesAt(g))
  BY <1>5, FS_Subset
<1>7. p \in Spots \ DOMAIN g
  BY <1>1, <1>3
<1>8. Cardinality(Wrappers!BytesAt(f)) = Cardinality(Wrappers!BytesAt(g)) + f[p]
  BY <1>1, <1>3, <1>4, <1>6, <1>7, BytesMore
<1>9. Cardinality(Wrappers!BytesAt(g)) \in Nat
  BY <1>6, FS_CardinalityType
<1>10. Cardinality(Wrappers!BytesAt(g)) = Cardinality(Wrappers!BytesAt(f)) - f[p]
  BY <1>1, <1>8, <1>9
<1> QED BY <1>2, <1>3, <1>6, <1>10 DEF g

\* The members of the records
LEMMA AllocatedMembers ==
    ASSUME NEW w, WrapInv(w), NEW a \in Wrappers!Allocators, NEW p, NEW n
    PROVE  LET v == Wrappers!Allocated(w, a, p, n)
           IN  /\ v = [mBytesAllocated |-> v.mBytesAllocated, mMaxAllocSize |-> w.mMaxAllocSize,
                       asked |-> v.asked, given |-> v.given, lost |-> w.lost]
               /\ v.mBytesAllocated = [w.mBytesAllocated EXCEPT ![a] = @ + n]
               /\ v.asked = [w.asked EXCEPT ![a] = Wrappers!With(@, p, n)]
               /\ v.given = Wrappers!With(w.given, p, Wrappers!Rounded(n))
<1> DEFINE B == [w.mBytesAllocated EXCEPT ![a] = @ + n]
           K == [w.asked EXCEPT ![a] = Wrappers!With(@, p, n)]
           G == Wrappers!With(w.given, p, Wrappers!Rounded(n))
<1>1. PICK b, m, k, g, l :
        w = [mBytesAllocated |-> b, mMaxAllocSize |-> m, asked |-> k, given |-> g, lost |-> l]
  BY DEF WrapInv
<1>2. Wrappers!Allocated(w, a, p, n) = [w EXCEPT !.mBytesAllocated = B, !.asked = K, !.given = G]
  BY DEF Wrappers!Allocated
<1> HIDE DEF B, K, G
<1>3. Wrappers!Allocated(w, a, p, n) =
        [mBytesAllocated |-> B, mMaxAllocSize |-> m, asked |-> K, given |-> G, lost |-> l]
  BY <1>1, <1>2
<1>4. w.mMaxAllocSize = m /\ w.lost = l
  BY <1>1
<1> QED BY <1>3, <1>4 DEF B, K, G

LEMMA AllocatedKeepsCount ==
    ASSUME NEW w, WrapInv(w), NEW a \in Wrappers!Allocators, NEW p \in Spots \ DOMAIN w.given,
           NEW n \in Nat, w.mBytesAllocated[a] + n <= w.mMaxAllocSize[a]
    PROVE  /\ WrapInv(Wrappers!Allocated(w, a, p, n))
           /\ \A q \in Held(w, a) :
                /\ q # p /\ q \in Held(Wrappers!Allocated(w, a, p, n), a)
                /\ Wrappers!Allocated(w, a, p, n).asked[a][q] = w.asked[a][q]
<1> DEFINE v == Wrappers!Allocated(w, a, p, n)
           f == w.asked[a]
           g == Wrappers!With(f, p, n)
           h == Wrappers!With(w.given, p, Wrappers!Rounded(n))
<1>1. /\ v = [mBytesAllocated |-> v.mBytesAllocated, mMaxAllocSize |-> w.mMaxAllocSize,
              asked |-> v.asked, given |-> v.given, lost |-> w.lost]
      /\ v.mBytesAllocated = [w.mBytesAllocated EXCEPT ![a] = @ + n]
      /\ v.asked = [w.asked EXCEPT ![a] = g] /\ v.given = h
  BY AllocatedMembers
<1>2. /\ w.mBytesAllocated \in [Wrappers!Allocators -> Int]
      /\ w.mMaxAllocSize \in [Wrappers!Allocators -> Int]
      /\ w.asked \in [Wrappers!Allocators -> Sizes] /\ w.given \in Sizes /\ w.lost \in BOOLEAN
      /\ f \in Sizes
  BY DEF WrapInv
<1>3. IsFiniteSet(Wrappers!BytesAt(f)) /\ w.mBytesAllocated[a] = Cardinality(Wrappers!BytesAt(f))
  BY DEF WrapInv, Counted
<1>4. \A b \in Wrappers!Allocators : p \notin Held(w, b)
  BY DEF WrapInv
<1>5. /\ g \in Sizes /\ IsFiniteSet(Wrappers!BytesAt(g))
      /\ Cardinality(Wrappers!BytesAt(g)) = Cardinality(Wrappers!BytesAt(f)) + n
  BY <1>2, <1>3, <1>4, BytesMore DEF Held
<1>6. /\ DOMAIN g = DOMAIN f \cup {p} /\ g[p] = n /\ \A q \in DOMAIN f : q # p /\ g[q] = f[q]
      /\ DOMAIN h = DOMAIN w.given \cup {p} /\ h[p] = Wrappers!Rounded(n)
      /\ \A q \in DOMAIN w.given : h[q] = w.given[q]
  BY <1>4 DEF Wrappers!With, Held
<1>7. Wrappers!Rounded(n) \in Nat
  BY MemoryHasRoom DEF Wrappers!Rounded
<1>8. h \in Sizes
  <2>1. DOMAIN w.given \in SUBSET Spots /\ \A q \in DOMAIN w.given : w.given[q] \in Nat
    BY <1>2 DEF Sizes
  <2>2. h \in [DOMAIN w.given \cup {p} -> Nat]
    BY <1>7, <2>1 DEF Wrappers!With
  <2> QED BY <2>1, <2>2 DEF Sizes
<1> HIDE DEF v, g, h
<1>9. v \in [mBytesAllocated : [Wrappers!Allocators -> Int],
             mMaxAllocSize : [Wrappers!Allocators -> Int],
             asked : [Wrappers!Allocators -> Sizes], given : Sizes, lost : BOOLEAN]
  <2>1. v.mBytesAllocated \in [Wrappers!Allocators -> Int]
        /\ v.asked \in [Wrappers!Allocators -> Sizes]
    BY <1>1, <1>2, <1>5
  <2> QED BY <1>1, <1>2, <1>8, <2>1
<1>10. \A b \in Wrappers!Allocators : Held(v, b) = IF b = a THEN Held(w, b) \cup {p} ELSE Held(w, b)
  BY <1>1, <1>2, <1>6 DEF Held
<1>11. ASSUME NEW b \in Wrappers!Allocators, NEW q \in Held(v, b)
       PROVE  q \in DOMAIN v.given /\ v.given[q] = Wrappers!Rounded(v.asked[b][q])
  <2>1. CASE b = a /\ q = p
    BY <1>1, <1>2, <1>6, <2>1
  <2>2. CASE q \in Held(w, b)
    <3>1. v.asked[b][q] = w.asked[b][q]
      BY <1>1, <1>2, <1>6, <2>2 DEF Held
    <3>2. q \in DOMAIN w.given /\ w.given[q] = Wrappers!Rounded(w.asked[b][q])
      BY <2>2 DEF WrapInv
    <3> QED BY <1>1, <1>6, <3>1, <3>2
  <2> QED BY <1>10, <2>1, <2>2
<1>12. Held(v, 1) \cap Held(v, 2) = {}
  BY <1>4, <1>10 DEF WrapInv, Wrappers!Allocators
<1>13. Counted(v)
  <2>1. v.mBytesAllocated[a] = Cardinality(Wrappers!BytesAt(f)) + n /\ v.asked[a] = g
    BY <1>1, <1>2, <1>3
  <2>2. v.mMaxAllocSize = w.mMaxAllocSize /\ v.lost = w.lost
    BY <1>1
  <2>3. /\ IsFiniteSet(Wrappers!BytesAt(v.asked[a]))
        /\ v.mBytesAllocated[a] = Cardinality(Wrappers!BytesAt(v.asked[a]))
        /\ v.mBytesAllocated[a] <= v.mMaxAllocSize[a]
    BY <1>3, <1>5, <2>1, <2>2
  <2>4. \A b \in Wrappers!Allocators \ {a} :
          v.mBytesAllocated[b] = w.mBytesAllocated[b] /\ v.asked[b] = w.asked[b]
    BY <1>1, <1>2
  <2> QED BY <2>2, <2>3, <2>4 DEF WrapInv, Counted
<1>14. \A q \in Held(w, a) : q # p /\ q \in Held(v, a) /\ v.asked[a][q] = w.asked[a][q]
  BY <1>1, <1>2, <1>6, <1>10 DEF Held
<1> QED BY <1>9, <1>11, <1>12, <1>13, <1>14 DEF WrapInv, v

LEMMA FreedMembers ==
    ASSUME NEW w, WrapInv(w), NEW a \in Wrappers!Allocators, NEW p, NEW n
    PROVE  LET v == Wrappers!Freed(w, a, p, n)
           IN  /\ v = [mBytesAllocated |-> v.mBytesAllocated, mMaxAllocSize |-> w.mMaxAllocSize,
                       asked |-> v.asked, given |-> v.given, lost |-> v.lost]
               /\ v.mBytesAllocated = [w.mBytesAllocated EXCEPT ![a] = @ - n]
               /\ v.asked = [w.asked EXCEPT ![a] = Wrappers!Without(@, p)]
               /\ v.given = Wrappers!Without(w.given, p)
               /\ v.lost = (w.lost \/ Wrappers!Rounded(n) # w.given[p])
<1> DEFINE B == [w.mBytesAllocated EXCEPT ![a] = @ - n]
           K == [w.asked EXCEPT ![a] = Wrappers!Without(@, p)]
           G == Wrappers!Without(w.given, p)
           L == w.lost \/ Wrappers!Rounded(n) # w.given[p]
<1>1. PICK b, m, k, g, l :
        w = [mBytesAllocated |-> b, mMaxAllocSize |-> m, asked |-> k, given |-> g, lost |-> l]
  BY DEF WrapInv
<1>2. Wrappers!Freed(w, a, p, n) =
        [w EXCEPT !.mBytesAllocated = B, !.asked = K, !.given = G, !.lost = L]
  BY DEF Wrappers!Freed
<1> HIDE DEF B, K, G, L
<1>3. Wrappers!Freed(w, a, p, n) =
        [mBytesAllocated |-> B, mMaxAllocSize |-> m, asked |-> K, given |-> G, lost |-> L]
  BY <1>1, <1>2
<1>4. w.mMaxAllocSize = m
  BY <1>1
<1> QED BY <1>3, <1>4 DEF B, K, G, L

LEMMA FreedKeepsCount ==
    ASSUME NEW w, WrapInv(w), NEW a \in Wrappers!Allocators, NEW p \in Held(w, a)
    PROVE  WrapInv(Wrappers!Freed(w, a, p, w.asked[a][p]))
<1> DEFINE f == w.asked[a]
           n == f[p]
           v == Wrappers!Freed(w, a, p, n)
           g == Wrappers!Without(f, p)
           h == Wrappers!Without(w.given, p)
<1>1. /\ v = [mBytesAllocated |-> v.mBytesAllocated, mMaxAllocSize |-> w.mMaxAllocSize,
              asked |-> v.asked, given |-> v.given, lost |-> v.lost]
      /\ v.mBytesAllocated = [w.mBytesAllocated EXCEPT ![a] = @ - n]
      /\ v.asked = [w.asked EXCEPT ![a] = g] /\ v.given = h
      /\ v.lost = (w.lost \/ Wrappers!Rounded(n) # w.given[p])
  BY FreedMembers
<1>2. /\ w.mBytesAllocated \in [Wrappers!Allocators -> Int]
      /\ w.mMaxAllocSize \in [Wrappers!Allocators -> Int]
      /\ w.asked \in [Wrappers!Allocators -> Sizes] /\ w.given \in Sizes /\ w.lost \in BOOLEAN
      /\ f \in Sizes
  BY DEF WrapInv
<1>3. /\ IsFiniteSet(Wrappers!BytesAt(f)) /\ w.mBytesAllocated[a] = Cardinality(Wrappers!BytesAt(f))
      /\ w.mBytesAllocated[a] <= w.mMaxAllocSize[a] /\ ~w.lost
  BY DEF WrapInv, Counted
<1>4. /\ p \in DOMAIN f /\ n \in Nat /\ p \in DOMAIN w.given
      /\ w.given[p] = Wrappers!Rounded(n)
      /\ \A b \in Wrappers!Allocators : p \in Held(w, b) => b = a
  BY <1>2 DEF WrapInv, Held, Sizes, Wrappers!Allocators
<1>5. /\ g \in Sizes /\ IsFiniteSet(Wrappers!BytesAt(g))
      /\ DOMAIN g = DOMAIN f \ {p} /\ \A q \in DOMAIN f \ {p} : g[q] = f[q]
      /\ Cardinality(Wrappers!BytesAt(g)) = Cardinality(Wrappers!BytesAt(f)) - n
  BY <1>2, <1>3, <1>4, BytesLess
<1>6. /\ DOMAIN h = DOMAIN w.given \ {p} /\ \A q \in DOMAIN w.given \ {p} : h[q] = w.given[q]
  BY DEF Wrappers!Without
<1>7. h \in Sizes
  <2>1. DOMAIN w.given \in SUBSET Spots /\ \A q \in DOMAIN w.given : w.given[q] \in Nat
    BY <1>2 DEF Sizes
  <2>2. h \in [DOMAIN w.given \ {p} -> Nat]
    BY <2>1 DEF Wrappers!Without
  <2> QED BY <2>1, <2>2 DEF Sizes
<1> HIDE DEF v, g, h, n
<1>8. v.mBytesAllocated \in [Wrappers!Allocators -> Int]
      /\ v.asked \in [Wrappers!Allocators -> Sizes]
  BY <1>1, <1>2, <1>4, <1>5
<1>9. ~v.lost
  BY <1>1, <1>3, <1>4
<1>10. v \in [mBytesAllocated : [Wrappers!Allocators -> Int],
              mMaxAllocSize : [Wrappers!Allocators -> Int],
              asked : [Wrappers!Allocators -> Sizes], given : Sizes, lost : BOOLEAN]
  <2>1. v.given \in Sizes /\ v.lost \in BOOLEAN
    BY <1>1, <1>7, <1>2
  <2>2. v = [mBytesAllocated |-> v.mBytesAllocated, mMaxAllocSize |-> w.mMaxAllocSize,
             asked |-> v.asked, given |-> v.given, lost |-> v.lost]
    BY <1>1
  <2> QED BY <1>2, <1>8, <2>1, <2>2
<1>11. \A b \in Wrappers!Allocators : Held(v, b) = Held(w, b) \ {p}
  BY <1>1, <1>2, <1>4, <1>5 DEF Held
<1>12. ASSUME NEW b \in Wrappers!Allocators, NEW q \in Held(v, b)
       PROVE  q \in DOMAIN v.given /\ v.given[q] = Wrappers!Rounded(v.asked[b][q])
  <2>1. q \in Held(w, b) /\ q # p
    BY <1>11
  <2>2. v.asked[b][q] = w.asked[b][q]
    BY <1>1, <1>2, <1>5, <2>1 DEF Held
  <2>3. q \in DOMAIN w.given /\ w.given[q] = Wrappers!Rounded(w.asked[b][q])
    BY <2>1 DEF WrapInv
  <2> QED BY <1>1, <1>6, <2>1, <2>2, <2>3
<1>13. Held(v, 1) \cap Held(v, 2) = {}
  BY <1>11 DEF WrapInv, Wrappers!Allocators
<1>14. Counted(v)
  <2>1. v.mBytesAllocated[a] = Cardinality(Wrappers!BytesAt(f)) - n /\ v.asked[a] = g
    BY <1>1, <1>2, <1>3
  <2>2. v.mMaxAllocSize = w.mMaxAllocSize
    BY <1>1
  <2>3. w.mBytesAllocated[a] \in Int /\ w.mMaxAllocSize[a] \in Int
    BY <1>2
  <2>4. /\ IsFiniteSet(Wrappers!BytesAt(v.asked[a]))
        /\ v.mBytesAllocated[a] = Cardinality(Wrappers!BytesAt(v.asked[a]))
        /\ v.mBytesAllocated[a] <= v.mMaxAllocSize[a]
    BY <1>3, <1>4, <1>5, <2>1, <2>2, <2>3
  <2>5. \A b \in Wrappers!Allocators \ {a} :
          v.mBytesAllocated[b] = w.mBytesAllocated[b] /\ v.asked[b] = w.asked[b]
    BY <1>1, <1>2
  <2> QED BY <1>9, <2>2, <2>4, <2>5 DEF WrapInv, Counted
<1> QED BY <1>10, <1>12, <1>13, <1>14 DEF WrapInv, v, n

LEMMA HandedKeepsCount ==
    ASSUME WrapInv(wrapped), NEW a \in Wrappers!Allocators,
           NEW from \in Wrappers!Allocators \ {a}, Wrappers!Move(a, from)
    PROVE  WrapInv(wrapped')
<1> DEFINE w == wrapped
           v == wrapped'
<1>1. /\ w.mBytesAllocated \in [Wrappers!Allocators -> Int]
      /\ w.mMaxAllocSize \in [Wrappers!Allocators -> Int]
      /\ w.asked \in [Wrappers!Allocators -> Sizes] /\ w.given \in Sizes /\ w.lost \in BOOLEAN
      /\ w = [mBytesAllocated |-> w.mBytesAllocated, mMaxAllocSize |-> w.mMaxAllocSize,
              asked |-> w.asked, given |-> w.given, lost |-> w.lost]
  BY DEF WrapInv
<1>2. /\ v = [mBytesAllocated |-> v.mBytesAllocated, mMaxAllocSize |-> v.mMaxAllocSize,
              asked |-> v.asked, given |-> w.given, lost |-> w.lost]
      /\ v.mBytesAllocated = [w.mBytesAllocated EXCEPT ![a] = w.mBytesAllocated[from], ![from] = 0]
      /\ v.mMaxAllocSize = [w.mMaxAllocSize EXCEPT ![a] = w.mMaxAllocSize[from], ![from] = 0]
      /\ v.asked = [w.asked EXCEPT ![a] = w.asked[from], ![from] = Wrappers!NoBlocks]
  BY <1>1 DEF Wrappers!Move, Wrappers!Handed
<1>3. /\ Wrappers!NoBlocks \in Sizes /\ DOMAIN Wrappers!NoBlocks = {}
      /\ Wrappers!BytesAt(Wrappers!NoBlocks) = {}
  BY DEF Wrappers!NoBlocks, Sizes, Wrappers!BytesAt
<1>4. IsFiniteSet({}) /\ Cardinality({}) = 0
  BY FS_EmptySet
<1>5. Wrappers!Allocators = {a, from} /\ a # from
  BY DEF Wrappers!Allocators
<1> HIDE DEF v, w
<1>6. /\ v.mBytesAllocated[a] = w.mBytesAllocated[from] /\ v.mBytesAllocated[from] = 0
      /\ v.mMaxAllocSize[a] = w.mMaxAllocSize[from] /\ v.mMaxAllocSize[from] = 0
      /\ v.asked[a] = w.asked[from] /\ v.asked[from] = Wrappers!NoBlocks
      /\ v.given = w.given /\ v.lost = w.lost
  BY <1>1, <1>2, <1>5
<1>7. v \in [mBytesAllocated : [Wrappers!Allocators -> Int],
             mMaxAllocSize : [Wrappers!Allocators -> Int],
             asked : [Wrappers!Allocators -> Sizes], given : Sizes, lost : BOOLEAN]
  <2>1. /\ v.mBytesAllocated \in [Wrappers!Allocators -> Int]
        /\ v.mMaxAllocSize \in [Wrappers!Allocators -> Int]
        /\ v.asked \in [Wrappers!Allocators -> Sizes]
    <3>1. v.mBytesAllocated \in [Wrappers!Allocators -> Int]
      BY <1>1, <1>2
    <3>2. v.mMaxAllocSize \in [Wrappers!Allocators -> Int]
      BY <1>1, <1>2
    <3>3. v.asked \in [Wrappers!Allocators -> Sizes]
      BY <1>1, <1>2, <1>3
    <3> QED BY <3>1, <3>2, <3>3
  <2> QED BY <1>1, <1>2, <2>1
<1>8. Held(v, a) = Held(w, from) /\ Held(v, from) = {}
  BY <1>3, <1>6 DEF Held
<1>9. Counted(w) /\ \A b \in Wrappers!Allocators : \A p \in Held(w, b) :
         p \in DOMAIN w.given /\ w.given[p] = Wrappers!Rounded(w.asked[b][p])
  BY DEF WrapInv, w
<1>10. \A b \in Wrappers!Allocators : \A p \in Held(v, b) :
         p \in DOMAIN v.given /\ v.given[p] = Wrappers!Rounded(v.asked[b][p])
  BY <1>5, <1>6, <1>8, <1>9
<1>11. Held(v, 1) \cap Held(v, 2) = {}
  BY <1>5, <1>8 DEF Wrappers!Allocators
<1>12. Counted(v)
  <2>1. /\ IsFiniteSet(Wrappers!BytesAt(v.asked[a]))
        /\ v.mBytesAllocated[a] = Cardinality(Wrappers!BytesAt(v.asked[a]))
        /\ v.mBytesAllocated[a] <= v.mMaxAllocSize[a]
    BY <1>6, <1>9 DEF Counted
  <2>2. /\ IsFiniteSet(Wrappers!BytesAt(v.asked[from]))
        /\ v.mBytesAllocated[from] = Cardinality(Wrappers!BytesAt(v.asked[from]))
        /\ v.mBytesAllocated[from] <= v.mMaxAllocSize[from]
    BY <1>3, <1>4, <1>6, 0 <= 0
  <2>3. ~v.lost
    BY <1>6, <1>9 DEF Counted
  <2> QED BY <1>5, <2>1, <2>2, <2>3 DEF Counted
<1> QED BY <1>7, <1>10, <1>11, <1>12 DEF WrapInv, v

LEMMA InitWrapInv == Wrappers!Init => WrapInv(wrapped)
<1> SUFFICES ASSUME Wrappers!Init PROVE WrapInv(wrapped)
  OBVIOUS
<1>1. /\ Wrappers!NoBlocks \in Sizes /\ DOMAIN Wrappers!NoBlocks = {}
      /\ Wrappers!BytesAt(Wrappers!NoBlocks) = {}
  BY DEF Wrappers!NoBlocks, Sizes, Wrappers!BytesAt
<1>2. IsFiniteSet({}) /\ Cardinality({}) = 0
  BY FS_EmptySet
<1>3. \A a \in Wrappers!Allocators :
        /\ wrapped.mBytesAllocated[a] = 0 /\ wrapped.mMaxAllocSize[a] = mMaxAllocSize
        /\ wrapped.asked[a] = Wrappers!NoBlocks
  BY DEF Wrappers!Init
<1>4. wrapped.lost = FALSE /\ wrapped.given = Wrappers!NoBlocks
  BY DEF Wrappers!Init
<1>5. wrapped \in [mBytesAllocated : [Wrappers!Allocators -> Int],
             mMaxAllocSize : [Wrappers!Allocators -> Int],
             asked : [Wrappers!Allocators -> Sizes], given : Sizes, lost : BOOLEAN]
  <2> DEFINE b == [a \in Wrappers!Allocators |-> 0]
             m == [a \in Wrappers!Allocators |-> mMaxAllocSize]
             k == [a \in Wrappers!Allocators |-> Wrappers!NoBlocks]
  <2>1. /\ b \in [Wrappers!Allocators -> Int] /\ m \in [Wrappers!Allocators -> Int]
        /\ k \in [Wrappers!Allocators -> Sizes]
    BY <1>1, MemoryHasRoom
  <2>2. wrapped = [mBytesAllocated |-> b, mMaxAllocSize |-> m, asked |-> k,
                   given |-> Wrappers!NoBlocks, lost |-> FALSE]
    BY DEF Wrappers!Init
  <2> HIDE DEF b, m, k
  <2> QED BY <1>1, <2>1, <2>2
<1>6. Counted(wrapped)
  <2>1. ASSUME NEW a \in Wrappers!Allocators
        PROVE  /\ IsFiniteSet(Wrappers!BytesAt(wrapped.asked[a]))
               /\ wrapped.mBytesAllocated[a] = Cardinality(Wrappers!BytesAt(wrapped.asked[a]))
               /\ wrapped.mBytesAllocated[a] <= wrapped.mMaxAllocSize[a]
    <3>1. Wrappers!BytesAt(wrapped.asked[a]) = {}
      BY <1>1, <1>3
    <3>2. 0 <= mMaxAllocSize
      BY MemoryHasRoom
    <3> QED BY <1>2, <1>3, <3>1, <3>2
  <2> QED BY <1>4, <2>1 DEF Counted
<1>7. \A a \in Wrappers!Allocators : Held(wrapped, a) = {}
  BY <1>1, <1>3 DEF Held
<1>8. Held(wrapped, 1) \cap Held(wrapped, 2) = {}
  BY <1>7 DEF Wrappers!Allocators
<1> QED BY <1>5, <1>6, <1>7, <1>8 DEF WrapInv

LEMMA WrapInvStep == WrapInv(wrapped) /\ [Wrappers!Next]_wrapped => WrapInv(wrapped')
<1> SUFFICES ASSUME WrapInv(wrapped), Wrappers!Next PROVE WrapInv(wrapped')
  OBVIOUS
<1> PICK a \in Wrappers!Allocators :
       \/ \E n \in 1 .. mMaxAllocSize :
             Wrappers!Allocate(a, n) \/ \E old \in Spots : Wrappers!Reallocate(a, old, n)
       \/ \E p \in Spots : Wrappers!FreeBlock(a, p)
       \/ \E from \in Wrappers!Allocators \ {a} : Wrappers!Move(a, from)
  BY DEF Wrappers!Next
<1>1. \A n \in 1 .. mMaxAllocSize : n \in Nat
  BY MemoryHasRoom
<1>2. ASSUME NEW n \in 1 .. mMaxAllocSize, Wrappers!Allocate(a, n) PROVE WrapInv(wrapped')
  <2>1. PICK p \in Wrappers!Unused :
          Wrappers!Fits(wrapped, a, n) /\ wrapped' = Wrappers!Allocated(wrapped, a, p, n)
    BY <1>2 DEF Wrappers!Allocate
  <2> QED BY <1>1, <2>1, AllocatedKeepsCount DEF Wrappers!Unused, Wrappers!Fits
<1>3. ASSUME NEW n \in 1 .. mMaxAllocSize, NEW old, Wrappers!Reallocate(a, old, n)
      PROVE  WrapInv(wrapped')
  <2>1. PICK p \in Wrappers!Unused :
          /\ Wrappers!Fits(wrapped, a, n)
          /\ wrapped' = Wrappers!Reallocated(wrapped, a, old, p, n)
    BY <1>3 DEF Wrappers!Reallocate
  <2> DEFINE v == Wrappers!Allocated(wrapped, a, p, n)
  <2>2. old \in Held(wrapped, a)
    BY <1>3 DEF Wrappers!Reallocate, Held
  <2>3. WrapInv(v) /\ old \in Held(v, a) /\ v.asked[a][old] = wrapped.asked[a][old]
    BY <1>1, <2>1, <2>2, AllocatedKeepsCount DEF Wrappers!Unused, Wrappers!Fits
  <2>4. wrapped' = Wrappers!Freed(v, a, old, wrapped.asked[a][old])
    BY <2>1 DEF Wrappers!Reallocated
  <2> HIDE DEF v
  <2> QED BY <2>3, <2>4, FreedKeepsCount
<1>4. ASSUME NEW p, Wrappers!FreeBlock(a, p) PROVE WrapInv(wrapped')
  BY <1>4, FreedKeepsCount DEF Wrappers!FreeBlock, Held
<1>5. ASSUME NEW from \in Wrappers!Allocators \ {a}, Wrappers!Move(a, from) PROVE WrapInv(wrapped')
  BY <1>5, HandedKeepsCount
<1> QED BY <1>2, <1>3, <1>4, <1>5

-----------------------------------------------------------------------------
(* A chunk is never handed out twice and none is lost, for any number of   *)
(* them; every count of ConstrainedAllocator is what its callers have, is  *)
(* within its limit, and the source gets each place back as it gave it.    *)
THEOREM MemoryAccounted == LibrarySpec => []MemoryIsAccountedFor
<1> DEFINE Inv == ChunksInv /\ WrapInv(wrapped)
<1>1. LibraryInit => Inv
  BY InitChunksInv, InitWrapInv DEF LibraryInit
<1>2. Inv /\ [LibraryNext]_libraryVars => Inv'
  <2>1. [LibraryNext]_libraryVars => [Chunk!Next]_chunks /\ [Wrappers!Next]_wrapped
    BY DEF LibraryNext, Others, libraryVars
  <2> QED BY <2>1, ChunksInvStep, WrapInvStep
<1>3. Inv => MemoryIsAccountedFor
  <2>1. WrapInv(wrapped) => Wrappers!WrappersKeepCount
    <3>1. \A S : Wrappers!Cardinality(S) = Cardinality(S)
      BY DEF Wrappers!Cardinality, Cardinality
    <3> QED BY <3>1 DEF Wrappers!WrappersKeepCount, WrapInv, Counted
  <2> QED BY <2>1, ChunksHandedOut DEF MemoryIsAccountedFor
<1> QED BY <1>1, <1>2, <1>3, PTL DEF LibrarySpec
-----------------------------------------------------------------------------
(* BTree.  With the ancestors of every node in the tree, a path that has   *)
(* data is found; with keys as long as a pointer the path is the key.      *)
NodesInv(b) ==
    /\ b = [subNodes |-> b.subNodes, data |-> b.data, numNodes |-> b.numNodes]
    /\ b.subNodes \subseteq Seq(Tree!Bits) /\ DOMAIN b.data \subseteq Seq(Tree!Bits)
    /\ b.data = [p \in DOMAIN b.data |-> b.data[p]]
    /\ IsFiniteSet(DOMAIN b.data)
    /\ b.numNodes \in Int
    /\ \A p \in b.subNodes \cup DOMAIN b.data : Tree!Ancestors(p) \subseteq b.subNodes
    /\ \A p \in DOMAIN b.data : Len(p) = PointerBits
    /\ \A p \in b.subNodes : Len(p) < PointerBits

Describes(m, b) ==
    /\ b.data = m.entries /\ m.counted \in Int
    /\ b.numNodes = Cardinality(DOMAIN b.data) + m.counted

TreeInv ==
    /\ DOMAIN tree = Tree!Trees /\ DOMAIN map = Tree!Trees
    /\ tree = [t \in Tree!Trees |-> tree[t]] /\ map = [t \in Tree!Trees |-> map[t]]
    /\ \A t \in Tree!Trees :
         /\ NodesInv(tree[t])
         /\ map[t] = [entries |-> map[t].entries, counted |-> map[t].counted]
         /\ KeyBits = PointerBits => Describes(map[t], tree[t])

LEMMA PathOfKey ==
    ASSUME NEW k \in Tree!KeyStrings, NEW path \in Tree!PathsOf(k)
    PROVE  /\ path \in Seq(Tree!Bits) /\ Len(path) = PointerBits
           /\ KeyBits = PointerBits => path = k
<1> DEFINE m == Tree!Smaller(KeyBits, PointerBits)
           s == Tree!SubSeq(k, 1, m)
<1>1. /\ m \in Nat /\ m <= KeyBits /\ m <= PointerBits /\ PointerBits - m \in Nat
      /\ KeyBits = PointerBits => m = KeyBits
  BY PointersHaveBits DEF Tree!Smaller
<1>2. PICK rest \in Tree!BitStrings(PointerBits - m) : path = s \o rest
  BY DEF Tree!PathsOf
<1> HIDE DEF m
<1>3. k \in Seq(Tree!Bits) /\ Len(k) = KeyBits
  BY PointersHaveBits DEF Tree!KeyStrings, Tree!BitStrings
<1>4. rest \in Seq(Tree!Bits) /\ Len(rest) = PointerBits - m
  BY <1>1 DEF Tree!BitStrings
<1>5. s \in Seq(Tree!Bits) /\ Len(s) = m /\ \A i \in 1 .. m : s[i] = k[i]
  BY <1>1, <1>3
<1> HIDE DEF s
<1>6. path \in Seq(Tree!Bits) /\ Len(path) = m + (PointerBits - m)
      /\ \A i \in 1 .. m : path[i] = s[i]
  BY <1>2, <1>4, <1>5, Joined
<1>7. Len(path) = PointerBits
  BY <1>1, <1>6, PointersHaveBits
<1>8. ASSUME KeyBits = PointerBits PROVE path = k
  <2>1. Len(path) = Len(k) /\ \A i \in 1 .. Len(k) : path[i] = k[i]
    BY <1>1, <1>3, <1>5, <1>6, <1>7, <1>8
  <2> QED BY <1>3, <1>6, <2>1
<1> QED BY <1>6, <1>7, <1>8

LEMMA AncestorsOfPath ==
    ASSUME NEW p \in Seq(Tree!Bits), NEW a \in Tree!Ancestors(p)
    PROVE  a \in Seq(Tree!Bits) /\ Len(a) < Len(p) /\ Tree!Ancestors(a) \subseteq Tree!Ancestors(p)
<1>1. PICK n \in 0 .. Len(p) - 1 : a = SubSeq(p, 1, n)
  BY DEF Tree!Ancestors
<1>2. n \in Nat /\ n < Len(p) /\ a \in Seq(Tree!Bits) /\ Len(a) = n /\ \A i \in 1 .. n : a[i] = p[i]
  BY <1>1
<1>3. ASSUME NEW m \in 0 .. Len(a) - 1 PROVE SubSeq(a, 1, m) \in Tree!Ancestors(p)
  <2>1. m \in Nat /\ m < n /\ m \in 0 .. Len(p) - 1
    BY <1>2
  <2>2. SubSeq(a, 1, m) = SubSeq(p, 1, m)
    BY <1>2, <2>1
  <2> QED BY <2>1, <2>2 DEF Tree!Ancestors
<1> QED BY <1>2, <1>3 DEF Tree!Ancestors

LEMMA StoredKeepsNodes ==
    ASSUME NEW b, NodesInv(b), NEW path \in Seq(Tree!Bits), Len(path) = PointerBits, NEW v
    PROVE  /\ NodesInv(Tree!Stored(b, path, v))
           /\ Tree!Stored(b, path, v).data = Tree!With(b.data, path, v)
           /\ Cardinality(DOMAIN Tree!Stored(b, path, v).data) - Tree!Stored(b, path, v).numNodes
                = Cardinality(DOMAIN b.data) - b.numNodes
<1> DEFINE S == b.subNodes \cup Tree!Ancestors(path)
           D == Tree!With(b.data, path, v)
           N == IF path \in DOMAIN b.data THEN b.numNodes ELSE b.numNodes + 1
           g == [subNodes |-> S, data |-> D, numNodes |-> N]
<1>1. Tree!Stored(b, path, v) = g
  <2>1. PICK s, d, n : b = [subNodes |-> s, data |-> d, numNodes |-> n]
    BY DEF NodesInv
  <2> DEFINE r == Tree!Reached(b, path)
  <2>2. r = [b EXCEPT !.subNodes = S]
    BY DEF Tree!Reached
  <2>3. Tree!Stored(b, path, v) =
          [r EXCEPT !.data = Tree!With(@, path, v),
                    !.numNodes = IF path \in DOMAIN b.data THEN @ ELSE @ + 1]
    BY DEF Tree!Stored
  <2> HIDE DEF S, r
  <2>4. r = [subNodes |-> S, data |-> d, numNodes |-> n]
    BY <2>1, <2>2
  <2>5. r.data = b.data /\ r.numNodes = b.numNodes
    BY <2>1, <2>4
  <2>6. Tree!Stored(b, path, v) = [r EXCEPT !.data = D, !.numNodes = N]
    BY <2>3, <2>5
  <2> HIDE DEF D, N
  <2> QED BY <2>4, <2>6
<1>2. /\ DOMAIN D = DOMAIN b.data \cup {path}
      /\ D = [p \in DOMAIN D |-> D[p]]
  BY DEF Tree!With
<1>3. /\ IsFiniteSet(DOMAIN b.data) /\ Cardinality(DOMAIN b.data) \in Nat
      /\ b.numNodes \in Int
  BY FS_CardinalityType DEF NodesInv
<1>4. /\ IsFiniteSet(DOMAIN D)
      /\ Cardinality(DOMAIN D) = IF path \in DOMAIN b.data THEN Cardinality(DOMAIN b.data)
                                 ELSE Cardinality(DOMAIN b.data) + 1
  BY <1>2, <1>3, FS_AddElement
<1> HIDE DEF D
<1>5. N \in Int /\ Cardinality(DOMAIN D) - N = Cardinality(DOMAIN b.data) - b.numNodes
  BY <1>3, <1>4
<1> HIDE DEF N
<1>6. \A a \in Tree!Ancestors(path) :
        a \in Seq(Tree!Bits) /\ Len(a) < PointerBits
          /\ Tree!Ancestors(a) \subseteq Tree!Ancestors(path)
  BY AncestorsOfPath
<1>7. /\ S \subseteq Seq(Tree!Bits) /\ DOMAIN D \subseteq Seq(Tree!Bits)
      /\ \A p \in S \cup DOMAIN D : Tree!Ancestors(p) \subseteq S
      /\ \A p \in DOMAIN D : Len(p) = PointerBits
      /\ \A p \in S : Len(p) < PointerBits
  BY <1>2, <1>6 DEF NodesInv
<1> HIDE DEF S
<1>8. NodesInv(g)
  BY <1>2, <1>4, <1>5, <1>7 DEF NodesInv
<1> QED BY <1>1, <1>5, <1>8 DEF D

LEMMA PoppedKeepsNodes ==
    ASSUME NEW b, NodesInv(b), NEW path
    PROVE  /\ NodesInv(Tree!Popped(b, path))
           /\ Tree!Popped(b, path).data = Tree!Without(b.data, path)
           /\ Cardinality(DOMAIN Tree!Popped(b, path).data) - Tree!Popped(b, path).numNodes
                = Cardinality(DOMAIN b.data) - b.numNodes
<1>1. CASE path \notin DOMAIN b.data
  <2>1. Tree!Popped(b, path) = b
    BY <1>1 DEF Tree!Popped, Tree!contains
  <2>2. DOMAIN b.data \ {path} = DOMAIN b.data /\ b.data = [p \in DOMAIN b.data |-> b.data[p]]
    BY <1>1 DEF NodesInv
  <2>3. Tree!Without(b.data, path) = b.data
    BY <2>2 DEF Tree!Without
  <2> QED BY <2>1, <2>3
<1>2. CASE path \in DOMAIN b.data
  <2> DEFINE D == Tree!Without(b.data, path)
             N == b.numNodes - 1
             g == [subNodes |-> b.subNodes, data |-> D, numNodes |-> N]
  <2>1. Tree!contains(b, path)
    BY <1>2 DEF NodesInv, Tree!contains, Tree!HasNode
  <2>2. Tree!Popped(b, path) = g
    <3>1. PICK s, d, n : b = [subNodes |-> s, data |-> d, numNodes |-> n]
      BY DEF NodesInv
    <3> QED BY <2>1, <3>1 DEF Tree!Popped
  <2>3. DOMAIN D = DOMAIN b.data \ {path} /\ D = [p \in DOMAIN D |-> D[p]]
    BY DEF Tree!Without
  <2>4. /\ IsFiniteSet(DOMAIN b.data) /\ Cardinality(DOMAIN b.data) \in Nat
        /\ b.numNodes \in Int
    BY FS_CardinalityType DEF NodesInv
  <2>5. IsFiniteSet(DOMAIN D) /\ Cardinality(DOMAIN D) = Cardinality(DOMAIN b.data) - 1
    BY <1>2, <2>3, <2>4, FS_RemoveElement
  <2>6. N \in Int /\ Cardinality(DOMAIN D) - N = Cardinality(DOMAIN b.data) - b.numNodes
    BY <2>4, <2>5
  <2> HIDE DEF D, N
  <2>7. NodesInv(g)
    BY <2>3, <2>5, <2>6 DEF NodesInv
  <2> QED BY <2>2, <2>6, <2>7 DEF D
<1> QED BY <1>1, <1>2

\* One tree and what is said of it change together.
LEMMA OneTreeChanges ==
    ASSUME TreeInv, NEW t \in Tree!Trees, NEW b, NEW m,
           NodesInv(b), m = [entries |-> m.entries, counted |-> m.counted],
           KeyBits = PointerBits => Describes(m, b),
           tree' = [tree EXCEPT ![t] = b], map' = [map EXCEPT ![t] = m]
    PROVE  TreeInv'
<1>1. /\ tree'[t] = b /\ map'[t] = m
      /\ \A s \in Tree!Trees \ {t} : tree'[s] = tree[s] /\ map'[s] = map[s]
  BY DEF TreeInv
<1>2. /\ DOMAIN tree' = Tree!Trees /\ DOMAIN map' = Tree!Trees
      /\ tree' = [s \in Tree!Trees |-> tree'[s]] /\ map' = [s \in Tree!Trees |-> map'[s]]
  BY DEF TreeInv
<1>3. ASSUME NEW s \in Tree!Trees
      PROVE  /\ NodesInv(tree'[s])
             /\ map'[s] = [entries |-> map'[s].entries, counted |-> map'[s].counted]
             /\ KeyBits = PointerBits => Describes(map'[s], tree'[s])
  <2>1. CASE s = t
    BY <1>1, <2>1
  <2>2. CASE s # t
    BY <1>1, <2>2 DEF TreeInv
  <2> QED BY <2>1, <2>2
<1> QED BY <1>2, <1>3 DEF TreeInv

LEMMA EntriesChange ==
    ASSUME TreeInv, NEW t \in Tree!Trees, NEW e, map' = [map EXCEPT ![t].entries = e]
    PROVE  map' = [map EXCEPT ![t] = [entries |-> e, counted |-> map[t].counted]]
<1>1. map[t] = [entries |-> map[t].entries, counted |-> map[t].counted]
  BY DEF TreeInv
<1>2. PICK d, c : map[t] = [entries |-> d, counted |-> c]
  BY <1>1
<1>3. [map[t] EXCEPT !.entries = e] = [entries |-> e, counted |-> c] /\ map[t].counted = c
  BY <1>2
<1>4. map' = [map EXCEPT ![t] = [map[t] EXCEPT !.entries = e]]
  OBVIOUS
<1> QED BY <1>3, <1>4

\* push, and operator[] of a key that has no element
LEMMA StoredKeepsTree ==
    ASSUME TreeInv, NEW t \in Tree!Trees, NEW k \in Tree!KeyStrings, NEW path \in Tree!PathsOf(k),
           NEW v, tree' = [tree EXCEPT ![t] = Tree!Stored(@, path, v)], Tree!Put(t, k, v)
    PROVE  TreeInv'
<1> DEFINE b == Tree!Stored(tree[t], path, v)
           m == [entries |-> Tree!With(map[t].entries, k, v), counted |-> map[t].counted]
<1>1. path \in Seq(Tree!Bits) /\ Len(path) = PointerBits /\ (KeyBits = PointerBits => path = k)
  BY PathOfKey
<1>2. /\ NodesInv(tree[t]) /\ map[t] = [entries |-> map[t].entries, counted |-> map[t].counted]
      /\ KeyBits = PointerBits => Describes(map[t], tree[t])
  BY DEF TreeInv
<1>3. /\ NodesInv(b) /\ b.data = Tree!With(tree[t].data, path, v)
      /\ Cardinality(DOMAIN b.data) - b.numNodes
           = Cardinality(DOMAIN tree[t].data) - tree[t].numNodes
  BY <1>1, <1>2, StoredKeepsNodes
<1>4. tree' = [tree EXCEPT ![t] = b]
  BY DEF TreeInv
<1> HIDE DEF b
<1>5. map' = [map EXCEPT ![t] = m]
  BY EntriesChange DEF Tree!Put
<1>6. KeyBits = PointerBits => Describes(m, b)
  <2> SUFFICES ASSUME KeyBits = PointerBits PROVE Describes(m, b)
    OBVIOUS
  <2>1. b.data = m.entries
    BY <1>1, <1>2, <1>3 DEF Describes
  <2>2. /\ Cardinality(DOMAIN b.data) \in Nat /\ b.numNodes \in Int
        /\ Cardinality(DOMAIN tree[t].data) \in Nat /\ tree[t].numNodes \in Int
    BY <1>2, <1>3, FS_CardinalityType DEF NodesInv
  <2> DEFINE x == Cardinality(DOMAIN b.data)
             y == Cardinality(DOMAIN tree[t].data)
             c == map[t].counted
  <2>3. tree[t].numNodes = y + c /\ c \in Int
    BY <1>2 DEF Describes
  <2> HIDE DEF x, y, c
  <2>4. b.numNodes = x + c
    BY <1>3, <2>2, <2>3 DEF x, y
  <2> QED BY <2>1, <2>3, <2>4 DEF Describes, x, c
<1>7. m = [entries |-> m.entries, counted |-> m.counted]
  OBVIOUS
<1> HIDE DEF m
<1> QED BY <1>3, <1>4, <1>5, <1>6, <1>7, OneTreeChanges

LEMMA PoppedKeepsTree ==
    ASSUME TreeInv, NEW t \in Tree!Trees, NEW k \in Tree!KeyStrings, Tree!Pop(t, k)
    PROVE  TreeInv'
<1>1. PICK path \in Tree!PathsOf(k) : tree' = [tree EXCEPT ![t] = Tree!Popped(@, path)]
  BY DEF Tree!Pop
<1> DEFINE b == Tree!Popped(tree[t], path)
           m == [entries |-> Tree!Without(map[t].entries, k), counted |-> map[t].counted]
<1>2. /\ NodesInv(tree[t]) /\ map[t] = [entries |-> map[t].entries, counted |-> map[t].counted]
      /\ KeyBits = PointerBits => Describes(map[t], tree[t])
  BY DEF TreeInv
<1>3. /\ NodesInv(b) /\ b.data = Tree!Without(tree[t].data, path)
      /\ Cardinality(DOMAIN b.data) - b.numNodes
           = Cardinality(DOMAIN tree[t].data) - tree[t].numNodes
  BY <1>2, PoppedKeepsNodes
<1>4. tree' = [tree EXCEPT ![t] = b]
  BY <1>1 DEF TreeInv
<1> HIDE DEF b
<1>5. map' = [map EXCEPT ![t] = m]
  BY EntriesChange DEF Tree!Pop
<1>6. KeyBits = PointerBits => Describes(m, b)
  <2> SUFFICES ASSUME KeyBits = PointerBits PROVE Describes(m, b)
    OBVIOUS
  <2>1. b.data = m.entries
    BY <1>2, <1>3, PathOfKey DEF Describes
  <2>2. /\ Cardinality(DOMAIN b.data) \in Nat /\ b.numNodes \in Int
        /\ Cardinality(DOMAIN tree[t].data) \in Nat /\ tree[t].numNodes \in Int
    BY <1>2, <1>3, FS_CardinalityType DEF NodesInv
  <2> DEFINE x == Cardinality(DOMAIN b.data)
             y == Cardinality(DOMAIN tree[t].data)
             c == map[t].counted
  <2>3. tree[t].numNodes = y + c /\ c \in Int
    BY <1>2 DEF Describes
  <2> HIDE DEF x, y, c
  <2>4. b.numNodes = x + c
    BY <1>3, <2>2, <2>3 DEF x, y
  <2> QED BY <2>1, <2>3, <2>4 DEF Describes, x, c
<1>7. m = [entries |-> m.entries, counted |-> m.counted]
  OBVIOUS
<1> HIDE DEF m
<1> QED BY <1>3, <1>4, <1>5, <1>6, <1>7, OneTreeChanges

\* operator[] of a key that has an element finds it.
LEMMA SubscriptKeepsTree ==
    ASSUME TreeInv, NEW t \in Tree!Trees, NEW k \in Tree!KeyStrings, Tree!Subscript(t, k)
    PROVE  TreeInv'
<1> DEFINE v == IF k \in DOMAIN map[t].entries THEN map[t].entries[k] ELSE Blank
<1>1. PICK path \in Tree!PathsOf(k) : tree' = [tree EXCEPT ![t] = Tree!Subscripted(@, path)]
  BY DEF Tree!Subscript
<1>2. Tree!Put(t, k, v)
  BY DEF Tree!Subscript
<1>3. /\ NodesInv(tree[t]) /\ map[t] = [entries |-> map[t].entries, counted |-> map[t].counted]
      /\ KeyBits = PointerBits => Describes(map[t], tree[t])
  BY DEF TreeInv
<1>4. Tree!contains(tree[t], path) <=> path \in DOMAIN tree[t].data
  BY <1>3 DEF NodesInv, Tree!contains, Tree!HasNode
<1>5. KeyBits = PointerBits => path = k
  BY PathOfKey
<1>6. CASE path \in DOMAIN tree[t].data
  <2> DEFINE m == [entries |-> Tree!With(map[t].entries, k, v), counted |-> map[t].counted]
  <2>1. tree' = [tree EXCEPT ![t] = tree[t]]
    BY <1>1, <1>4, <1>6 DEF Tree!Subscripted, TreeInv
  <2>2. map' = [map EXCEPT ![t] = m]
    BY <1>2, EntriesChange DEF Tree!Put
  <2>3. KeyBits = PointerBits => Describes(m, tree[t])
    <3> SUFFICES ASSUME KeyBits = PointerBits PROVE Describes(m, tree[t])
      OBVIOUS
    <3>1. k \in DOMAIN map[t].entries /\ v = map[t].entries[k]
      BY <1>3, <1>5, <1>6 DEF Describes
    <3>2. map[t].entries = [p \in DOMAIN map[t].entries |-> map[t].entries[p]]
      BY <1>3 DEF Describes, NodesInv
    <3>3. Tree!With(map[t].entries, k, v) = map[t].entries
      BY <3>1, <3>2 DEF Tree!With
    <3> QED BY <1>3, <3>3 DEF Describes
  <2>4. m = [entries |-> m.entries, counted |-> m.counted]
    OBVIOUS
  <2> HIDE DEF m
  <2> QED BY <1>3, <2>1, <2>2, <2>3, <2>4, OneTreeChanges
<1>7. CASE path \notin DOMAIN tree[t].data
  <2>1. tree' = [tree EXCEPT ![t] = Tree!Stored(@, path, Blank)]
    BY <1>1, <1>4, <1>7 DEF Tree!Subscripted, TreeInv
  <2>2. CASE v = Blank
    <3>1. Tree!Put(t, k, Blank)
      BY <1>2, <2>2
    <3> QED BY <2>1, <3>1, StoredKeepsTree
  <2>3. CASE v # Blank
    <3>1. KeyBits # PointerBits
      BY <1>3, <1>5, <1>7, <2>3 DEF Describes
    <3> DEFINE b == Tree!Stored(tree[t], path, Blank)
               m == [entries |-> Tree!With(map[t].entries, k, v), counted |-> map[t].counted]
    <3>2. NodesInv(b)
      BY <1>3, PathOfKey, StoredKeepsNodes
    <3>3. tree' = [tree EXCEPT ![t] = b]
      BY <2>1 DEF TreeInv
    <3>4. map' = [map EXCEPT ![t] = m]
      BY <1>2, EntriesChange DEF Tree!Put
    <3>5. m = [entries |-> m.entries, counted |-> m.counted]
      OBVIOUS
    <3> HIDE DEF b, m
    <3> QED BY <3>1, <3>2, <3>3, <3>4, <3>5, OneTreeChanges
  <2> QED BY <2>2, <2>3
<1> QED BY <1>6, <1>7

LEMMA EmptyHasNothing ==
    /\ NodesInv(Tree!Empty) /\ Describes(Tree!NoEntries, Tree!Empty)
    /\ Tree!NoEntries = [entries |-> Tree!NoEntries.entries, counted |-> Tree!NoEntries.counted]
<1>1. IsFiniteSet({}) /\ Cardinality({}) = 0
  BY FS_EmptySet
<1>2. /\ Tree!Empty.subNodes = {} /\ Tree!Empty.data = Tree!NoData /\ Tree!Empty.numNodes = 0
      /\ DOMAIN Tree!NoData = {} /\ Tree!NoData = [p \in DOMAIN Tree!NoData |-> Tree!NoData[p]]
      /\ Tree!NoEntries.entries = Tree!NoData /\ Tree!NoEntries.counted = 0
  BY DEF Tree!Empty, Tree!NoData, Tree!NoEntries
<1>3. /\ Tree!Empty = [subNodes |-> {}, data |-> Tree!NoData, numNodes |-> 0]
      /\ Tree!NoEntries = [entries |-> Tree!NoData, counted |-> 0]
  BY DEF Tree!Empty, Tree!NoEntries
<1> QED BY <1>1, <1>2, <1>3 DEF NodesInv, Describes

LEMMA CopyKeepsTree ==
    ASSUME TreeInv, NEW t \in Tree!Trees, NEW from \in Tree!Trees, Tree!CopyConstruct(t, from)
    PROVE  TreeInv'
<1> DEFINE c == tree[from].numNodes
           b == [subNodes |-> {}, data |-> Tree!NoData, numNodes |-> c]
           m == [entries |-> Tree!NoData, counted |-> c]
<1>1. NodesInv(tree[from])
  BY DEF TreeInv
<1>2. <<>> \notin DOMAIN tree[from].data
  BY <1>1, PointersHaveBits DEF NodesInv
<1>3. c \in Int
  BY <1>1 DEF NodesInv
<1>4. Tree!CopyConstructed(tree[from]) = b
  BY <1>2 DEF Tree!CopyConstructed, Tree!Empty
<1>5. [Tree!NoEntries EXCEPT !.counted = c] = m
  BY DEF Tree!NoEntries
<1>6. tree' = [tree EXCEPT ![t] = b] /\ map' = [map EXCEPT ![t] = m]
  BY <1>4, <1>5 DEF Tree!CopyConstruct
<1>7. /\ b.subNodes = {} /\ b.data = Tree!NoData /\ b.numNodes = c
      /\ m.entries = Tree!NoData /\ m.counted = c
      /\ DOMAIN Tree!NoData = {} /\ Tree!NoData = [p \in DOMAIN Tree!NoData |-> Tree!NoData[p]]
      /\ m = [entries |-> m.entries, counted |-> m.counted]
      /\ b = [subNodes |-> b.subNodes, data |-> b.data, numNodes |-> b.numNodes]
  BY DEF Tree!NoData
<1>8. IsFiniteSet({}) /\ Cardinality({}) = 0
  BY FS_EmptySet
<1> HIDE DEF b, m, c
<1>9. NodesInv(b) /\ Describes(m, b)
  BY <1>3, <1>7, <1>8 DEF NodesInv, Describes
<1> QED BY <1>6, <1>7, <1>9, OneTreeChanges

LEMMA MoveKeepsTree ==
    ASSUME TreeInv, NEW t \in Tree!Trees, NEW from \in Tree!Trees \ {t}, Tree!Move(t, from)
    PROVE  TreeInv'
<1>1. /\ tree'[t] = tree[from] /\ map'[t] = map[from]
      /\ tree'[from] = Tree!Empty /\ map'[from] = Tree!NoEntries
      /\ DOMAIN tree' = Tree!Trees /\ DOMAIN map' = Tree!Trees
      /\ tree' = [s \in Tree!Trees |-> tree'[s]] /\ map' = [s \in Tree!Trees |-> map'[s]]
  BY DEF Tree!Move, TreeInv
<1>2. Tree!Trees = {t, from}
  BY DEF Tree!Trees
<1> QED BY <1>1, <1>2, EmptyHasNothing DEF TreeInv

LEMMA TreeInvStep == TreeInv /\ [Tree!Next]_<<tree, map>> => TreeInv'
<1>1. TreeInv /\ UNCHANGED <<tree, map>> => TreeInv'
  BY DEF TreeInv, NodesInv, Describes
<1>2. ASSUME TreeInv, NEW t \in Tree!Trees, NEW k \in Tree!KeyStrings, NEW v, Tree!Push(t, k, v)
      PROVE  TreeInv'
  BY <1>2, StoredKeepsTree DEF Tree!Push
<1>3. ASSUME TreeInv, NEW t \in Tree!Trees, Tree!Clear(t) PROVE TreeInv'
  <2>1. tree' = [tree EXCEPT ![t] = Tree!Empty] /\ map' = [map EXCEPT ![t] = Tree!NoEntries]
    BY <1>3 DEF Tree!Clear
  <2> QED BY <1>3, <2>1, EmptyHasNothing, OneTreeChanges
<1>4. ASSUME TreeInv, NEW t \in Tree!Trees, NEW from \in Tree!Trees, Tree!CopyAssign(t, from)
      PROVE  TreeInv'
  <2> DEFINE b == tree[from]
             m == map[from]
  <2>1. tree' = [tree EXCEPT ![t] = b] /\ map' = [map EXCEPT ![t] = m]
    BY <1>4 DEF Tree!CopyAssign
  <2>2. /\ NodesInv(b)
        /\ KeyBits = PointerBits => Describes(m, b)
        /\ m = [entries |-> m.entries, counted |-> m.counted]
    BY <1>4 DEF TreeInv
  <2> HIDE DEF b, m
  <2> QED BY <1>4, <2>1, <2>2, OneTreeChanges
<1> QED BY <1>1, <1>2, <1>3, <1>4, SubscriptKeepsTree, PoppedKeepsTree, CopyKeepsTree, MoveKeepsTree
        DEF Tree!Next

(* A BTree that does not go back to a copy construction is a dictionary    *)
(* for keys of the size of a pointer, of any number of bits, and for keys  *)
(* of every size the nodes of every tree can be reached.                   *)
THEOREM TreeIsCorrect == LibrarySpec => []TreeIsADictionary
<1>1. LibraryInit => TreeInv
  <2> SUFFICES ASSUME Tree!Init PROVE TreeInv
    BY DEF LibraryInit
  <2>1. \A t \in Tree!Trees : tree[t] = Tree!Empty /\ map[t] = Tree!NoEntries
    BY DEF Tree!Init
  <2>2. /\ DOMAIN tree = Tree!Trees /\ DOMAIN map = Tree!Trees
        /\ tree = [t \in Tree!Trees |-> tree[t]] /\ map = [t \in Tree!Trees |-> map[t]]
    BY DEF Tree!Init
  <2> QED BY <2>1, <2>2, EmptyHasNothing DEF TreeInv
<1>2. TreeInv /\ [LibraryNext]_libraryVars => TreeInv'
  <2>1. [LibraryNext]_libraryVars => [Tree!Next]_<<tree, map>>
    BY DEF LibraryNext, Others, libraryVars
  <2> QED BY <2>1, TreeInvStep
<1>3. TreeInv => TreeIsADictionary
  <2>1. \A S : Tree!Cardinality(S) = Cardinality(S)
    BY DEF Tree!Cardinality, Cardinality
  <2>2. TreeInv => Tree!TreeIsADictionary
    <3> SUFFICES ASSUME TreeInv, KeyBits = PointerBits, NEW t \in Tree!Trees, map[t].counted = 0
                 PROVE  /\ tree[t].data = map[t].entries
                        /\ tree[t].numNodes = Tree!Cardinality(DOMAIN tree[t].data)
      BY DEF Tree!TreeIsADictionary
    <3>1. Describes(map[t], tree[t])
      BY DEF TreeInv
    <3>2. tree[t].numNodes = Cardinality(DOMAIN tree[t].data) + 0
      BY <3>1 DEF Describes
    <3>3. NodesInv(tree[t])
      BY DEF TreeInv
    <3> QED BY <2>1, <3>1, <3>2, <3>3, FS_CardinalityType DEF Describes, NodesInv
  <2>3. TreeInv => Tree!NodesAreReachable
    BY DEF TreeInv, NodesInv, Tree!NodesAreReachable
  <2> QED BY <2>2, <2>3 DEF TreeIsADictionary
<1> QED BY <1>1, <1>2, <1>3, PTL DEF LibrarySpec
-----------------------------------------------------------------------------
(* BitSet.  The bits in use are those of a whole number of buckets, the    *)
(* array has at least as many, and only bits in use were set.              *)
Size(n) == n * bits_per_bucket

Shows(array, bits) ==
    \A i \in DOMAIN array : array[i] \in {Unwritten, IF i \in bits THEN 1 ELSE 0}

SetOf(b, a, r) ==
    b = [mBits |-> b.mBits, mNumBitsActive |-> Size(a), mNumBitsReserved |-> Size(r)]

Holds(b, bits) ==
    /\ DOMAIN b.mBits \subseteq Int
    /\ b.mBits = [i \in DOMAIN b.mBits |-> b.mBits[i]]
    /\ Shows(b.mBits, bits)
    /\ \E a, r \in Nat : a <= r /\ SetOf(b, a, r) /\ bits \subseteq BitsOf!Below(Size(a))

BitsInv == spoilt \in BOOLEAN /\ (~spoilt => Holds(set, meant))

LEMMA SizesOfBuckets ==
    ASSUME NEW a \in Nat
    PROVE  /\ Size(a) \in Nat /\ Size(a) \div bits_per_bucket = a
           /\ BitsOf!Multiple(Size(a)) = a
<1> DEFINE B == bits_per_bucket
<1>1. B \in Nat \ {0} /\ 0 \in 0 .. B - 1 /\ B - 1 \in 0 .. B - 1
  BY BucketsHaveBits
<1>2. Size(a) = B * a + 0 /\ Size(a) + B - 1 = B * a + (B - 1) /\ B * a \in Nat
  BY <1>1 DEF Size
<1>3. (B * a + 0) \div B = a /\ (B * a + (B - 1)) \div B = a
  BY <1>1, ModUnique
<1> QED BY <1>1, <1>2, <1>3 DEF BitsOf!Multiple

LEMMA SizesInOrder ==
    ASSUME NEW a \in Nat, NEW r \in Nat, a <= r
    PROVE  Size(a) <= Size(r)
<1>1. bits_per_bucket \in Nat
  BY BucketsHaveBits
<1>2. r - a \in Nat /\ (r - a) * bits_per_bucket \in Nat
  BY <1>1
<1>3. r * bits_per_bucket = a * bits_per_bucket + (r - a) * bits_per_bucket
  BY <1>1
<1>4. a * bits_per_bucket \in Nat /\ r * bits_per_bucket \in Nat
  BY <1>1
<1> QED BY <1>2, <1>3, <1>4 DEF Size

\* A number of buckets made a multiple of the slack has room for them.
LEMMA NewSizeSuffices ==
    ASSUME NEW b, NEW a \in Nat, NEW r \in Nat, SetOf(b, a, r), NEW n \in Nat
    PROVE  /\ BitsOf!Multiple(n) \in Nat /\ BitsOf!NewSize(b, n) \in Nat
           /\ BitsOf!Multiple(n) <= BitsOf!NewSize(b, n)
           /\ BitsOf!Reserved(b) = r /\ BitsOf!Active(b) = a
<1> DEFINE B == bits_per_bucket
           m == BitsOf!Multiple(n)
<1>1. B \in Nat \ {0} /\ n + B - 1 \in Nat /\ Slack \in Nat \ {0}
  BY BucketsHaveBits
<1>2. BitsOf!Reserved(b) = r /\ BitsOf!Active(b) = a
  BY SizesOfBuckets DEF SetOf, BitsOf!Reserved, BitsOf!Active
<1>3. m \in Nat
  <2> DEFINE x == n + B - 1
  <2> HIDE DEF x
  <2>1. x \in Nat /\ m = x \div B
    BY <1>1 DEF x, BitsOf!Multiple
  <2>2. x = B * (x \div B) + (x % B) /\ x % B \in 0 .. B - 1 /\ x \div B \in Int
    BY <1>1, <2>1, DivMod
  <2> QED BY <1>1, <2>1, <2>2
<1> HIDE DEF m
<1> DEFINE y == m + Slack - 1
           q == y \div Slack
<1>4. y \in Nat /\ y - (Slack - 1) = m
  BY <1>1, <1>3
<1> HIDE DEF y
<1>5. y = Slack * q + (y % Slack) /\ y % Slack \in 0 .. Slack - 1 /\ q \in Int
  BY <1>1, <1>4, DivMod
<1> HIDE DEF q
<1>6. Slack * q \in Int /\ q * Slack = Slack * q
  BY <1>1, <1>5
<1>7. q * Slack \in Nat /\ m <= q * Slack
  BY <1>1, <1>3, <1>4, <1>5, <1>6
<1>8. BitsOf!NewSize(b, n) = IF m < r THEN r ELSE q * Slack
  BY <1>2 DEF BitsOf!NewSize, BitsOf!InPlace, m, q, y
<1> QED BY <1>2, <1>3, <1>7, <1>8 DEF m

IsArray(f) == DOMAIN f \subseteq Int /\ f = [i \in DOMAIN f |-> f[i]]

\* An array of n buckets, k of them kept.
LEMMA KeptShows ==
    ASSUME NEW b, NEW bits, NEW left, NEW k \in Nat, NEW n,
           Shows(b.mBits, bits), left = bits \cap BitsOf!Below(Size(k))
    PROVE  IsArray(BitsOf!Kept(b, k, n)) /\ Shows(BitsOf!Kept(b, k, n), left)
<1> DEFINE c == Size(k)
           f == BitsOf!Kept(b, k, n)
<1>1. c \in Nat
  BY SizesOfBuckets
<1>2. f = [i \in 0 .. n * bits_per_bucket - 1 |->
            IF i >= c THEN 0 ELSE IF i \in DOMAIN b.mBits THEN b.mBits[i] ELSE Unwritten]
  BY DEF BitsOf!Kept, Size
<1>3. IsArray(f)
  BY <1>2 DEF IsArray
<1>4. ASSUME NEW i \in DOMAIN f PROVE f[i] \in {Unwritten, IF i \in left THEN 1 ELSE 0}
  <2>1. i \in Int /\ i >= 0
    BY <1>2
  <2> HIDE DEF c
  <2>2. CASE i >= c
    <3>1. f[i] = 0
      BY <1>2, <2>2
    <3>2. i \notin left
      BY <1>1, <2>1, <2>2 DEF BitsOf!Below, c
    <3> QED BY <3>1, <3>2
  <2>3. CASE ~(i >= c)
    <3>1. i \in BitsOf!Below(c)
      BY <1>1, <2>1, <2>3 DEF BitsOf!Below
    <3>2. i \in left <=> i \in bits
      BY <3>1 DEF c
    <3>3. f[i] = IF i \in DOMAIN b.mBits THEN b.mBits[i] ELSE Unwritten
      BY <1>2, <2>3
    <3> QED BY <3>2, <3>3 DEF Shows
  <2> QED BY <2>2, <2>3
<1> QED BY <1>3, <1>4 DEF Shows

LEMMA BelowIsMonotone ==
    ASSUME NEW a \in Nat, NEW r \in Nat, a <= r
    PROVE  BitsOf!Below(Size(a)) \subseteq BitsOf!Below(Size(r))
<1> DEFINE x == Size(a)
           y == Size(r)
<1>1. x \in Nat /\ y \in Nat /\ x <= y
  BY SizesOfBuckets, SizesInOrder
<1> HIDE DEF x, y
<1>2. BitsOf!Below(x) \subseteq BitsOf!Below(y)
  BY <1>1 DEF BitsOf!Below
<1> QED BY <1>2 DEF x, y

LEMMA ResizeHolds ==
    ASSUME Holds(set, meant), NEW n \in Nat, BitsOf!Resize(n)
    PROVE  Holds(set', meant')
<1>1. PICK a \in Nat, r \in Nat :
        a <= r /\ SetOf(set, a, r) /\ meant \subseteq BitsOf!Below(Size(a))
  BY DEF Holds
<1> DEFINE m == BitsOf!Multiple(n)
           s == BitsOf!NewSize(set, n)
           k == IF BitsOf!InPlace(set, n) \/ BitsOf!Reserved(set) = 0 THEN m ELSE a
           f == BitsOf!Kept(set, k, s)
<1>2. m \in Nat /\ s \in Nat /\ m <= s /\ BitsOf!Reserved(set) = r /\ BitsOf!Active(set) = a
  BY <1>1, NewSizeSuffices
<1>3. meant' = meant \cap BitsOf!Below(Size(m))
  BY DEF BitsOf!Resize, Size
<1>4. CASE n = set.mNumBitsActive
  <2>1. n = Size(a)
    BY <1>1, <1>4 DEF SetOf
  <2>2. m = a
    BY <1>1, <2>1, SizesOfBuckets
  <2>3. meant' = meant
    BY <1>1, <1>3, <2>2
  <2>4. set' = set
    BY <1>4 DEF BitsOf!Resize, BitsOf!Resized
  <2> QED BY <2>3, <2>4
<1>5. CASE n # set.mNumBitsActive
  <2>1. set' = [mBits |-> f, mNumBitsActive |-> Size(m), mNumBitsReserved |-> Size(s)]
    BY <1>2, <1>5 DEF BitsOf!Resize, BitsOf!Resized, BitsOf!SetTo, Size
  <2>2. k \in Nat /\ k <= m
    BY <1>1, <1>2 DEF BitsOf!InPlace
  <2>3. meant' = meant \cap BitsOf!Below(Size(k)) /\ meant' \subseteq BitsOf!Below(Size(k))
    <3>1. CASE k = m
      BY <1>3, <3>1
    <3>2. CASE k = a /\ a <= m
      <4>1. BitsOf!Below(Size(a)) \subseteq BitsOf!Below(Size(m))
        BY <1>2, <3>2, BelowIsMonotone
      <4> QED BY <1>1, <1>3, <3>2, <4>1
    <3> QED BY <2>2, <3>1, <3>2
  <2> HIDE DEF k
  <2>4. /\ DOMAIN f \subseteq Int /\ f = [i \in DOMAIN f |-> f[i]] /\ Shows(f, meant')
    <3>1. Shows(set.mBits, meant)
      BY DEF Holds
    <3> HIDE DEF s
    <3>2. IsArray(f) /\ Shows(f, meant')
      BY <2>2, <2>3, <3>1, KeptShows
    <3> QED BY <3>2 DEF IsArray
  <2> HIDE DEF f, m, s
  <2>5. SetOf(set', m, s) /\ set'.mBits = f
    BY <2>1 DEF SetOf
  <2> QED BY <1>2, <1>3, <2>4, <2>5 DEF Holds
<1> QED BY <1>4, <1>5

\* An array whose bits in use are changed, in a set that has them
LEMMA ChangedHolds ==
    ASSUME NEW b, NEW bits, Holds(b, bits), NEW f, NEW left,
           DOMAIN f \subseteq Int, f = [i \in DOMAIN f |-> f[i]], Shows(f, left),
           left \subseteq bits \cup BitsOf!Below(b.mNumBitsActive)
    PROVE  Holds([b EXCEPT !.mBits = f], left)
<1>1. PICK a \in Nat, r \in Nat : a <= r /\ SetOf(b, a, r) /\ bits \subseteq BitsOf!Below(Size(a))
  BY DEF Holds
<1> DEFINE g == [b EXCEPT !.mBits = f]
           x == Size(a)
           y == Size(r)
           h == b.mBits
<1>2. b = [mBits |-> h, mNumBitsActive |-> x, mNumBitsReserved |-> y]
  BY <1>1 DEF SetOf
<1> HIDE DEF h, x, y
<1>3. g = [mBits |-> f, mNumBitsActive |-> x, mNumBitsReserved |-> y] /\ b.mNumBitsActive = x
  BY <1>2
<1> HIDE DEF g
<1>4. SetOf(g, a, r) /\ g.mBits = f
  BY <1>3 DEF SetOf, x, y
<1>5. left \subseteq BitsOf!Below(Size(a))
  BY <1>1, <1>3 DEF x
<1> QED BY <1>1, <1>4, <1>5 DEF Holds, g

LEMMA LoadHolds ==
    ASSUME Holds(set, meant), NEW n \in Nat, NEW bits, BitsOf!ResizeWith(n, bits)
    PROVE  Holds(set', meant')
<1>1. PICK a \in Nat, r \in Nat : a <= r /\ SetOf(set, a, r)
  BY DEF Holds
<1> DEFINE m == BitsOf!Multiple(n)
           s == BitsOf!NewSize(set, n)
           x == Size(m)
           f == [i \in 0 .. Size(s) - 1 |-> IF i < x /\ i \in bits THEN 1 ELSE 0]
<1>2. m \in Nat /\ s \in Nat /\ m <= s
  BY <1>1, NewSizeSuffices
<1>3. meant' = bits \cap BitsOf!Below(x)
  BY DEF BitsOf!ResizeWith, Size
<1>4. set' = [mBits |-> f, mNumBitsActive |-> x, mNumBitsReserved |-> Size(s)]
  BY DEF BitsOf!ResizeWith, BitsOf!Loaded, BitsOf!SetTo, Size
<1>5. x \in Nat /\ Size(s) \in Nat
  BY <1>2, SizesOfBuckets
<1> HIDE DEF x, s, m
<1>6. \A i \in 0 .. Size(s) - 1 : i \in Int /\ i >= 0
  BY <1>5
<1>7. \A i \in 0 .. Size(s) - 1 : i \in BitsOf!Below(x) <=> i < x
  BY <1>5, <1>6 DEF BitsOf!Below
<1>8. /\ DOMAIN f \subseteq Int /\ f = [i \in DOMAIN f |-> f[i]] /\ Shows(f, meant')
  BY <1>3, <1>6, <1>7 DEF Shows
<1> HIDE DEF f
<1>9. SetOf(set', m, s) /\ set'.mBits = f
  BY <1>4 DEF SetOf, x
<1>10. meant' \subseteq BitsOf!Below(Size(m))
  BY <1>3 DEF x
<1> QED BY <1>2, <1>8, <1>9, <1>10 DEF Holds

LEMMA ReserveHolds ==
    ASSUME Holds(set, meant), NEW n \in Nat, BitsOf!Reserve(n), ~spoilt'
    PROVE  Holds(set', meant')
<1>1. PICK a \in Nat, r \in Nat :
        a <= r /\ SetOf(set, a, r) /\ meant \subseteq BitsOf!Below(Size(a))
  BY DEF Holds
<1>2. set' = BitsOf!ReservedTo(set, n) /\ meant' = meant
  BY DEF BitsOf!Reserve
<1> DEFINE m == BitsOf!Multiple(n)
           f == BitsOf!Kept(set, r, m)
<1>3. m \in Nat /\ BitsOf!Reserved(set) = r
  BY <1>1, NewSizeSuffices
<1>4. CASE ~(m > r)
  BY <1>2, <1>3, <1>4 DEF BitsOf!ReservedTo
<1>5. CASE m > r
  <2>1. set' = [set EXCEPT !.mBits = f, !.mNumBitsReserved = Size(m)]
    BY <1>2, <1>3, <1>5 DEF BitsOf!ReservedTo, Size
  <2>2. BitsOf!Below(Size(a)) \subseteq BitsOf!Below(Size(r))
    BY <1>1, BelowIsMonotone
  <2>3. meant = meant \cap BitsOf!Below(Size(r))
    BY <1>1, <2>2
  <2> HIDE DEF m
  <2>4. /\ DOMAIN f \subseteq Int /\ f = [i \in DOMAIN f |-> f[i]] /\ Shows(f, meant)
    <3>1. Shows(set.mBits, meant)
      BY DEF Holds
    <3>2. IsArray(f) /\ Shows(f, meant)
      BY <1>1, <2>3, <3>1, KeptShows
    <3> QED BY <3>2 DEF IsArray
  <2> DEFINE x == Size(a)
             y == Size(r)
             z == Size(m)
             h == set.mBits
  <2>5. set = [mBits |-> h, mNumBitsActive |-> x, mNumBitsReserved |-> y]
    BY <1>1 DEF SetOf
  <2> HIDE DEF f, h, x, y, z
  <2>6. set' = [mBits |-> f, mNumBitsActive |-> x, mNumBitsReserved |-> z]
    BY <2>1, <2>5 DEF z
  <2>7. SetOf(set', a, m) /\ set'.mBits = f
    BY <2>6 DEF SetOf, x, z
  <2>8. a <= m
    BY <1>1, <1>3, <1>5
  <2> QED BY <1>1, <1>2, <1>3, <2>4, <2>7, <2>8 DEF Holds
<1> QED BY <1>4, <1>5

LEMMA SetBitHolds ==
    ASSUME Holds(set, meant), NEW i \in Nat, NEW v \in BitsOf!Bit, BitsOf!SetBit(i, v)
    PROVE  Holds(set', meant')
<1> DEFINE f == [set.mBits EXCEPT ![i] = v]
<1>1. set' = [set EXCEPT !.mBits = f]
  BY DEF BitsOf!SetBit
<1>2. i \in BitsOf!Below(set.mNumBitsActive)
  <2>1. set.mNumBitsActive \in Nat
    BY SizesOfBuckets DEF Holds, SetOf
  <2> QED BY <2>1 DEF BitsOf!SetBit, BitsOf!Below
<1>3. /\ DOMAIN f \subseteq Int /\ f = [j \in DOMAIN f |-> f[j]]
      /\ DOMAIN f = DOMAIN set.mBits
      /\ \A j \in DOMAIN f : f[j] = IF j = i THEN v ELSE set.mBits[j]
  BY DEF Holds
<1>4. v \in {0, 1} /\ meant' = IF v = 1 THEN meant \cup {i} ELSE meant \ {i}
  BY DEF BitsOf!SetBit, BitsOf!Bit
<1>5. Shows(set.mBits, meant)
  BY DEF Holds
<1> HIDE DEF f
<1>6. Shows(f, meant')
  BY <1>3, <1>4, <1>5 DEF Shows
<1>7. meant' \subseteq meant \cup BitsOf!Below(set.mNumBitsActive)
  BY <1>2, <1>4
<1> QED BY <1>1, <1>3, <1>6, <1>7, ChangedHolds

LEMMA FlipBitHolds ==
    ASSUME Holds(set, meant), NEW i \in Nat, BitsOf!FlipBit(i)
    PROVE  Holds(set', meant')
<1> DEFINE f == [set.mBits EXCEPT ![i] = BitsOf!Flipped(@)]
<1>1. set' = [set EXCEPT !.mBits = f]
  BY DEF BitsOf!FlipBit
<1>2. i \in BitsOf!Below(set.mNumBitsActive)
  <2>1. set.mNumBitsActive \in Nat
    BY SizesOfBuckets DEF Holds, SetOf
  <2> QED BY <2>1 DEF BitsOf!FlipBit, BitsOf!Below
<1>3. /\ DOMAIN f \subseteq Int /\ f = [j \in DOMAIN f |-> f[j]]
      /\ DOMAIN f = DOMAIN set.mBits
      /\ \A j \in DOMAIN f : f[j] = IF j = i THEN BitsOf!Flipped(set.mBits[j]) ELSE set.mBits[j]
  BY DEF Holds
<1>4. meant' = IF i \in meant THEN meant \ {i} ELSE meant \cup {i}
  BY DEF BitsOf!FlipBit
<1>5. Shows(set.mBits, meant)
  BY DEF Holds
<1>6. BitsOf!Flipped(Unwritten) = Unwritten /\ BitsOf!Flipped(0) = 1 /\ BitsOf!Flipped(1) = 0
  BY BucketsHaveBits DEF BitsOf!Flipped
<1> HIDE DEF f
<1>7. Shows(f, meant')
  BY <1>3, <1>4, <1>5, <1>6 DEF Shows
<1>8. meant' \subseteq meant \cup BitsOf!Below(set.mNumBitsActive)
  BY <1>2, <1>4
<1> QED BY <1>1, <1>3, <1>7, <1>8, ChangedHolds

LEMMA AndBitHolds ==
    ASSUME Holds(set, meant), NEW i \in Nat, NEW v \in BitsOf!Bit, BitsOf!AndBit(i, v), ~spoilt'
    PROVE  Holds(set', meant')
<1> DEFINE bucket == {j \in DOMAIN set.mBits : j \div bits_per_bucket = i \div bits_per_bucket}
           cleared == bucket \ (IF v = 0 THEN {} ELSE {i})
           f == [j \in DOMAIN set.mBits |-> IF j \in cleared THEN 0 ELSE set.mBits[j]]
<1>1. set' = [set EXCEPT !.mBits = f]
  BY DEF BitsOf!AndBit
<1>2. /\ meant' = IF v = 0 THEN meant \ {i} ELSE meant
      /\ meant \cap (cleared \ {i}) = {}
  BY DEF BitsOf!AndBit
<1>3. (v # 0 => i \notin cleared) /\ (v = 0 /\ i \in DOMAIN set.mBits => i \in cleared)
  OBVIOUS
<1> HIDE DEF cleared
<1>4. DOMAIN f \subseteq Int /\ f = [j \in DOMAIN f |-> f[j]] /\ Shows(set.mBits, meant)
  BY DEF Holds
<1>5. Shows(f, meant')
  <2> SUFFICES ASSUME NEW j \in DOMAIN set.mBits
               PROVE  f[j] \in {Unwritten, IF j \in meant' THEN 1 ELSE 0}
    BY DEF Shows
  <2>1. CASE j \in cleared
    BY <1>2, <1>3, <2>1
  <2>2. CASE j \notin cleared
    BY <1>2, <1>3, <1>4, <2>2 DEF Shows
  <2> QED BY <2>1, <2>2
<1> HIDE DEF f
<1>6. meant' \subseteq meant \cup BitsOf!Below(set.mNumBitsActive)
  BY <1>2
<1> QED BY <1>1, <1>4, <1>5, <1>6, ChangedHolds

LEMMA CopyHolds ==
    ASSUME Holds(set, meant), BitsOf!Copy
    PROVE  Holds(set', meant')
<1> DEFINE f == [i \in DOMAIN set.mBits |->
                  IF i < BitsOf!Active(set) * bits_per_bucket THEN set.mBits[i] ELSE Unwritten]
<1>1. set' = [set EXCEPT !.mBits = f] /\ meant' = meant
  BY DEF BitsOf!Copy, BitsOf!Copied
<1>2. DOMAIN f \subseteq Int /\ f = [j \in DOMAIN f |-> f[j]] /\ Shows(f, meant)
  BY DEF Holds, Shows
<1> HIDE DEF f
<1> QED BY <1>1, <1>2, ChangedHolds

LEMMA CombinedHolds ==
    ASSUME Holds(set, meant), NEW range \in BitsOf!Ranges, NEW against,
           BitsOf!CombineWith(range, against) \/ (BitsOf!Invert(range) /\ against = range)
    PROVE  Holds(set', meant')
<1>1. range \subseteq BitsOf!Below(set.mNumBitsActive)
  <2>1. PICK a \in Nat, r \in Nat : SetOf(set, a, r)
    BY DEF Holds
  <2>2. BitsOf!Active(set) * bits_per_bucket = set.mNumBitsActive
    BY <2>1, SizesOfBuckets DEF BitsOf!Active, SetOf, Size
  <2> QED BY <2>2 DEF BitsOf!Ranges, BitsOf!Bucket, BitsOf!InUse
<1>2. Shows(set.mBits, meant) /\ DOMAIN set.mBits \subseteq Int
  BY DEF Holds
<1> DEFINE bits == against \cap range
           y(i) == IF i \in bits THEN 1 ELSE 0
           And == [i \in DOMAIN set.mBits |->
                     IF i \in range THEN BitsOf!And(set.mBits[i], y(i)) ELSE set.mBits[i]]
           Or == [i \in DOMAIN set.mBits |->
                     IF i \in range THEN BitsOf!Or(set.mBits[i], y(i)) ELSE set.mBits[i]]
           Xor == [i \in DOMAIN set.mBits |->
                     IF i \in range THEN BitsOf!Xor(set.mBits[i], y(i)) ELSE set.mBits[i]]
<1>3. CASE set' = [set EXCEPT !.mBits = And] /\ meant' = meant \ (range \ bits)
  <2>1. /\ DOMAIN And \subseteq Int /\ And = [j \in DOMAIN And |-> And[j]]
    BY <1>2
  <2>2. Shows(And, meant \ (range \ bits))
    BY <1>2 DEF Shows, BitsOf!And
  <2> HIDE DEF And
  <2> QED BY <1>3, <2>1, <2>2, ChangedHolds
<1>4. CASE set' = [set EXCEPT !.mBits = Or] /\ meant' = meant \cup bits
  <2>1. /\ DOMAIN Or \subseteq Int /\ Or = [j \in DOMAIN Or |-> Or[j]]
    BY <1>2
  <2>2. Shows(Or, meant \cup bits)
    BY <1>2 DEF Shows, BitsOf!Or
  <2>3. meant \cup bits \subseteq meant \cup BitsOf!Below(set.mNumBitsActive)
    BY <1>1
  <2> HIDE DEF Or
  <2> QED BY <1>4, <2>1, <2>2, <2>3, ChangedHolds
<1>5. CASE set' = [set EXCEPT !.mBits = Xor] /\ meant' = (meant \cup bits) \ (meant \cap bits)
  <2>1. /\ DOMAIN Xor \subseteq Int /\ Xor = [j \in DOMAIN Xor |-> Xor[j]]
    BY <1>2
  <2>2. BitsOf!Flipped(Unwritten) = Unwritten /\ BitsOf!Flipped(0) = 1 /\ BitsOf!Flipped(1) = 0
    BY BucketsHaveBits DEF BitsOf!Flipped
  <2>3. Shows(Xor, (meant \cup bits) \ (meant \cap bits))
    BY <1>2, <2>2 DEF Shows, BitsOf!Xor
  <2>4. (meant \cup bits) \ (meant \cap bits) \subseteq meant \cup BitsOf!Below(set.mNumBitsActive)
    BY <1>1
  <2> HIDE DEF Xor
  <2> QED BY <1>5, <2>1, <2>3, <2>4, ChangedHolds
<1>6. CASE BitsOf!CombineWith(range, against)
  <2>1. BitsOf!Combined(range, bits, BitsOf!And) = [set EXCEPT !.mBits = And]
    BY DEF BitsOf!Combined
  <2>2. BitsOf!Combined(range, bits, BitsOf!Or) = [set EXCEPT !.mBits = Or]
    BY DEF BitsOf!Combined
  <2>3. BitsOf!Combined(range, bits, BitsOf!Xor) = [set EXCEPT !.mBits = Xor]
    BY DEF BitsOf!Combined
  <2> QED BY <1>3, <1>4, <1>5, <1>6, <2>1, <2>2, <2>3 DEF BitsOf!CombineWith
<1>7. CASE BitsOf!Invert(range) /\ against = range
  <2>1. bits = range
    BY <1>7
  <2>2. BitsOf!Combined(range, range, BitsOf!Xor) = [set EXCEPT !.mBits = Xor]
    BY <2>1 DEF BitsOf!Combined
  <2> QED BY <1>5, <1>7, <2>1, <2>2 DEF BitsOf!Invert
<1> QED BY <1>6, <1>7

LEMMA ClearedHolds == Holds(BitsOf!Cleared, {})
<1>1. /\ BitsOf!Cleared = [mBits |-> BitsOf!NoBits, mNumBitsActive |-> 0, mNumBitsReserved |-> 0]
      /\ BitsOf!Cleared.mBits = BitsOf!NoBits
      /\ DOMAIN BitsOf!NoBits = {}
      /\ BitsOf!NoBits = [i \in DOMAIN BitsOf!NoBits |-> BitsOf!NoBits[i]]
  BY DEF BitsOf!Cleared, BitsOf!NoBits
<1>2. Size(0) = 0
  BY BucketsHaveBits DEF Size
<1>3. SetOf(BitsOf!Cleared, 0, 0)
  BY <1>1, <1>2 DEF SetOf
<1> DEFINE h == BitsOf!Cleared.mBits
<1>4. DOMAIN h \subseteq Int /\ h = [i \in DOMAIN h |-> h[i]] /\ Shows(h, {})
  BY <1>1 DEF Shows
<1>5. 0 \in Nat /\ 0 <= 0 /\ {} \subseteq BitsOf!Below(Size(0))
  OBVIOUS
<1> QED BY <1>3, <1>4, <1>5 DEF Holds

LEMMA BitsInvStep == BitsInv /\ [BitsOf!Next]_<<set, meant, spoilt>> => BitsInv'
<1>1. BitsInv /\ UNCHANGED <<set, meant, spoilt>> => BitsInv'
  BY DEF BitsInv, Holds, Shows, SetOf
<1>2. CASE BitsOf!Clear
  BY <1>2, ClearedHolds DEF BitsOf!Clear, BitsInv
<1>3. ASSUME BitsInv, ~spoilt, BitsOf!Next, ~BitsOf!Clear PROVE BitsInv'
  <2>1. Holds(set, meant)
    BY <1>3 DEF BitsInv
  <2>2. spoilt' \in BOOLEAN
    BY <1>3 DEF BitsInv, BitsOf!Next, BitsOf!Resize, BitsOf!Reserve, BitsOf!ResizeWith,
       BitsOf!FlipBit,
              BitsOf!SetBit, BitsOf!AndBit, BitsOf!Invert, BitsOf!CombineWith, BitsOf!Copy
  <2> SUFFICES ASSUME ~spoilt' PROVE Holds(set', meant')
    BY <2>2 DEF BitsInv, Holds, SetOf, Shows
  <2>3. \A n \in 1 .. MaxBits : n \in Nat
    OBVIOUS
  <2>4. \A i \in BitsOf!Below(MaxBits) : i \in Nat
    BY BucketsHaveBits DEF BitsOf!Below
  <2>5. ASSUME NEW n \in Nat, NEW bits, BitsOf!Resize(n) \/ BitsOf!Reserve(n)
               \/ BitsOf!ResizeWith(n, bits)
        PROVE  Holds(set', meant')
    BY <2>1, <2>5, ResizeHolds, ReserveHolds, LoadHolds
  <2>6. ASSUME NEW i \in Nat, NEW v \in BitsOf!Bit,
               BitsOf!FlipBit(i) \/ BitsOf!SetBit(i, v) \/ BitsOf!AndBit(i, v)
        PROVE  Holds(set', meant')
    BY <2>1, <2>6, FlipBitHolds, SetBitHolds, AndBitHolds
  <2>7. ASSUME NEW range \in BitsOf!Ranges, NEW bits, BitsOf!Invert(range)
               \/ BitsOf!CombineWith(range, bits)
        PROVE  Holds(set', meant')
    BY <2>1, <2>7, CombinedHolds
  <2>8. CASE BitsOf!Copy
    BY <2>1, <2>8, CopyHolds
  <2>9. 0 \in BitsOf!Bit
    BY DEF BitsOf!Bit
  <2> QED BY <1>3, <2>3, <2>4, <2>5, <2>6, <2>7, <2>8, <2>9 DEF BitsOf!Next
<1>4. BitsInv /\ spoilt /\ BitsOf!Next => BitsOf!Clear
  BY DEF BitsOf!Next
<1> QED BY <1>1, <1>2, <1>3, <1>4

(* A BitSet holds the bits that were set in it and no others, for any      *)
(* size of a bucket and of the slack and any number of bits.               *)
THEOREM BitsAreKept == LibrarySpec => []SetHoldsItsBits
<1>1. LibraryInit => BitsInv
  BY ClearedHolds DEF LibraryInit, BitsOf!Init, BitsInv
<1>2. BitsInv /\ [LibraryNext]_libraryVars => BitsInv'
  <2>1. [LibraryNext]_libraryVars => [BitsOf!Next]_<<set, meant, spoilt>>
    BY DEF LibraryNext, Others, libraryVars
  <2> QED BY <2>1, BitsInvStep
<1>3. BitsInv => SetHoldsItsBits
  BY DEF BitsInv, Holds, Shows, SetHoldsItsBits, BitsOf!SetHoldsItsBits
<1> QED BY <1>1, <1>2, <1>3, PTL DEF LibrarySpec
=============================================================================
