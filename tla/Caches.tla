------------------------------- MODULE Caches -------------------------------
(***************************************************************************)
(* The three caches side by side, of one size and given the same calls:    *)
(* the LRU8WayCache this module extends, an LRUCache and an IndexedCache.  *)
(***************************************************************************)
EXTENDS LRU8WayCache, Sequences

VARIABLES listKeys, listIndices, listData,     \* LRUCache
          mCacheIds, indexedData,              \* IndexedCache
          stored                               \* history: see IndexedHitsAreCurrent

List == INSTANCE LRUCache WITH
          CacheSize <- Ways,
          mKeys <- listKeys, mIndices <- listIndices, mData <- listData

Indexed == INSTANCE IndexedCache WITH CacheSize <- Ways, mData <- indexedData

allVars == <<vars, listKeys, listIndices, listData, mCacheIds, indexedData, stored>>

InitAll == Init /\ List!Init /\ Indexed!Init /\ stored = [k \in Keys |-> Blank]

\* A key takes its place from all others that share it.
Stored(k, v) ==
    stored' = [j \in Keys |-> IF j = k THEN v
                              ELSE IF (j - k) % Ways = 0 THEN Blank ELSE stored[j]]

InsertAll(k, v) ==
    /\ Insert(k, v) /\ List!Insert(k, v) /\ Indexed!Insert(k, v)
    /\ Stored(k, v)

QueryOrUpdateAll(k, v) ==
    /\ QueryOrUpdate(k, v) /\ List!QueryOrUpdate(k, v) /\ Indexed!QueryOrUpdate(k, v)
    /\ Stored(k, IF stored[k] = Blank THEN v ELSE stored[k])

ClearAll ==
    /\ Clear /\ List!Clear /\ Indexed!Clear
    /\ stored' = [k \in Keys |-> Blank]

NextAll ==
    \/ \E k \in Keys, v \in Values : InsertAll(k, v) \/ QueryOrUpdateAll(k, v)
    \/ ClearAll

SpecAll == InitAll /\ [][NextAll]_allVars

-----------------------------------------------------------------------------
(* In each of the two LRU caches no key is cached twice; in LRUCache no    *)
(* two keys share a value's place and the unused places are the last ones. *)
TypesOK == TypeOK /\ List!TypeOK

Abstract == INSTANCE LeastRecentlyUsed WITH Capacity <- Ways, entries <- Entries

(* The bit matrix of LRU8WayCache is the list of entries in the order of   *)
(* use: hits move an entry to the front, a miss pushes the last one out.   *)
MatrixImplementsLRU == Abstract!Spec

(* LRUCache, which rotates arrays, and LRU8WayCache, which sets bits, hold *)
(* the same entries in the same order after every sequence of calls.       *)
ListAgreesWithMatrix == List!Entries = Entries

(* query finds in an IndexedCache what was last left under the key, and    *)
(* nothing once another key took its place or the cache was cleared.       *)
IndexedHitsAreCurrent == \A k \in Keys : Indexed!Query(k) = stored[k]
=============================================================================
