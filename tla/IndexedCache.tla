---------------------------- MODULE IndexedCache ----------------------------
(***************************************************************************)
(* ls::utils::IndexedCache<T, cacheSize>: each key has one place, key      *)
(* modulo cacheSize, and takes it from whatever key is there.              *)
(***************************************************************************)
EXTENDS Integers

CONSTANTS Keys, Values, Blank, CacheSize

VARIABLES mCacheIds, mData

vars == <<mCacheIds, mData>>

CACHE_MISS == -1

Places == 0..CacheSize - 1

Init ==
    /\ mCacheIds = [i \in Places |-> CACHE_MISS]
    /\ mData = [i \in Places |-> Blank]

-----------------------------------------------------------------------------
HashId(k) == k % CacheSize

Cached(k) == mCacheIds[HashId(k)] = k

Insert(k, v) ==
    /\ mCacheIds' = [mCacheIds EXCEPT ![HashId(k)] = k]
    /\ mData' = [mData EXCEPT ![HashId(k)] = v]

\* Mutant: any key that is there is taken for a hit.
QueryOrUpdate_AnyKey(k, v) ==
    /\ mCacheIds' = [mCacheIds EXCEPT ![HashId(k)] = k]
    /\ mData' = IF mCacheIds[HashId(k)] # CACHE_MISS THEN mData
                ELSE [mData EXCEPT ![HashId(k)] = v]

QueryOrUpdate(k, v) ==
    /\ mCacheIds' = [mCacheIds EXCEPT ![HashId(k)] = k]
    /\ mData' = IF Cached(k) THEN mData ELSE [mData EXCEPT ![HashId(k)] = v]

Clear == mCacheIds' = [i \in Places |-> CACHE_MISS] /\ UNCHANGED mData

Next ==
    \/ \E k \in Keys, v \in Values : Insert(k, v) \/ QueryOrUpdate(k, v)
    \/ Clear

Spec == Init /\ [][Next]_vars

-----------------------------------------------------------------------------
\* What query(k) points at, and what operator[](k) returns for a cached key.
Query(k) == IF Cached(k) THEN mData[HashId(k)] ELSE Blank
=============================================================================
