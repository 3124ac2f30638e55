------------------------------ MODULE LRUCache ------------------------------
(***************************************************************************)
(* ls::utils::LRUCache<T, cacheSize>: mKeys in the order of use, the last  *)
(* used in front, and beside each key the place of its value in mData.  A  *)
(* use rotates both arrays up to the key's place; a miss takes the last    *)
(* place.  query changes nothing.                                          *)
(*                                                                         *)
(* CACHE_MISS, all ones in the code, is no caller's key.                   *)
(***************************************************************************)
EXTENDS Integers, FiniteSets

CONSTANTS Keys, Values, Blank, CacheSize

VARIABLES mKeys, mIndices, mData

vars == <<mKeys, mIndices, mData>>

CACHE_MISS == -1

Places == 0..CacheSize - 1

Emptied ==
    /\ mKeys = [i \in Places |-> CACHE_MISS]
    /\ mIndices = [i \in Places |-> i]

Init == Emptied /\ mData = [i \in Places |-> Blank]

-----------------------------------------------------------------------------
Cached(k) == \E i \in Places : mKeys[i] = k

SearchIndex(k) ==
    IF Cached(k)
    THEN CHOOSE i \in Places : mKeys[i] = k /\ \A j \in 0..i - 1 : mKeys[j] # k
    ELSE CACHE_MISS

\* Where the rotation of a use starts: at the key, or at the last place.
UsedPlace(k) == IF Cached(k) THEN SearchIndex(k) ELSE CacheSize - 1

\* The first p + 1 elements of a, turned by one, with x in front.
Rotated(a, p, x) ==
    [i \in Places |-> IF i = 0 THEN x ELSE IF i <= p THEN a[i - 1] ELSE a[i]]

\* Mutant: the keys turn, the places of their values stay.
UpdateIndex_KeysOnly(k) ==
    /\ mKeys' = Rotated(mKeys, UsedPlace(k), k)
    /\ UNCHANGED mIndices

\* _update_index, and the caller's mKeys[i] = key after a miss.
UpdateIndex(k) ==
    /\ mKeys' = Rotated(mKeys, UsedPlace(k), k)
    /\ mIndices' = Rotated(mIndices, UsedPlace(k), mIndices[UsedPlace(k)])

Slot(k) == mIndices[UsedPlace(k)]

\* insert, emplace, and update with an updater that leaves v.
Insert(k, v) ==
    /\ UpdateIndex(k)
    /\ mData' = [mData EXCEPT ![Slot(k)] = v]

\* query_or_update calls the updater only on a miss.
QueryOrUpdate(k, v) ==
    /\ UpdateIndex(k)
    /\ mData' = IF Cached(k) THEN mData ELSE [mData EXCEPT ![Slot(k)] = v]

Clear ==
    /\ mKeys' = [i \in Places |-> CACHE_MISS]
    /\ mIndices' = [i \in Places |-> i]
    /\ UNCHANGED mData

Next ==
    \/ \E k \in Keys, v \in Values : Insert(k, v) \/ QueryOrUpdate(k, v)
    \/ Clear

Spec == Init /\ [][Next]_vars

-----------------------------------------------------------------------------
\* What query(k) points at.
Query(k) == IF Cached(k) THEN mData[mIndices[SearchIndex(k)]] ELSE Blank

(* No key is cached twice, no two keys share a value's place, and the      *)
(* unused places are the last ones.                                        *)
TypeOK ==
    /\ mKeys \in [Places -> Keys \cup {CACHE_MISS}]
    /\ mIndices \in [Places -> Places]
    /\ mData \in [Places -> Values \cup {Blank}]
    /\ \A i, j \in Places : i # j => mIndices[i] # mIndices[j]
    /\ \A i, j \in Places : i < j => mKeys[i] # mKeys[j] \/ mKeys[j] = CACHE_MISS

UsedPlaces == {i \in Places : mKeys[i] # CACHE_MISS}

Entries ==
    [n \in 1..Cardinality(UsedPlaces) |->
        [key |-> mKeys[n - 1], val |-> mData[mIndices[n - 1]]]]
=============================================================================
