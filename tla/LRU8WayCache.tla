---------------------------- MODULE LRU8WayCache ----------------------------
(***************************************************************************)
(* ls::utils::LRU8WayCache<T>: a key stays in the way it was put in, and   *)
(* the order of use is a square matrix of bits in one 64-bit word.  A use  *)
(* of a way sets its row and then clears its column, so bit c of row r     *)
(* says that r was used after c.  A miss takes the lowest way whose row is *)
(* zero, found with the subtraction that looks for a zero byte.            *)
(*                                                                         *)
(* A row is the set of its bits.  Ways is 8 in the code.  CACHE_MISS, all  *)
(* ones in the code, is no caller's key.                                   *)
(***************************************************************************)
EXTENDS Integers, FiniteSets

CONSTANTS Keys, Values, Blank, Ways

ASSUME KeysAreNumbers == Keys \subseteq Nat
ASSUME WaysPositive == Ways \in Nat \ {0}
\* Blank is what a place holds that was never written.
ASSUME BlankIsNoValue == Blank \notin Values

VARIABLES mKeys, mRows, mData

vars == <<mKeys, mRows, mData>>

CACHE_MISS == -1

WayIds == 0..Ways - 1

Init ==
    /\ mKeys = [w \in WayIds |-> CACHE_MISS]
    /\ mRows = [w \in WayIds |-> {}]
    /\ mData = [w \in WayIds |-> Blank]

-----------------------------------------------------------------------------
Cached(k) == \E w \in WayIds : mKeys[w] = k

LookupIndexForKey(k) == CHOOSE w \in WayIds : mKeys[w] = k

ZeroRows == {w \in WayIds : mRows[w] = {}}

GetLRUIndex == CHOOSE w \in ZeroRows : \A u \in ZeroRows : w <= u

\* Mutant: the row is set, the column is not cleared.
UpdateLRUIndex_RowOnly(w) == mRows' = [mRows EXCEPT ![w] = WayIds \ {w}]

UpdateLRUIndex(w) ==
    mRows' = [r \in WayIds |-> (IF r = w THEN WayIds ELSE mRows[r]) \ {w}]

UsedWay(k) == IF Cached(k) THEN LookupIndexForKey(k) ELSE GetLRUIndex

\* Mutant: a hit is not a use.
Insert_HitKeepsOrder(k, v) ==
    /\ mKeys' = [mKeys EXCEPT ![UsedWay(k)] = k]
    /\ IF Cached(k) THEN UNCHANGED mRows ELSE UpdateLRUIndex(UsedWay(k))
    /\ mData' = [mData EXCEPT ![UsedWay(k)] = v]

\* insert, emplace, and update with an updater that leaves v.
Insert(k, v) ==
    /\ mKeys' = [mKeys EXCEPT ![UsedWay(k)] = k]
    /\ UpdateLRUIndex(UsedWay(k))
    /\ mData' = [mData EXCEPT ![UsedWay(k)] = v]

\* query_or_update calls the updater only on a miss.
QueryOrUpdate(k, v) ==
    /\ mKeys' = [mKeys EXCEPT ![UsedWay(k)] = k]
    /\ UpdateLRUIndex(UsedWay(k))
    /\ mData' = IF Cached(k) THEN mData ELSE [mData EXCEPT ![UsedWay(k)] = v]

Clear ==
    /\ mKeys' = [w \in WayIds |-> CACHE_MISS]
    /\ mRows' = [w \in WayIds |-> {}]
    /\ UNCHANGED mData

Next ==
    \/ \E k \in Keys, v \in Values : Insert(k, v) \/ QueryOrUpdate(k, v)
    \/ Clear

Spec == Init /\ [][Next]_vars

-----------------------------------------------------------------------------
\* What query(k) points at, and what operator[](k) returns for a cached key.
Query(k) == IF Cached(k) THEN mData[LookupIndexForKey(k)] ELSE Blank

(* Types; no key is cached in two ways.                                    *)
TypeOK ==
    /\ mKeys \in [WayIds -> Keys \cup {CACHE_MISS}]
    /\ mRows \in [WayIds -> SUBSET WayIds]
    /\ mData \in [WayIds -> Values \cup {Blank}]
    /\ \A w, u \in WayIds : w # u => mKeys[w] # mKeys[u] \/ mKeys[w] = CACHE_MISS

(* There is always a zero row: the search for one never runs off the end,  *)
(* where its result would be a way that does not exist.                    *)
VictimExists == ZeroRows # {}

(* The matrix is the order of use: a strict order, total on the ways in    *)
(* use, in which the unused ways come last.                                *)
RowsAreTheOrderOfUse ==
    /\ \A w \in WayIds : w \notin mRows[w]
    /\ \A w, u \in WayIds : u \in mRows[w] => mRows[u] \subseteq mRows[w]
    /\ \A w \in WayIds : mKeys[w] = CACHE_MISS => mRows[w] = {}
    /\ \A w, u \in WayIds :
         w # u /\ mKeys[w] # CACHE_MISS => u \in mRows[w] \/ w \in mRows[u]

(* An entry is replaced only when every way holds one, and then it is the  *)
(* one every other way was used after.                                     *)
Replaced(w) == mKeys[w] # CACHE_MISS /\ mKeys'[w] \notin {mKeys[w], CACHE_MISS}

ReplacesTheOldest ==
    [][\A w \in WayIds : Replaced(w) => \A u \in WayIds \ {w} : w \in mRows[u]]_vars

UsedWays == {w \in WayIds : mKeys[w] # CACHE_MISS}

\* The used ways, the one used last first.
NthUsed(n) ==
    CHOOSE w \in UsedWays : Cardinality({u \in UsedWays : w \in mRows[u]}) = n - 1

Entries ==
    [n \in 1..Cardinality(UsedWays) |->
        [key |-> mKeys[NthUsed(n)], val |-> mData[NthUsed(n)]]]
=============================================================================
