-------------------------- MODULE LeastRecentlyUsed --------------------------
(***************************************************************************)
(* What LRUCache and LRU8WayCache promise: a list of at most Capacity      *)
(* entries, the one used last in front; a new entry pushes the last one    *)
(* out.  Reading an entry with query is not a use.                         *)
(***************************************************************************)
EXTENDS Integers, Sequences

CONSTANTS Keys, Values, Capacity

VARIABLE entries

Entry(k, v) == [key |-> k, val |-> v]

Init == entries = <<>>

\* A key that is there comes to the front with its value.
Again(k, v) ==
    \E i \in 1..Len(entries) :
        /\ entries[i].key = k
        /\ entries' = <<Entry(k, v)>> \o SubSeq(entries, 1, i - 1)
                                     \o SubSeq(entries, i + 1, Len(entries))

\* A key that is not there pushes the last one out if the list is full.
First(k, v) ==
    /\ \A i \in 1..Len(entries) : entries[i].key # k
    /\ entries' = <<Entry(k, v)>>
                     \o SubSeq(entries, 1, IF Len(entries) < Capacity THEN Len(entries)
                                                                      ELSE Capacity - 1)

Use(k, v) == Again(k, v) \/ First(k, v)

Clear == entries' = <<>>

Next == Clear \/ \E k \in Keys, v \in Values : Use(k, v)

Spec == Init /\ [][Next]_entries
=============================================================================
