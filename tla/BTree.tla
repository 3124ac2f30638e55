------------------------------- MODULE BTree -------------------------------
(***************************************************************************)
(* ls::utils::BTree<key_t, data_t>: a binary tree over the bits of a key.  *)
(* A tree is the record of its nodes, named by the path of bits that leads *)
(* to them: subNodes holds the paths of the nodes that have their two      *)
(* subnodes, data the value of every node that has one.                    *)
(*                                                                         *)
(* get_byte stops after sizeof(k) bytes, where k is the pointer to the     *)
(* key: iterate reads PointerBits bits from the address of the key,        *)
(* however long the key is.  Of a longer key it reads the first part;      *)
(* behind a shorter one it reads whatever lies there.                      *)
(***************************************************************************)
EXTENDS Integers, FiniteSets, SequencesExt

CONSTANTS Values, Default,        \* what is stored; data_t{}
          KeyBits, PointerBits,   \* sizes of a key and of a pointer, in bits
          MaxEntries              \* bound on the entries of a tree

VARIABLES tree, map
(* tree[t] is one of two trees; map[t] is history: the dictionary its      *)
(* calls describe, and counted, the elements that a copy took over in its  *)
(* count alone.                                                            *)

Trees == {1, 2}
Bits == {0, 1}

BitStrings(n) == [1..n -> Bits]
KeyStrings == BitStrings(KeyBits)

Smaller(a, b) == IF a < b THEN a ELSE b

\* The bits that iterate can find when it is given the address of key k.
PathsOf(k) ==
    {SubSeq(k, 1, Smaller(KeyBits, PointerBits)) \o rest :
        rest \in BitStrings(PointerBits - Smaller(KeyBits, PointerBits))}

NoData == [p \in {} |-> Default]
Empty == [subNodes |-> {}, data |-> NoData, numNodes |-> 0]
NoEntries == [entries |-> NoData, counted |-> 0]

Init == tree = [t \in Trees |-> Empty] /\ map = [t \in Trees |-> NoEntries]

-----------------------------------------------------------------------------
Ancestors(path) == {SubSeq(path, 1, n) : n \in 0..Len(path) - 1}

\* iterate(k, true): makes the nodes on the way.
Reached(b, path) == [b EXCEPT !.subNodes = @ \cup Ancestors(path)]

\* iterate(k) and iterate(k, false) give a node.
HasNode(b, path) == Ancestors(path) \subseteq b.subNodes

contains(b, path) == HasNode(b, path) /\ path \in DOMAIN b.data

With(f, x, v) == [y \in DOMAIN f \cup {x} |-> IF y = x THEN v ELSE f[y]]
Without(f, x) == [y \in DOMAIN f \ {x} |-> f[y]]

\* Mutant: a value that replaces another is counted too.
Stored_CountsAgain(b, path, v) ==
    [Reached(b, path) EXCEPT !.data = With(@, path, v), !.numNodes = @ + 1]

\* push and emplace
Stored(b, path, v) ==
    [Reached(b, path) EXCEPT
        !.data = With(@, path, v),
        !.numNodes = IF path \in DOMAIN b.data THEN @ ELSE @ + 1]

\* operator[] of a tree that is not const
Subscripted(b, path) == IF contains(b, path) THEN b ELSE Stored(b, path, Default)

Popped(b, path) ==
    IF contains(b, path)
    THEN [b EXCEPT !.data = Without(@, path), !.numNodes = @ - 1]
    ELSE b

\* The copy constructor of a node copies the subnodes only if the node has data,
\* which the head never has: none of the elements, but the count.
CopyConstructed(b) ==
    IF <<>> \in DOMAIN b.data THEN b ELSE [Empty EXCEPT !.numNodes = b.numNodes]

-----------------------------------------------------------------------------
Put(t, k, v) == map' = [map EXCEPT ![t].entries = With(@, k, v)]

\* bound
HasRoom(t, k) == Cardinality(DOMAIN map[t].entries \cup {k}) <= MaxEntries

Push(t, k, v) ==
    /\ HasRoom(t, k)
    /\ \E path \in PathsOf(k) : tree' = [tree EXCEPT ![t] = Stored(@, path, v)]
    /\ Put(t, k, v)

Subscript(t, k) ==
    /\ HasRoom(t, k)
    /\ \E path \in PathsOf(k) : tree' = [tree EXCEPT ![t] = Subscripted(@, path)]
    /\ Put(t, k, IF k \in DOMAIN map[t].entries THEN map[t].entries[k] ELSE Default)

Pop(t, k) ==
    /\ \E path \in PathsOf(k) : tree' = [tree EXCEPT ![t] = Popped(@, path)]
    /\ map' = [map EXCEPT ![t].entries = Without(@, k)]

Clear(t) ==
    /\ tree' = [tree EXCEPT ![t] = Empty]
    /\ map' = [map EXCEPT ![t] = NoEntries]

\* A new tree in the place of t, made by the copy constructor.
CopyConstruct(t, from) ==
    /\ map[from].counted = 0      \* bound
    /\ tree' = [tree EXCEPT ![t] = CopyConstructed(tree[from])]
    /\ map' = [map EXCEPT ![t] = [NoEntries EXCEPT !.counted = tree[from].numNodes]]

\* operator=(const BTree&).  It deletes the array of subnodes as if it were
\* a single node, so nothing is known of a tree that had some.
CopyAssign(t, from) ==
    /\ tree[t].subNodes = {}
    /\ tree' = [tree EXCEPT ![t] = tree[from]]
    /\ map' = [map EXCEPT ![t] = map[from]]

\* The move constructor and operator=(BTree&&); the nodes of t are not freed.
Move(t, from) ==
    /\ tree' = [tree EXCEPT ![t] = tree[from], ![from] = Empty]
    /\ map' = [map EXCEPT ![t] = map[from], ![from] = NoEntries]

Next ==
    \E t \in Trees :
       \/ \E k \in KeyStrings :
            \/ \E v \in Values : Push(t, k, v)
            \/ Subscript(t, k)
            \/ Pop(t, k)
       \/ Clear(t)
       \/ \E from \in Trees \ {t} : CopyConstruct(t, from) \/ CopyAssign(t, from) \/ Move(t, from)

-----------------------------------------------------------------------------
(* With keys of the size of a pointer a tree is a dictionary, through all  *)
(* pushes, pops, moves and assignments: it finds the value last stored     *)
(* under each key, nothing else, and counts the keys.  The exception is a  *)
(* tree that goes back to a copy constructed from one with elements: it    *)
(* counts elements that it does not have (SizeCountsTheElements).          *)
TreeIsADictionary ==
    KeyBits = PointerBits =>
        \A t \in Trees :
            map[t].counted = 0 =>
                /\ tree[t].data = map[t].entries
                /\ tree[t].numNodes = Cardinality(DOMAIN tree[t].data)

(* What BTree.h says of size(), "the number of objects inserted", of every *)
(* tree, the copies included, which it calls copies of the data: size is   *)
(* the number of the elements that the tree holds.  The copy constructor   *)
(* makes it false.                                                         *)
SizeCountsTheElements ==
    \A t \in Trees : tree[t].numNodes = Cardinality(DOMAIN tree[t].data)

(* Every node can be reached: a node with subnodes or data has all its     *)
(* ancestors, and only nodes at the end of a key's path have data, so a    *)
(* pop that leaves nodes behind never hides what another key stored.       *)
NodesAreReachable ==
    \A t \in Trees :
        /\ \A p \in tree[t].subNodes \cup DOMAIN tree[t].data :
             Ancestors(p) \subseteq tree[t].subNodes
        /\ \A p \in DOMAIN tree[t].data : Len(p) = PointerBits
        /\ \A p \in tree[t].subNodes : Len(p) < PointerBits
=============================================================================
