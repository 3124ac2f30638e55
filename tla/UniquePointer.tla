--------------------------- MODULE UniquePointer ---------------------------
(***************************************************************************)
(* ls::utils::Pointer<data_t> and Pointer<data_t[]>, with the functions    *)
(* that make them, where PointerDeleter deletes.  Objects may hold a       *)
(* Pointer themselves, as the nodes of a list do: object o stands for its  *)
(* member too, so that deleting an object deletes all that it owns.        *)
(*                                                                         *)
(* Not here: AlignedDeleter, which frees memory without a destructor, so   *)
(* that what an object owns stays behind; the functions that make aligned  *)
(* objects; and the moves from a Pointer of a derived type, whose deleter  *)
(* may be another one.                                                     *)
(***************************************************************************)
EXTENDS Integers, FiniteSets

CONSTANTS Roots,      \* the Pointers outside of objects
          Objects,    \* bound: what can be allocated at a time
          Null

VARIABLES heap, ringed
(* heap.pData   what each Pointer holds                                    *)
(* heap.live    the objects that exist                                     *)
(* heap.raw     those that a caller has to delete                          *)
(* heap.spoilt  history: a Pointer deleted the object that it, or the one  *)
(*              it was to take from, is a member of; nothing follows       *)
(* ringed       history: a Pointer took an object that it is a member of,  *)
(*              or that owns the one it is a member of                     *)

Pointers == Roots \cup Objects

Init ==
    /\ heap = [pData |-> [p \in Pointers |-> Null], live |-> {}, raw |-> {}, spoilt |-> FALSE]
    /\ ringed = FALSE

-----------------------------------------------------------------------------
Owned(S) == {heap.pData[o] : o \in S} \ {Null}

\* The objects that deleting x deletes: x, and what an object among them owns.
Deletes(x) ==
    {o \in Objects : \A S \in SUBSET Objects :
        {x} \ {Null} \subseteq S /\ Owned(S) \subseteq S => o \in S}

Without(h, dead) ==
    [h EXCEPT !.live = @ \ dead, !.raw = @ \ dead,
              !.pData = [p \in Pointers |-> IF p \in dead THEN Null ELSE h.pData[p]]]

\* clear(): pData is deleted, and still holds what it held.
Cleared(p) == Without(heap, Deletes(heap.pData[p]))

\* Is one of the Pointers a member of what clear() deletes?
Inside(p, involved) == involved \cap Deletes(heap.pData[p]) # {}

Exists(p) == p \in Roots \cup heap.live

Spoilt == heap' = [heap EXCEPT !.spoilt = TRUE] /\ UNCHANGED ringed

\* History: p takes the object x.
Takes(p, x) == ringed' = (ringed \/ p \in Deletes(x))

-----------------------------------------------------------------------------
\* Mutant: the source keeps its data.
MoveAssign_KeepsSource(to, from) ==
    /\ heap.pData[to] # heap.pData[from]
    /\ IF Inside(to, {to, from}) THEN Spoilt
       ELSE /\ heap' = [Cleared(to) EXCEPT !.pData[to] = heap.pData[from]]
            /\ Takes(to, heap.pData[from])

\* operator=(Pointer&&).  A Pointer moved onto itself is left alone.
MoveAssign(to, from) ==
    /\ heap.pData[to] # heap.pData[from]
    /\ IF Inside(to, {to, from}) THEN Spoilt
       ELSE /\ heap' = [Cleared(to) EXCEPT !.pData[to] = heap.pData[from], !.pData[from] = Null]
            /\ Takes(to, heap.pData[from])

\* operator= of a Pointer to an array, which tells itself by its address
ArrayMoveAssign(to, from) ==
    /\ to # from
    /\ IF Inside(to, {to, from}) THEN Spoilt
       ELSE /\ heap' = [Cleared(to) EXCEPT !.pData[to] = heap.pData[from], !.pData[from] = Null]
            /\ Takes(to, heap.pData[from])

\* Pointer(Pointer&&), of a new Pointer in the place of an empty one
MoveConstruct(to, from) ==
    /\ heap.pData[to] = Null
    /\ heap' = [heap EXCEPT !.pData[to] = heap.pData[from], !.pData[from] = Null]
    /\ Takes(to, heap.pData[from])

\* make_unique_pointer and make_unique_array, as the value of an empty Pointer;
\* without memory it stays empty.
Make(to, o) ==
    /\ heap.pData[to] = Null
    /\ o \notin heap.live
    /\ heap' = [heap EXCEPT !.live = @ \cup {o}, !.pData[to] = o]
    /\ UNCHANGED ringed

\* reset(pNewData); with Null also ~Pointer().  A caller gives up an object.
Reset(p, o) ==
    /\ heap.pData[p] # Null \/ o # Null
    /\ IF Inside(p, {p}) \/ (o # Null /\ o \in Deletes(heap.pData[p])) THEN Spoilt
       ELSE /\ heap' = [Cleared(p) EXCEPT !.pData[p] = o, !.raw = @ \ {o}]
            /\ Takes(p, o)

Release(p) ==
    /\ heap.pData[p] # Null
    /\ heap' = [heap EXCEPT !.raw = @ \cup {heap.pData[p]}, !.pData[p] = Null]
    /\ UNCHANGED ringed

Swap(p, q) ==
    /\ heap' = [heap EXCEPT !.pData[p] = heap.pData[q], !.pData[q] = heap.pData[p]]
    /\ ringed' = (ringed \/ p \in Deletes(heap.pData[q]) \/ q \in Deletes(heap.pData[p]))

\* A caller deletes what release() gave out, as its Pointer would have done.
Delete(o) ==
    IF o \in Deletes(heap.pData[o]) THEN Spoilt
    ELSE heap' = Without(heap, Deletes(o)) /\ UNCHANGED ringed

Next ==
    /\ ~heap.spoilt
    /\ \/ \E p \in Pointers : /\ Exists(p)
                              /\ \/ \E o \in Objects : Make(p, o)
                                 \/ \E o \in heap.raw \cup {Null} : Reset(p, o)
                                 \/ Release(p)
       \/ \E p, q \in Pointers : /\ Exists(p) /\ Exists(q) /\ p # q
                                 /\ \/ MoveAssign(p, q) \/ ArrayMoveAssign(p, q)
                                    \/ MoveConstruct(p, q) \/ Swap(p, q)
       \/ \E o \in heap.raw : Delete(o)

-----------------------------------------------------------------------------
\* The objects that the Pointers outside of objects and the callers lead to.
Held ==
    {o \in Objects : \A S \in SUBSET Objects :
        heap.raw \subseteq S /\ Owned(Roots \cup S) \subseteq S => o \in S}

(* Every object is owned once, by one Pointer or by a caller, and no       *)
(* Pointer holds an object that was deleted, however objects that own each *)
(* other are moved about: nothing is deleted twice.  Nor is anything lost: *)
(* a Pointer outside of objects or a caller leads to each object, unless a *)
(* Pointer was once given what it is itself a part of                      *)
(* (node->next = move(list), and the list owns itself).  Pointers are      *)
(* cleared before they are set, so a list whose head is moved or reset     *)
(* from inside of what it owns is the other exception                      *)
(* (list = move(list->next)).                                              *)
ObjectsAreOwnedOnce ==
    ~heap.spoilt =>
        LET existing == Roots \cup heap.live
        IN /\ \A p \in existing : heap.pData[p] \in heap.live \cup {Null}
           /\ \A o \in heap.live :
                Cardinality({p \in existing : heap.pData[p] = o})
                    = IF o \in heap.raw THEN 0 ELSE 1
           /\ ringed \/ heap.live \subseteq Held
=============================================================================
