------------------------------ MODULE Callable ------------------------------
(***************************************************************************)
(* ls::utils::Function with its CallableType and FunctionType, with and    *)
(* without arguments.  A small callable is stored in the Function's own    *)
(* mBuffer, a large one on the heap; mFunction points to either.           *)
(*                                                                         *)
(* The constructor and the assignment from a Callable&& also take a        *)
(* Function that is an lvalue and not const: then what is stored is a      *)
(* reference to that Function, which is small.  Only a const Function is   *)
(* copied, and only a temporary or std::move is moved.  (Any other lvalue  *)
(* is stored as a reference too; it is a small callable here, and taken to *)
(* outlive the Functions.)                                                 *)
(***************************************************************************)
EXTENDS Integers, FiniteSets

CONSTANTS Functions,       \* the Function objects
          Small, Large,    \* callables of either size
          Blocks,          \* bound: what can be allocated at a time
          None

VARIABLE fn
(* fn.mFunction  per Function: None, the Function whose mBuffer it points  *)
(*               to, or a block of the heap                                *)
(* fn.mBuffer    per Function: None, a callable, or a Function for a       *)
(*               reference to it                                           *)
(* fn.heap       per block, the same                                       *)
(* fn.meant      history: the callable each Function should call           *)
(* fn.stale      history: Functions that refer to one that was changed     *)

Stored == Small \cup Large \cup Functions
Fits(x) == x \in Small \cup Functions       \* sizeof(...) <= maxSlackSpace

Init ==
    fn = [mFunction |-> [f \in Functions |-> None], mBuffer |-> [f \in Functions |-> None],
          heap |-> [k \in Blocks |-> None], meant |-> [f \in Functions |-> None], stale |-> {}]

-----------------------------------------------------------------------------
\* What mFunction points to
Content(s, f) ==
    LET p == s.mFunction[f]
    IN IF p = None THEN None ELSE IF p \in Functions THEN s.mBuffer[p] ELSE s.heap[p]

\* The Functions a call of f goes through, f included, are in S.
Leads(s, f, S) == f \in S /\ \A g \in S : Content(s, g) \in Functions => Content(s, g) \in S

\* What they hold: the Functions after f, and where the call ends.
Passed(s, f) ==
    {Content(s, g) : g \in {h \in Functions : \A S \in SUBSET Functions : Leads(s, f, S) => h \in S}}

Target(s, f) ==
    LET ends == Passed(s, f) \ Functions
    IN IF ends = {} THEN None ELSE CHOOSE x \in ends : TRUE

\* The history: the Functions in changed have other contents than before.
Changed(s, changed) ==
    [s EXCEPT !.stale = @ \cup {f \in Functions : Passed(s, f) \cap changed # {}}]

Meaning(s, f, x) == IF x \in Functions THEN s.meant[x] ELSE x
Staleness(s, f, from) == IF from \in s.stale THEN s.stale \cup {f} ELSE s.stale \ {f}

\* _reset()
Reset(s, f) ==
    IF s.mFunction[f] = None THEN s
    ELSE IF s.mFunction[f] = f
    THEN [s EXCEPT !.mBuffer[f] = None, !.mFunction[f] = None]
    ELSE [s EXCEPT !.heap[s.mFunction[f]] = None, !.mFunction[f] = None]

\* clone and clone_unchecked: the states after x is stored for f, in mBuffer, in
\* a new block, or not at all.
Cloned(s, f, x) ==
    IF Fits(x) THEN {[s EXCEPT !.mBuffer[f] = x, !.mFunction[f] = f]}
    ELSE {s} \cup
         {[s EXCEPT !.heap[k] = x, !.mFunction[f] = k] : k \in {b \in Blocks : s.heap[b] = None}}

\* CallableType::_init, and what its copies make of f
Initialised(s, f, x) == Cloned(Reset(s, f), f, x)
CopiedFrom(s, f, from) ==
    IF s.mFunction[from] = None THEN {Reset(s, f)} ELSE Cloned(Reset(s, f), f, Content(s, from))

\* Mutant: mFunction is taken as it is.
Moved_KeepsAddress(s, f, from) ==
    [Reset(s, f) EXCEPT !.mFunction[f] = s.mFunction[from], !.mFunction[from] = None,
                        !.mBuffer[f] = s.mBuffer[from]]

\* The bytes of mBuffer are copied, and stay in the other as well.
Moved(s, f, from) ==
    [Reset(s, f) EXCEPT
        !.mFunction[f] = IF s.mFunction[from] = from THEN f ELSE s.mFunction[from],
        !.mFunction[from] = None,
        !.mBuffer[f] = s.mBuffer[from]]

Holds(s, f) == s.mFunction[f] # None

-----------------------------------------------------------------------------
\* Function(Callable&&) and operator=(Callable&&).  A Function that is assigned
\* from itself loses what it had and refers to itself.
Assign(f, x) ==
    \E s \in Initialised(fn, f, x) :
        fn' = Changed([s EXCEPT !.meant[f] = IF Holds(s, f) THEN Meaning(fn, f, x) ELSE None,
                                !.stale = IF x \in Functions THEN Staleness(fn, f, x) ELSE @ \ {f}],
                      {f})

\* Function(const Function&) and operator=(const Function&)
Copy(f, from) ==
    \E s \in CopiedFrom(fn, f, from) :
        fn' = Changed([s EXCEPT !.meant[f] = IF Holds(s, f) THEN fn.meant[from] ELSE None,
                                !.stale = Staleness(fn, f, from)],
                      {f})

\* Function(Function&&) and operator=(Function&&)
Move(f, from) ==
    fn' = Changed([Moved(fn, f, from) EXCEPT
                     !.meant[f] = fn.meant[from], !.meant[from] = None,
                     !.stale = Staleness(fn, f, from) \ {from}],
                  {f, from})

\* ~Function()
Destroy(f) ==
    /\ Holds(fn, f)
    /\ fn' = Changed([Reset(fn, f) EXCEPT !.meant[f] = None, !.stale = @ \ {f}], {f})

Next ==
    \E f \in Functions :
        \/ \E x \in Stored : Assign(f, x)
        \/ \E from \in Functions \ {f} : Copy(f, from) \/ Move(f, from)
        \/ Destroy(f)

-----------------------------------------------------------------------------
(* A Function calls the callable it was given, through copies, moves and   *)
(* references, in its buffer or on the heap, and none if there was no      *)
(* memory for it.  One that was copied from an lvalue only refers to the   *)
(* other, so it is not what it was once the other is changed, moved or     *)
(* gone.  Each block of the heap belongs to one Function, and no Function  *)
(* points into the buffer of another.                                      *)
CallsWhatItWasGiven ==
    /\ \A f \in Functions \ fn.stale : Target(fn, f) = fn.meant[f]
    /\ \A f \in Functions : fn.mFunction[f] \in {None, f} \cup Blocks
    /\ \A k \in Blocks :
         Cardinality({f \in Functions : fn.mFunction[f] = k}) = IF fn.heap[k] = None THEN 0 ELSE 1
=============================================================================
