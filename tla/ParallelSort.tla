---------------------------- MODULE ParallelSort ----------------------------
(***************************************************************************)
(* The sorts of Sort.hpp that several threads call together on one array,  *)
(* and the sequential ones, which a single step of one thread stands for.  *)
(*                                                                         *)
(* Every parallel sort is a number of stages. In a stage a thread does its *)
(* own units of work (a merge of two runs, a compare and exchange of two   *)
(* elements, a row or column of a matrix), then adds one to numSortPhases  *)
(* and spins until all threads have added theirs. A step here is one unit, *)
(* so units of different threads interleave.                               *)
(***************************************************************************)
EXTENDS Sorting

CONSTANTS Calls   \* the calls to check: [kind, items, threads, given]; "given"
                  \* are the threads that get the temporary array they ask for

VARIABLES call,          \* the call under way
          items,
          numSortPhases, \* how often a thread has come to the end of a stage
          pc,            \* per thread: "work", "spin", "done", "gaveUp"
          stage, unit,   \* per thread: where it is
          fits           \* the stack of sort_quick_iterative never overflowed

vars == <<call, items, numSortPhases, pc, stage, unit, fits>>

Sequential == {"bubble", "selection", "insertion", "shell", "merge", "merge_iterative",
               "quick", "quick_iterative", "radix", "radix_less", "radix_greater"}
Parallel == {"parallel_merge", "sheared", "bitonic", "odd_even"}

\* sort_sheared divides by the number of columns of the array.
ASSUME CallsAssumption ==
    \A c \in Calls :
        /\ c.kind \in Sequential \cup Parallel
        /\ IsFiniteSet(DOMAIN c.items)
        /\ c.items \in [0 .. Count(c.items) - 1 -> Keys]
        /\ c.kind = "sheared" => Count(c.items) > 0
        /\ c.threads \in Nat \ {0}
        /\ c.given \subseteq 0 .. c.threads - 1

n == Count(call.items)
Threads == 0 .. call.threads - 1
AllThreads == UNION {0 .. c.threads - 1 : c \in Calls}
PowerOfTwo(x) == \E e \in 0 .. x : 2 ^ e = x
Log2Up(x) == Cardinality({e \in 0 .. x : 2 ^ e < x})  \* fast_log2
IntSqrt(x) == Max({i \in 0 .. x : i * i <= x})        \* int_sqrt

-----------------------------------------------------------------------------
(* The stages of each sort and the units of each thread in a stage         *)

Doublings ==
    LET k[e \in 1 .. Log2Up(n)] == IF e = 1 THEN 1 ELSE 2 * k[e - 1] IN k

\* The two loops of sort_bitonic and sort_odd_even: k doubles, j halves from k to 1.
Exchanges ==
    LET k == Doublings
    IN FlattenSeq([e \in DOMAIN k |-> [h \in 1 .. e |-> <<k[e], k[e + 1 - h]>>]])

Cols == IntSqrt(n)
FullRows == n \div Cols
FinalCol == n % Cols
TotalRows == FullRows + (IF FinalCol # 0 THEN 1 ELSE 0)

Stages ==
    CASE call.kind = "parallel_merge" -> Doublings
      [] call.kind \in {"bitonic", "odd_even"} ->
             IF PowerOfTwo(n) THEN Exchanges ELSE <<>>
      [] call.kind = "sheared" ->
             [p \in 1 .. 2 * Log2Up(Cols) + 1 |->
                 IF p = 2 * Log2Up(Cols) + 1 THEN "pairs"
                 ELSE IF p % 2 = 0 THEN "columns" ELSE "rows"]

MergeUnits(t, k) == Steps(2 * k * t, n - k, 2 * k * call.threads)

\* A unit is an index of the thread's part of the array ...
BitonicUnits(t) ==
    LET chunk == n \div call.threads
    IN Steps(chunk * t, Min({chunk * (t + 1), n}), 1)

\* ... or of its blocks of k elements.
OddEvenUnits(t, p, k) ==
    LET blocks == Steps((k % p) + 2 * k * t, n - k, 2 * k * call.threads)
    IN FlattenSeq([b \in DOMAIN blocks |-> Steps(blocks[b], blocks[b] + k, 1)])

\* Is the index u the lower one of a pair that the stage s compares?
Compares(s, u) ==
    CASE call.kind = "bitonic"  -> (u \div s[2]) % 2 = 0
      [] call.kind = "odd_even" -> u \div (2 * s[1]) = (u + s[2]) \div (2 * s[1])

\* A unit of the last stage is the end of the first of a pair of rows.
ShearedUnits(t, s) ==
    CASE s = "rows"    -> Steps(t, FullRows, call.threads)
      [] s = "columns" -> Steps(t, Cols, call.threads)
      [] s = "pairs"   -> Steps((2 * t + 1) * Cols, FullRows * Cols + 1, 2 * Cols * call.threads)

Units(t, s) ==
    CASE call.kind = "parallel_merge" -> MergeUnits(t, s)
      [] call.kind = "bitonic"        -> BitonicUnits(t)
      [] call.kind = "odd_even"       -> OddEvenUnits(t, s[1], s[2])
      [] call.kind = "sheared"        -> ShearedUnits(t, s)

\* How many elements the last stage sorts from the row that ends at i: two
\* rows, and what is left of the array with the last ones.
PairLength(i) ==
    LET numSquared == FullRows * Cols
    IN Cols + CASE i = numSquared        -> FinalCol
                [] i + Cols = numSquared -> Cols + FinalCol
                [] OTHER                 -> Cols

\* What a unit does to the array, and the places it reads and writes.
Sheared(a, s, u) ==
    CASE s = "rows"    -> RadixSortAt(a, Cols, u * Cols, 1,
                              IF u % 2 # 0 THEN RadixIndexerAscending
                                           ELSE RadixIndexerDescending)
      [] s = "columns" -> RadixSortAt(a, IF u < FinalCol THEN TotalRows ELSE FullRows,
                                      u, Cols, RadixIndexerAscending)
      [] s = "pairs"   -> RadixSortAt(a, PairLength(u), u - Cols, 1, RadixIndexerAscending)

Effect(a, s, u) ==
    CASE call.kind = "parallel_merge" -> Merged(a, u, s)
      [] call.kind = "bitonic" ->
             LET l == u + s[2]
             IN SwapIf(a, u, l, /\ Compares(s, u)
                                /\ IF (u \div (2 * s[1])) % 2 # 0 THEN Less(a[u], a[l])
                                                                ELSE Less(a[l], a[u]))
      [] call.kind = "odd_even" ->
             SwapIf(a, u, u + s[2], Compares(s, u) /\ Less(a[u + s[2]], a[u]))
      [] call.kind = "sheared" -> Sheared(a, s, u)

Footprint(s, u) ==
    CASE call.kind = "parallel_merge"         -> u .. Min({u + 2 * s, n}) - 1
      [] call.kind \in {"bitonic", "odd_even"} -> IF Compares(s, u) THEN {u, u + s[2]} ELSE {}
      [] call.kind = "sheared" ->
             CASE s = "rows"    -> u * Cols .. (u + 1) * Cols - 1
               [] s = "columns" -> {p \in 0 .. n - 1 : p % Cols = u}
               [] s = "pairs"   -> u - Cols .. u - Cols + PairLength(u) - 1

-----------------------------------------------------------------------------
SortAlone(kind, a) ==
    CASE kind = "bubble"          -> Bubble(a)
      [] kind = "selection"       -> Selection(a)
      [] kind = "insertion"       -> Insertion(a, 0, Count(a) - 1, 1)
      [] kind = "shell"           -> Shell(a)
      [] kind = "merge"           -> MergeSort(a, 0, Count(a) - 1)
      [] kind = "merge_iterative" -> MergeFrom(a, 1)
      [] kind = "quick"           -> Quick(a, 0, Count(a) - 1)
      [] kind = "radix"           -> RadixSort(a, RadixIndexerAscending)
      [] kind = "radix_less"      -> RadixComparative(a, TRUE)
      [] kind = "radix_greater"   -> RadixComparative(a, FALSE)

Init ==
    /\ call \in Calls
    /\ items = call.items
    /\ numSortPhases = 0
    /\ pc = [t \in AllThreads |-> IF t \notin Threads THEN "done"
                                 ELSE IF t \in call.given THEN "work" ELSE "gaveUp"]
    /\ stage = [t \in AllThreads |-> 1]
    /\ unit = [t \in AllThreads |-> 1]
    /\ fits = TRUE

\* A sequential sort, which uses no phase count.
Alone(t) ==
    /\ call.kind \in Sequential
    /\ pc[t] = "work"
    /\ IF call.kind = "quick_iterative"
       THEN LET q == QuickIterative(items) IN items' = q.a /\ fits' = q.fits
       ELSE items' = SortAlone(call.kind, items) /\ UNCHANGED fits
    /\ pc' = [pc EXCEPT ![t] = "done"]
    /\ UNCHANGED <<call, numSortPhases, stage, unit>>

Working(t) ==
    /\ call.kind \in Parallel
    /\ pc[t] = "work"
    /\ stage[t] <= Len(Stages)

NextUnits(t) == Units(t, Stages[stage[t]])

\* The next unit of a thread in its stage.
Work(t) ==
    /\ Working(t)
    /\ unit[t] <= Len(NextUnits(t))
    /\ items' = Effect(items, Stages[stage[t]], NextUnits(t)[unit[t]])
    /\ unit' = [unit EXCEPT ![t] = @ + 1]
    /\ UNCHANGED <<call, numSortPhases, pc, stage, fits>>

\* numSortPhases->fetch_add(1)
Arrive(t) ==
    /\ Working(t)
    /\ unit[t] > Len(NextUnits(t))
    /\ numSortPhases' = numSortPhases + 1
    /\ pc' = [pc EXCEPT ![t] = "spin"]
    /\ UNCHANGED <<call, items, stage, unit, fits>>

StageIsOver_OneEarly(t) == numSortPhases >= stage[t] * call.threads - 1
StageIsOver_Late(t) == numSortPhases > stage[t] * call.threads
StageIsOver(t) == numSortPhases >= stage[t] * call.threads

\* The load that ends the spin, and with it the stage.
Leave(t) ==
    /\ pc[t] = "spin"
    /\ StageIsOver(t)
    /\ stage' = [stage EXCEPT ![t] = @ + 1]
    /\ unit' = [unit EXCEPT ![t] = 1]
    /\ pc' = [pc EXCEPT ![t] = "work"]
    /\ UNCHANGED <<call, items, numSortPhases, fits>>

Return(t) ==
    /\ call.kind \in Parallel
    /\ pc[t] = "work"
    /\ stage[t] > Len(Stages)
    /\ pc' = [pc EXCEPT ![t] = "done"]
    /\ UNCHANGED <<call, items, numSortPhases, stage, unit, fits>>

Together(t) == Work(t) \/ Arrive(t) \/ Leave(t) \/ Return(t)

Next == \E t \in Threads : Alone(t) \/ Together(t)

CanStep(t) == pc[t] = "work" \/ (pc[t] = "spin" /\ StageIsOver(t))

\* Every thread keeps running: weak fairness of each thread's steps, each of
\* which changes where the thread is. (Written out, so that whether a step is
\* enabled needs no evaluation of what it does to the array.)
Fairness ==
    \A t \in AllThreads :
        []<>~CanStep(t) \/ []<><<Next>>_<<pc[t], stage[t], unit[t]>>

Spec == Init /\ [][Next]_vars /\ Fairness

-----------------------------------------------------------------------------
AllDone == \A t \in Threads : pc[t] = "done"

\* The sorts that only take arrays of 2^m elements return at once from others.
Refused == call.kind \in {"bitonic", "odd_even"} /\ ~PowerOfTwo(n)

Precedes(x, y) == IF call.kind = "radix_greater" THEN x >= y ELSE x <= y

Permutation(a, b) ==
    \A k \in Keys : Cardinality({i \in DOMAIN a : a[i] = k})
                  = Cardinality({i \in DOMAIN b : b[i] = k})

(* No thread works on a place of the array that another thread is working  *)
(* on: the phase count keeps the stages apart, and within a stage every    *)
(* place belongs to one thread.                                            *)
UnitsAreDisjoint ==
    \A t, u \in Threads :
        (t # u /\ Working(t) /\ Working(u)) =>
            LET x == NextUnits(t)
                y == NextUnits(u)
            IN \A i \in unit[t] .. Len(x), j \in unit[u] .. Len(y) :
                   Footprint(Stages[stage[t]], x[i])
                     \cap Footprint(Stages[stage[u]], y[j]) = {}

(* Once all threads have returned the array holds the elements it held     *)
(* before, in order, whatever the interleaving of the threads was; and no  *)
(* element is lost or doubled on the way.                                  *)
SortedWhenDone ==
    /\ Permutation(items, call.items)
    /\ AllDone /\ ~Refused => \A i \in 1 .. n - 1 : Precedes(items[i - 1], items[i])

(* sort_quick_iterative goes on with the smaller part of a partition and   *)
(* keeps the larger, so its stack suffices for arrays of less than         *)
(* 2 ^ (StackSpace \div 2) * (StackSpace + 1) elements.                    *)
QuickStackSuffices == fits

(* Every thread of a parallel sort returns, unless one got no temporary    *)
(* array: that one never comes to the end of a stage, and the others spin  *)
(* for ever.                                                               *)
EverybodyReturns ==
    call.kind \in Parallel => <>(AllDone \/ call.given # Threads)
=============================================================================
