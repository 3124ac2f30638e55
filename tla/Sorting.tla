------------------------------ MODULE Sorting ------------------------------
(***************************************************************************)
(* The sequential sorts of Sort.hpp as functions of the array they are     *)
(* given. Arrays are functions on 0 .. count-1; an element is its key, and *)
(* the comparator is IsLess on keys. The sizes the code writes as numbers  *)
(* are constants here so that small arrays reach both sides of each.       *)
(* The code's loops and recursive calls are recursive functions.           *)
(***************************************************************************)
EXTENDS Integers, FiniteSets, SequencesExt

CONSTANTS Keys,          \* the keys; negative ones are those of a signed type
          SignedKeys,    \* is data_type a signed type?
          InsertionMax,  \* sort_quick leaves shorter ranges to insertion (64)
          StackSpace,    \* words of sort_quick_iterative's stack, and its limit (32)
          GapStop,       \* sort_shell's last gap but one exceeds this (4)
          Base, Digits,  \* radix of a digit (256) and digits sorted by (4)
          HashSize       \* number of unsigned long long values (2^64)

ASSUME SortingAssumption ==
    /\ Keys \subseteq Int
    /\ SignedKeys \in BOOLEAN
    /\ {InsertionMax, StackSpace, GapStop, Base, Digits, HashSize} \subseteq Nat \ {0}

Count(a) == Cardinality(DOMAIN a)
Like(a) == [DOMAIN a -> Keys]   \* the arrays that long
Less(x, y) == x < y
Swap(a, i, j) == [a EXCEPT ![i] = a[j], ![j] = a[i]]
SwapIf(a, i, j, cond) == IF cond THEN Swap(a, i, j) ELSE a

\* The values of a loop variable: from first, by inc, while below limit; and downwards.
Steps(first, limit, inc) ==
    [m \in 1 .. IF first < limit THEN (limit - first + inc - 1) \div inc ELSE 0
        |-> first + (m - 1) * inc]
Downwards(last, first) == Reverse(Steps(first, last + 1, 1))

-----------------------------------------------------------------------------
Bubble(a) ==
    LET Pass(x, i) ==
          FoldLeft(LAMBDA y, j : SwapIf(y, i, j, Less(y[j], y[i])),
                   x, Downwards(Count(a) - 1, i + 1))
    IN FoldLeft(Pass, a, Steps(0, Count(a), 1))

Selection(a) ==
    LET Smallest(x, i) ==
          FoldLeft(LAMBDA m, j : IF Less(x[j], x[m]) THEN j ELSE m,
                   i, Downwards(Count(a) - 1, i + 1))
    IN FoldLeft(LAMBDA x, i : Swap(x, i, Smallest(x, i)), a, Steps(0, Count(a), 1))

\* a[i] moves down, gap by gap and not below lo, past the elements it is less than.
Inserted(a, lo, gap, i) ==
    LET down[x \in Like(a), j \in Nat] ==
          IF j - gap >= lo /\ Less(x[j], x[j - gap])
          THEN down[Swap(x, j, j - gap), j - gap]
          ELSE x
    IN down[a, i]

\* Insertion sort of every gap-th element of a range: sort_insertion with
\* gap 1, sort_shell_insert with any gap.
Insertion(a, lo, hi, gap) ==
    FoldLeft(LAMBDA x, i : Inserted(x, lo, gap, i), a, Steps(lo + gap, hi + 1, gap))

ShellFrom(a, gap) ==
    LET Pass(x, g) == FoldLeft(LAMBDA y, j : Insertion(y, j, Count(a) - 1, g),
                               x, Steps(0, g, 1))
        from[x \in Like(a), g \in Nat] ==
          IF g > GapStop THEN from[Pass(x, g), g \div 4]
                         ELSE Insertion(x, 0, Count(a) - 1, 1)
    IN from[a, gap]

Shell(a) == ShellFrom(a, Count(a) \div 4)

-----------------------------------------------------------------------------
\* The right half is copied backwards, so that each half ends the other.
MergeSort(a, left, right) ==
    LET Halves(b, l, r) ==
          LET mid  == (l + r) \div 2
              temp == [p \in l .. r |-> IF p <= mid THEN b[p] ELSE b[r - p + 1 + mid]]
              Take(s, k) == IF Less(temp[s.i], temp[s.j])
                            THEN [a |-> [s.a EXCEPT ![k] = temp[s.i]], i |-> s.i + 1, j |-> s.j]
                            ELSE [a |-> [s.a EXCEPT ![k] = temp[s.j]], i |-> s.i, j |-> s.j - 1]
          IN FoldLeft(Take, [a |-> b, i |-> l, j |-> r], Steps(l, r + 1, 1)).a
        sorted[x \in Like(a), l \in Int, r \in Int] ==
          IF r - l < 1 THEN x
          ELSE LET mid == (l + r) \div 2
               IN Halves(sorted[sorted[x, l, mid], mid + 1, r], l, r)
    IN sorted[a, left, right]

\* A mutation: the second run is not asked for when the first one has ended.
Merged_SkipsTheRest(a, left, k) ==
    LET rght == left + k
        rend == Min({rght + k, Count(a)})
        Take(s, m) == IF s.j < rend /\ Less(a[s.j], a[s.i])
                      THEN [a |-> [s.a EXCEPT ![m] = a[s.j]], i |-> s.i, j |-> s.j + 1]
                      ELSE [a |-> [s.a EXCEPT ![m] = a[s.i]], i |-> s.i + 1, j |-> s.j]
    IN FoldLeft(Take, [a |-> a, i |-> left, j |-> rght], Steps(left, rend, 1)).a

\* One merge of the iterative sorts: [left, left+k) with what follows it.
Merged(a, left, k) ==
    LET rght == left + k
        rend == Min({rght + k, Count(a)})
        Right(s) == s.j < rend /\ (s.i >= rght \/ Less(a[s.j], a[s.i]))
        Take(s, m) == IF Right(s)
                      THEN [a |-> [s.a EXCEPT ![m] = a[s.j]], i |-> s.i, j |-> s.j + 1]
                      ELSE [a |-> [s.a EXCEPT ![m] = a[s.i]], i |-> s.i + 1, j |-> s.j]
    IN FoldLeft(Take, [a |-> a, i |-> left, j |-> rght], Steps(left, rend, 1)).a

MergeFrom(a, k) ==
    LET Pass(x, h) == FoldLeft(LAMBDA y, left : Merged(y, left, h),
                               x, Steps(0, Count(a) - h, 2 * h))
        from[x \in Like(a), h \in Nat] == IF h < Count(a) THEN from[Pass(x, h), 2 * h] ELSE x
    IN from[a, k]

-----------------------------------------------------------------------------
\* The do-while of sort_quick_impl: m climbs to an element not less than the
\* pivot, n descends to one not greater or to m, and the two are swapped.
Scan(a, pivot, m, n) ==
    LET scan[x \in Like(a), i \in Int, j \in Int] ==
          LET up   == Min({p \in DOMAIN a : p > i /\ ~Less(x[p], pivot)})
              down == IF up < j
                      THEN Max({p \in up .. j - 1 : p = up \/ ~Less(pivot, x[p])}) ELSE j
              b    == Swap(x, up, down)
          IN IF up < down THEN scan[b, up, down] ELSE [a |-> b, mid |-> up]
    IN scan[a, m, n]

Quick(a, left, right) ==
    LET quick[x \in Like(a), l \in Int, r \in Int] ==
          IF r <= l THEN x
          ELSE IF r - l < InsertionMax THEN Insertion(x, l, r, 1)
          ELSE LET b == Swap(x, (l + r) \div 2, r)
                   s == Scan(b, b[r], l - 1, r)
               IN quick[quick[Swap(s.a, s.mid, r), l, s.mid - 1], s.mid + 1, r]
    IN quick[a, left, right]

\* sort_quick_partition: the pivot waits at l while smaller elements gather behind it.
Partition(a, l, r) ==
    LET b == Swap(a, (l + r) \div 2, l)
        Gather(s, i) == IF Less(s.a[i], s.a[l])
                        THEN [a |-> Swap(s.a, i, s.mid + 1), mid |-> s.mid + 1] ELSE s
        g == FoldLeft(Gather, [a |-> b, mid |-> l], Steps(l + 1, r + 1, 1))
    IN [a |-> Swap(g.a, l, g.mid), mid |-> g.mid]

\* A mutation: the smaller part goes on the stack.
QuickStep_KeepsTheLarger(s) ==
    LET p == Partition(s.a, s.l, s.r)
        Pushed(range) == [s EXCEPT !.a = p.a, !.stack = Append(s.stack, range),
                                   !.fits = s.fits /\ 2 * Len(s.stack) + 2 <= StackSpace]
    IN IF p.mid >= (s.l + s.r) \div 2
       THEN [Pushed(<<p.mid + 1, s.r>>) EXCEPT !.r = p.mid - 1]
       ELSE [Pushed(<<s.l, p.mid - 1>>) EXCEPT !.l = p.mid + 1]

\* The larger part goes on the stack. "fits": no push was beyond its end.
QuickStep(s) ==
    LET p == Partition(s.a, s.l, s.r)
        Pushed(range) == [s EXCEPT !.a = p.a, !.stack = Append(s.stack, range),
                                   !.fits = s.fits /\ 2 * Len(s.stack) + 2 <= StackSpace]
    IN IF p.mid < (s.l + s.r) \div 2
       THEN [Pushed(<<p.mid + 1, s.r>>) EXCEPT !.r = p.mid - 1]
       ELSE [Pushed(<<s.l, p.mid - 1>>) EXCEPT !.l = p.mid + 1]

QuickLoop(q) ==
    LET States == [a : Like(q.a), stack : Seq(Int \X Int), fits : BOOLEAN, l : Int, r : Int]
        loop[s \in States] ==
          IF s.r - s.l >= StackSpace THEN loop[QuickStep(s)]
          ELSE LET b == Insertion(s.a, s.l, s.r, 1)
               IN IF s.stack = <<>> THEN [s EXCEPT !.a = b]
                  ELSE loop[[s EXCEPT !.a = b, !.stack = Front(s.stack),
                                      !.l = Last(s.stack)[1], !.r = Last(s.stack)[2]]]
    IN loop[q]

QuickIterative(a) ==
    QuickLoop([a |-> a, stack |-> <<>>, fits |-> TRUE, l |-> 0, r |-> Count(a) - 1])

-----------------------------------------------------------------------------
RadixIndexerAscending ==
    [k \in Keys |-> (IF SignedKeys THEN k - (-1) + 1 ELSE k) % HashSize]
RadixIndexerDescending ==
    [k \in Keys |-> HashSize - 1 - RadixIndexerAscending[k]]

\* A counting sort by one digit of the index: elements of one digit keep their
\* order. The places that radices[] counts are those of the digits one by one.
SortedByDigit(s, indexer, d) ==
    FlattenSeq([r \in 1 .. Base |->
        SelectSeq(s, LAMBDA k : (indexer[k] \div Base ^ d) % Base = r - 1)])

\* The elements at offset, offset+stride, ... sorted in place: shear_sort_internal.
RadixSortAt(a, count, offset, stride, indexer) ==
    LET b == FoldLeft(LAMBDA x, d : SortedByDigit(x, indexer, d),
                      [i \in 1 .. count |-> a[offset + (i - 1) * stride]],
                      Steps(0, Digits, 1))
        In(p) == \E i \in 0 .. count - 1 : p = offset + i * stride
    IN [p \in DOMAIN a |-> IF In(p) THEN b[(p - offset) \div stride + 1] ELSE a[p]]

RadixSort(a, indexer) == RadixSortAt(a, Count(a), 0, 1, indexer)

\* The comparator is asked about 0 and 1 only, to tell its direction.
RadixComparative(a, upwards) ==
    RadixSort(a, IF upwards THEN RadixIndexerAscending ELSE RadixIndexerDescending)
=============================================================================
