---------------------------- MODULE CommonLemmas -----------------------------
(***************************************************************************)
(* Lemmas that the proofs about several components share: how appending to *)
(* a queue of tasks, taking its head and cutting it off change what it     *)
(* holds and the order it is in; division with a remainder; least numbers; *)
(* induction on the steps of a loop.                                       *)
(***************************************************************************)
EXTENDS TaskQueue, SequenceTheorems, WellFoundedInduction, TLAPS

(* Appending adds one element, and a queue is its head and its tail.       *)
LEMMA ElementsOfAppend ==
    ASSUME NEW S, NEW s \in Seq(S), NEW x \in S
    PROVE  ToSet(Append(s, x)) = ToSet(s) \cup {x}
<1>1. /\ Len(s) \in Nat /\ DOMAIN s = 1 .. Len(s)
      /\ DOMAIN Append(s, x) = 1 .. Len(s) + 1
    OBVIOUS
<1>2. /\ \A i \in 1 .. Len(s) : Append(s, x)[i] = s[i]
      /\ Append(s, x)[Len(s) + 1] = x
    OBVIOUS
<1> QED BY <1>1, <1>2 DEF ToSet

LEMMA ElementsOfTail ==
    ASSUME NEW S, NEW s \in Seq(S), s # <<>>
    PROVE  ToSet(s) = {Head(s)} \cup ToSet(Tail(s))
<1>1. Len(s) \in Nat /\ Len(s) > 0 /\ Len(Tail(s)) = Len(s) - 1
    OBVIOUS
<1>2. \A i \in 1 .. Len(s) : i = 1 \/ (i - 1 \in 1 .. Len(Tail(s)) /\ Tail(s)[i - 1] = s[i])
    BY <1>1
<1>3. \A i \in 1 .. Len(Tail(s)) : i + 1 \in 1 .. Len(s) /\ Tail(s)[i] = s[i + 1]
    BY <1>1
<1>4. Head(s) = s[1] /\ 1 \in 1 .. Len(s)
    BY <1>1
<1>5. DOMAIN s = 1 .. Len(s) /\ DOMAIN Tail(s) = 1 .. Len(Tail(s))
    OBVIOUS
<1>6. ToSet(s) \subseteq {Head(s)} \cup ToSet(Tail(s))
    BY <1>2, <1>4, <1>5 DEF ToSet
<1>7. ToSet(Tail(s)) \subseteq ToSet(s)
    BY <1>3, <1>5 DEF ToSet
<1>8. Head(s) \in ToSet(s)
    BY <1>4, <1>5 DEF ToSet
<1> QED BY <1>6, <1>7, <1>8

LEMMA ElementsOfEmpty == ToSet(<<>>) = {}
BY DEF ToSet

LEMMA ElementsOfOne == \A x : ToSet(<<x>>) = {x}
BY DEF ToSet

(* Taking the head of the queue to the end of what was started leaves the  *)
(* two together as they were.                                              *)
LEMMA TakeKeepsOrder ==
    ASSUME NEW S, NEW s \in Seq(S), NEW q \in Seq(S), q # <<>>
    PROVE  Append(s, Head(q)) \o Tail(q) = s \o q
<1> DEFINE l == Append(s, Head(q)) \o Tail(q)
           r == s \o q
<1>1. Append(s, Head(q)) \in Seq(S) /\ Tail(q) \in Seq(S)
    OBVIOUS
<1>2. l \in Seq(S) /\ r \in Seq(S)
    BY <1>1
<1>3. Len(l) = Len(r)
    BY <1>1
<1>4. \A i \in 1 .. Len(l) : l[i] = r[i]
    <2> SUFFICES ASSUME NEW i \in 1 .. Len(l) PROVE l[i] = r[i]
        OBVIOUS
    <2>1. CASE i <= Len(s)
        BY <1>1, <2>1
    <2>2. CASE i = Len(s) + 1
        BY <1>1, <2>2
    <2>3. CASE i > Len(s) + 1
        BY <1>1, <2>3
    <2> QED BY <2>1, <2>2, <2>3
<1> HIDE DEF l, r
<1>5. l = r
    BY <1>2, <1>3, <1>4, SeqEqual
<1> QED BY <1>5 DEF l, r

-----------------------------------------------------------------------------
(* Order: s is what was started, q is the queue behind it, n the number of *)
(* the task pushed last.                                                   *)
Ordered(s, n) == TasksInOrder(s) /\ \A i \in 1 .. Len(s) : s[i] <= n

LEMMA OrderedPush ==
    ASSUME NEW s \in Seq(Nat), NEW n \in Nat, Ordered(s, n)
    PROVE  Ordered(Append(s, n + 1), n + 1)
BY DEF Ordered, TasksInOrder

LEMMA OrderedCut ==
    ASSUME NEW s \in Seq(Nat), NEW q \in Seq(Nat), NEW n \in Nat, Ordered(s \o q, n)
    PROVE  Ordered(s, n)
<1> DEFINE r == s \o q
<1>1. \A i \in 1 .. Len(s) : i \in 1 .. Len(r) /\ r[i] = s[i]
    OBVIOUS
<1>2. Ordered(r, n)
    OBVIOUS
<1> HIDE DEF r
<1>3. DOMAIN s = 1 .. Len(s) /\ DOMAIN r = 1 .. Len(r)
    BY DEF r
<1> QED BY <1>1, <1>2, <1>3 DEF Ordered, TasksInOrder

(* What was started and what is queued was numbered up to n.               *)
LEMMA OrderedIsBounded ==
    ASSUME NEW s \in Seq(Nat), NEW q \in Seq(Nat), NEW n \in Nat, Ordered(s \o q, n)
    PROVE  ToSet(s) \subseteq 0 .. n /\ ToSet(q) \subseteq 0 .. n
<1> DEFINE r == s \o q
<1>1. \A i \in 1 .. Len(r) : r[i] <= n
    BY DEF Ordered
<1>2. ASSUME NEW i \in 1 .. Len(s) PROVE s[i] \in 0 .. n
    <2>1. i \in 1 .. Len(r) /\ r[i] = s[i]
        OBVIOUS
    <2> HIDE DEF r
    <2>2. r[i] <= n
        BY <1>1, <2>1
    <2>3. s[i] \in Nat
        OBVIOUS
    <2> QED BY <2>1, <2>2, <2>3
<1>3. ASSUME NEW i \in 1 .. Len(q) PROVE q[i] \in 0 .. n
    <2>1. Len(s) + i \in 1 .. Len(r) /\ r[Len(s) + i] = q[i]
        OBVIOUS
    <2> HIDE DEF r
    <2>2. r[Len(s) + i] <= n
        BY <1>1, <2>1
    <2>3. q[i] \in Nat
        OBVIOUS
    <2> QED BY <2>1, <2>2, <2>3
<1> QED BY <1>2, <1>3 DEF ToSet

(* The changes the workers and their clients make: a task is taken, one is *)
(* pushed, the queue is cut off, or cut off and filled anew; a number may  *)
(* be passed over, of a task that never was in the queue.                  *)
LEMMA OrderedAfter ==
    ASSUME NEW s \in Seq(Nat), NEW q \in Seq(Nat), NEW n \in Nat, Ordered(s \o q, n)
    PROVE  /\ q # <<>> => Ordered(Append(s, Head(q)) \o Tail(q), n)
           /\ Ordered(s \o Append(q, n + 1), n + 1)
           /\ Ordered(s \o <<>>, n)
           /\ Ordered(s \o <<n + 1>>, n + 1)
           /\ Ordered(s \o q, n + 1) /\ Ordered(s \o <<>>, n + 1)
<1>1. q # <<>> => Append(s, Head(q)) \o Tail(q) = s \o q
    BY TakeKeepsOrder
<1>2. s \o Append(q, n + 1) = Append(s \o q, n + 1)
    <2>1. n + 1 \in Nat /\ <<n + 1>> \in Seq(Nat) /\ s \o q \in Seq(Nat)
        OBVIOUS
    <2>2. Append(q, n + 1) = q \o <<n + 1>> /\ Append(s \o q, n + 1) = (s \o q) \o <<n + 1>>
        BY <2>1, AppendIsConcat
    <2> QED BY <2>1, <2>2, ConcatAssociative
<1>3. s \o <<>> = s /\ s \o <<n + 1>> = Append(s, n + 1) /\ s \o q \in Seq(Nat)
    BY AppendIsConcat
<1>4. Ordered(s, n) /\ Ordered(Append(s, n + 1), n + 1)
    BY OrderedCut, OrderedPush
<1>5. Ordered(Append(s \o q, n + 1), n + 1)
    BY <1>3, OrderedPush
<1>6. q # <<>> => Ordered(Append(s, Head(q)) \o Tail(q), n)
    BY <1>1, Zenon
<1>7. Ordered(s \o Append(q, n + 1), n + 1)
    BY <1>2, <1>5, Zenon
<1>8. Ordered(s \o <<>>, n) /\ Ordered(s \o <<n + 1>>, n + 1)
    BY <1>3, <1>4, Zenon
<1>9. Ordered(s \o q, n + 1) /\ Ordered(s, n + 1)
    <2>1. s \o q \in Seq(Nat)
        BY <1>3
    <2>2. \A r \in Seq(Nat) : Ordered(r, n) => Ordered(r, n + 1)
        BY DEF Ordered
    <2> QED BY <1>4, <2>1, <2>2
<1> QED BY <1>3, <1>6, <1>7, <1>8, <1>9, Zenon
-----------------------------------------------------------------------------
(* Division with a remainder, by any divisor                               *)

LEMMA DivMod ==
    ASSUME NEW a \in Int, NEW d \in Nat \ {0}
    PROVE  a = d * (a \div d) + (a % d) /\ a % d \in 0 .. d - 1 /\ a \div d \in Int
OBVIOUS

LEMMA ModUnique ==
    ASSUME NEW d \in Nat \ {0}, NEW q \in Int, NEW r \in 0 .. d - 1
    PROVE  (d * q + r) % d = r /\ (d * q + r) \div d = q
OBVIOUS

(* Multiples of the divisor do not matter.                                 *)
LEMMA ModShift ==
    ASSUME NEW a \in Int, NEW d \in Nat \ {0}, NEW q \in Int
    PROVE  (a + d * q) % d = a % d
<1> DEFINE p == a \div d
           r == a % d
<1>1. a = d * p + r /\ r \in 0 .. d - 1 /\ p \in Int
    BY DivMod
<1> HIDE DEF p, r
<1>2. a + d * q = d * (p + q) + r
    BY <1>1
<1>3. (d * (p + q) + r) % d = r
    BY <1>1, ModUnique
<1> QED BY <1>2, <1>3 DEF r

LEMMA SameResidue ==
    ASSUME NEW a \in Int, NEW b \in Int, NEW d \in Nat \ {0}
    PROVE  (a - b) % d = 0 <=> a % d = b % d
<1> DEFINE p == a \div d
           q == b \div d
           r == a % d
           s == b % d
<1>1. a = d * p + r /\ r \in 0 .. d - 1 /\ p \in Int
    BY DivMod
<1>2. b = d * q + s /\ s \in 0 .. d - 1 /\ q \in Int
    BY DivMod
<1> HIDE DEF p, q, r, s
<1>3. CASE r >= s
    <2>1. a - b = d * (p - q) + (r - s)
        BY <1>1, <1>2
    <2>2. (d * (p - q) + (r - s)) % d = r - s
        BY <1>1, <1>2, <1>3, ModUnique
    <2> QED BY <1>1, <1>2, <2>1, <2>2 DEF r, s
<1>4. CASE r < s
    <2>1. a - b = d * (p - q - 1) + (d + r - s)
        BY <1>1, <1>2
    <2>2. (d * (p - q - 1) + (d + r - s)) % d = d + r - s
        BY <1>1, <1>2, <1>4, ModUnique
    <2> QED BY <1>1, <1>2, <1>4, <2>1, <2>2 DEF r, s
<1> QED BY <1>1, <1>2, <1>3, <1>4

(* A non-empty set of numbers has a least one.                             *)
LEMMA LeastNumber ==
    ASSUME NEW S \in SUBSET Nat, S # {}
    PROVE  \E m \in S : \A n \in S : m <= n
<1> DEFINE R == OpToRel(<, Nat)
<1>1. PICK m \in S : \A n \in S : ~(<<n, m>> \in R)
    BY NatLessThanWellFounded, WFMin
<1>2. \A n \in S : <<n, m>> \in R <=> n < m
    BY DEF OpToRel
<1>3. \A n \in S : n \in Nat
    OBVIOUS
<1> HIDE DEF R
<1>4. ASSUME NEW n \in S PROVE m <= n
    <2>1. ~(n < m)
        BY <1>1, <1>2
    <2> QED BY <1>3, <2>1
<1> QED BY <1>4

(* A sequence behind another keeps its order.                              *)
LEMMA Joined ==
    ASSUME NEW T, NEW s \in Seq(T), NEW t \in Seq(T)
    PROVE  /\ s \o t \in Seq(T)
           /\ Len(s \o t) = Len(s) + Len(t)
           /\ \A i \in 1 .. Len(s) : (s \o t)[i] = s[i]
           /\ \A i \in Len(s) + 1 .. Len(s) + Len(t) : (s \o t)[i] = t[i - Len(s)]
<1>1. s \o t \in Seq(T)
  OBVIOUS
<1>2. Len(s \o t) = Len(s) + Len(t)
  OBVIOUS
<1>3. \A i \in 1 .. Len(s) : (s \o t)[i] = s[i]
  OBVIOUS
<1>4. \A i \in Len(s) + 1 .. Len(s) + Len(t) : (s \o t)[i] = t[i - Len(s)]
  OBVIOUS
<1> QED BY <1>1, <1>2, <1>3, <1>4

-----------------------------------------------------------------------------
(***************************************************************************)
(* Induction on the steps of a loop, said with sets of numbers: what holds *)
(* of 0 and is handed on holds up to N; a repeated step has a result; what *)
(* holds last and comes from before held all along.                        *)
(***************************************************************************)
LEMMA UpTo ==
    ASSUME NEW N \in Nat, NEW P, 0 \in P, \A k \in 0 .. N - 1 : k \in P => k + 1 \in P
    PROVE  0 .. N \subseteq P
<1> DEFINE B == (0 .. N) \ P
<1>1. SUFFICES ASSUME B # {} PROVE FALSE
  OBVIOUS
<1>2. B \in SUBSET Nat
  OBVIOUS
<1>3. PICK m \in B : \A k \in B : m <= k
  <2> HIDE DEF B
  <2> QED BY <1>1, <1>2, LeastNumber
<1>4. m \in 0 .. N /\ m \notin P /\ m # 0
  BY <1>3
<1>5. m - 1 \in 0 .. N - 1 /\ m - 1 \notin B
  BY <1>3, <1>4
<1>6. m - 1 \in P /\ (m - 1) + 1 = m
  BY <1>4, <1>5
<1> QED BY <1>4, <1>5, <1>6

(* v is what repeating the step g from base gives up to the k-th time.     *)
IsRun(v, k, base, g) == \A i \in 0 .. k : v[i] = IF i = 0 THEN base ELSE g[i][v[i - 1]]

LEMMA OneMore ==
    ASSUME NEW N \in Nat, NEW S, NEW base \in S, NEW g \in [1 .. N -> [S -> S]],
           NEW k \in 0 .. N - 1, NEW v \in [0 .. k -> S], IsRun(v, k, base, g)
    PROVE  \E u \in [0 .. k + 1 -> S] : IsRun(u, k + 1, base, g)
<1> DEFINE u == [i \in 0 .. k + 1 |-> IF i = k + 1 THEN g[k + 1][v[k]] ELSE v[i]]
<1>1. k + 1 \in 1 .. N /\ v[k] \in S
  OBVIOUS
<1>2. g[k + 1][v[k]] \in S
  BY <1>1
<1>3. u \in [0 .. k + 1 -> S]
  BY <1>2
<1>4. ASSUME NEW i \in 0 .. k + 1
      PROVE  u[i] = IF i = 0 THEN base ELSE g[i][u[i - 1]]
  <2>1. CASE i = k + 1
    <3>1. u[i - 1] = v[k]
      BY <2>1
    <3> QED BY <2>1, <3>1
  <2>2. CASE i \in 1 .. k
    <3>1. u[i] = v[i] /\ u[i - 1] = v[i - 1]
      BY <2>2
    <3> QED BY <2>2, <3>1 DEF IsRun
  <2>3. CASE i = 0
    <3>1. u[0] = v[0]
      OBVIOUS
    <3> QED BY <2>3, <3>1 DEF IsRun
  <2> QED BY <2>1, <2>2, <2>3
<1> HIDE DEF u
<1>5. IsRun(u, k + 1, base, g)
  BY <1>4 DEF IsRun
<1> QED BY <1>3, <1>5

LEMMA Recurrence ==
    ASSUME NEW N \in Nat, NEW S, NEW base \in S, NEW g \in [1 .. N -> [S -> S]]
    PROVE  \E v \in [0 .. N -> S] : IsRun(v, N, base, g)
<1> DEFINE P == {k \in 0 .. N : \E v \in [0 .. k -> S] : IsRun(v, k, base, g)}
<1>1. 0 \in P
  <2> DEFINE v == [i \in 0 .. 0 |-> base]
  <2>1. v \in [0 .. 0 -> S] /\ IsRun(v, 0, base, g)
    BY DEF IsRun
  <2> HIDE DEF v
  <2> QED BY <2>1
<1>2. ASSUME NEW k \in 0 .. N - 1, k \in P PROVE k + 1 \in P
  <2>1. PICK v \in [0 .. k -> S] : IsRun(v, k, base, g)
    BY <1>2
  <2>2. \E u \in [0 .. k + 1 -> S] : IsRun(u, k + 1, base, g)
    BY <2>1, OneMore
  <2> QED BY <2>2
<1>3. 0 .. N \subseteq P
  <2> HIDE DEF P
  <2> QED BY <1>1, <1>2, UpTo
<1> QED BY <1>3

(* What holds last and, whenever it holds, held before, held always.       *)
LEMMA AllBefore ==
    ASSUME NEW N \in Nat, NEW P, N \in P, \A k \in 1 .. N : k \in P => k - 1 \in P
    PROVE  0 .. N \subseteq P
<1> DEFINE Q == {d \in 0 .. N : N - d \in P}
<1>1. 0 \in Q
  OBVIOUS
<1>2. ASSUME NEW d \in 0 .. N - 1, d \in Q PROVE d + 1 \in Q
  <2>1. N - d \in 1 .. N /\ N - d \in P /\ (N - d) - 1 = N - (d + 1)
    BY <1>2
  <2>2. N - (d + 1) \in P
    BY <2>1
  <2> QED BY <2>2
<1>3. 0 .. N \subseteq Q
  <2> HIDE DEF Q
  <2> QED BY <1>1, <1>2, UpTo
<1>4. ASSUME NEW k \in 0 .. N PROVE k \in P
  <2>1. N - k \in 0 .. N /\ N - (N - k) = k
    OBVIOUS
  <2> QED BY <1>3, <2>1
<1> QED BY <1>4

LEMMA StaysIn ==
    ASSUME NEW N \in Nat, NEW S, NEW v, v[0] \in S,
           \A k \in 1 .. N : v[k - 1] \in S => v[k] \in S
    PROVE  \A k \in 0 .. N : v[k] \in S
<1> DEFINE P == {k \in 0 .. N : v[k] \in S}
<1>1. 0 \in P
  OBVIOUS
<1>2. ASSUME NEW k \in 0 .. N - 1, k \in P PROVE k + 1 \in P
  <2>1. k + 1 \in 1 .. N /\ (k + 1) - 1 = k
    OBVIOUS
  <2>2. v[k + 1] \in S
    BY <1>2, <2>1
  <2> QED BY <2>1, <2>2
<1>3. 0 .. N \subseteq P
  <2> HIDE DEF P
  <2> QED BY <1>1, <1>2, UpTo
<1> QED BY <1>3
=============================================================================
