---------------------- MODULE GeneralAllocator_proofs ----------------------
(***************************************************************************)
(* The free list of the GeneralAllocator, for any block and pool sizes,    *)
(* any requests and any source that leaves a gap between the ranges it     *)
(* gives (Gap > 0), as malloc does with its own headers.  Without gaps     *)
(* runs of two pools merge, and the allocator hands back what is no pool:  *)
(* the run MunmapSucceeds shows it.                                        *)
(*                                                                         *)
(* The inductive invariant is Good(Now, live):                             *)
(*   WellFormed  the list is in address order and no two entries touch;    *)
(*               no two runs, free or allocated, overlap; each lies in the *)
(*               pool its header names; each block of a pool is in a run;  *)
(*               the pools are apart;                                      *)
(*   AtMostOne   one free run at most is as long as its pool;              *)
(*   Counted     over a source that rounds nothing (PageBlocks = 1) the    *)
(*               count is the number of blocks of the pools.               *)
(* None of these stands alone.  That a run given back is a pool, and not a *)
(* run that happens to be as long, needs each header to name its pool; and *)
(* a merge keeps that only because a run that touches another lies in the  *)
(* same pool, which needs the gaps and the ranges apart.                   *)
(*                                                                         *)
(* The allocator works on a state before it is stored (free follows        *)
(* allocate within reallocate), so the lemmas are about states as values.  *)
(***************************************************************************)
EXTENDS GeneralAllocator, CommonLemmas, FiniteSetTheorems
-----------------------------------------------------------------------------
(* Runs of blocks, and lists of runs in address order that do not touch    *)
Runs == [at : Nat, numBlocks : Nat \ {0}, pSrcPool : Nat, allocatedBlocks : Nat \ {0}]

InOrder(list) == \A i, j \in DOMAIN list : i < j => End(list[i]) < list[j].at

LEMMA RunIsARecord ==
    ASSUME NEW e \in Runs
    PROVE  /\ e.at \in Nat /\ e.numBlocks \in Nat /\ e.numBlocks > 0 /\ End(e) \in Nat
           /\ e.pSrcPool \in Nat /\ e.allocatedBlocks \in Nat /\ e.allocatedBlocks > 0
           /\ e.at < End(e)
BY DEF Runs, End

LEMMA ListOfRuns ==
    ASSUME NEW list \in Seq(Runs)
    PROVE  /\ Len(list) \in Nat /\ DOMAIN list = 1 .. Len(list)
           /\ \A i \in 1 .. Len(list) : list[i] \in Runs
           /\ ToSet(list) = {list[i] : i \in 1 .. Len(list)}
           /\ ToSet(list) \subseteq Runs
BY DEF ToSet

\* The front of a list and the rest of it behind another.
LEMMA FrontAndRest ==
    ASSUME NEW list \in Seq(Runs), NEW p \in 0 .. Len(list), NEW q \in 1 .. Len(list) + 1
    PROVE  /\ SubSeq(list, 1, p) \in Seq(Runs) /\ Len(SubSeq(list, 1, p)) = p
           /\ \A i \in 1 .. p : SubSeq(list, 1, p)[i] = list[i]
           /\ SubSeq(list, q, Len(list)) \in Seq(Runs)
           /\ Len(SubSeq(list, q, Len(list))) = Len(list) - q + 1
           /\ \A i \in 1 .. Len(list) - q + 1 : SubSeq(list, q, Len(list))[i] = list[q + i - 1]
<1>1. Len(list) \in Nat /\ \A i \in 1 .. Len(list) : list[i] \in Runs
  BY ListOfRuns
<1> DEFINE n == Len(list)
<1>2. n \in Int /\ 1 \in Int /\ p \in Int /\ q \in Int /\ p <= n /\ q >= 1
  BY <1>1
<1> HIDE DEF n
<1>3. /\ SubSeq(list, 1, p) \in Seq(Runs)
      /\ Len(SubSeq(list, 1, p)) = IF 1 <= p THEN p - 1 + 1 ELSE 0
      /\ \A i \in 1 .. p - 1 + 1 : SubSeq(list, 1, p)[i] = list[1 + i - 1]
  <2>1. \A i \in 1 .. p : list[i] \in Runs
    BY <1>1, <1>2 DEF n
  <2> QED BY <1>2, <2>1, SubSeqProperties
<1>4. /\ SubSeq(list, q, n) \in Seq(Runs)
      /\ Len(SubSeq(list, q, n)) = IF q <= n THEN n - q + 1 ELSE 0
      /\ \A i \in 1 .. n - q + 1 : SubSeq(list, q, n)[i] = list[q + i - 1]
  <2>1. \A i \in q .. n : list[i] \in Runs
    BY <1>1, <1>2 DEF n
  <2> QED BY <1>2, <2>1, SubSeqProperties
<1>5. n - q + 1 >= 0
  BY <1>2 DEF n
<1>6. Len(SubSeq(list, 1, p)) = p /\ \A i \in 1 .. p : SubSeq(list, 1, p)[i] = list[i]
  BY <1>2, <1>3
<1>7. Len(SubSeq(list, q, n)) = n - q + 1
  BY <1>2, <1>4, <1>5
<1> QED BY <1>3, <1>4, <1>6, <1>7 DEF n

\* A run put between the first p entries and those from q on.
LEMMA Inserted ==
    ASSUME NEW list \in Seq(Runs), InOrder(list), NEW e \in Runs,
           NEW p \in 0 .. Len(list), NEW q \in p + 1 .. Len(list) + 1,
           \A i \in 1 .. p : End(list[i]) < e.at,
           \A i \in q .. Len(list) : End(e) < list[i].at
    PROVE  /\ Spliced(list, p, e, q) \in Seq(Runs) /\ InOrder(Spliced(list, p, e, q))
           /\ p + 1 \in DOMAIN Spliced(list, p, e, q) /\ Spliced(list, p, e, q)[p + 1] = e
           /\ ToSet(Spliced(list, p, e, q)) =
                 {list[i] : i \in 1 .. p} \cup {e} \cup {list[i] : i \in q .. Len(list)}
<1> DEFINE t == Spliced(list, p, e, q)
           a == SubSeq(list, 1, p)
           b == SubSeq(list, q, Len(list))
           m == Len(list)
           ae == a \o <<e>>
           \* where an entry of t comes from
           Of(i) == IF i <= p THEN list[i] ELSE IF i = p + 1 THEN e ELSE list[q + (i - (p + 1)) - 1]
<1>1. /\ m \in Nat /\ \A i \in 1 .. m : list[i] \in Runs
      /\ DOMAIN list = 1 .. m
  BY ListOfRuns
<1>2. p \in Nat /\ q \in Nat /\ p <= m /\ q >= p + 1 /\ q <= m + 1 /\ q \in 1 .. m + 1
  BY <1>1
<1>3. /\ a \in Seq(Runs) /\ Len(a) = p /\ \A i \in 1 .. p : a[i] = list[i]
      /\ b \in Seq(Runs) /\ Len(b) = m - q + 1 /\ \A i \in 1 .. m - q + 1 : b[i] = list[q + i - 1]
  BY <1>2, FrontAndRest
<1>4. <<e>> \in Seq(Runs) /\ Len(<<e>>) = 1 /\ <<e>>[1] = e
  OBVIOUS
<1> HIDE DEF a, b, m, t
<1>5. /\ ae \in Seq(Runs) /\ Len(ae) = p + 1
      /\ \A i \in 1 .. p + 1 : ae[i] = IF i <= p THEN a[i] ELSE <<e>>[i - p]
  BY <1>3, <1>4, ConcatProperties
<1>6. \A i \in 1 .. p + 1 : ae[i] = IF i <= p THEN list[i] ELSE e
  BY <1>2, <1>3, <1>4, <1>5
<1> HIDE DEF ae
<1>7. /\ t \in Seq(Runs) /\ Len(t) = p + 1 + (m - q + 1)
      /\ \A i \in 1 .. p + 1 + (m - q + 1) : t[i] = IF i <= p + 1 THEN ae[i] ELSE b[i - (p + 1)]
  <2>1. t = ae \o b
    BY DEF ae, a, b, m, t, Spliced
  <2>2. /\ ae \o b \in Seq(Runs) /\ Len(ae \o b) = Len(ae) + Len(b)
        /\ \A i \in 1 .. Len(ae) + Len(b) :
              (ae \o b)[i] = IF i <= Len(ae) THEN ae[i] ELSE b[i - Len(ae)]
    BY <1>3, <1>5, ConcatProperties
  <2>3. Len(ae) = p + 1 /\ Len(b) = m - q + 1
    BY <1>3, <1>5
  <2> QED BY <2>1, <2>2, <2>3
<1> DEFINE k == p + 1 + (m - q + 1)
<1>8. k \in Nat /\ p + 1 \in 1 .. k /\ DOMAIN t = 1 .. k
  BY <1>2, <1>1, <1>7
<1>9. ASSUME NEW i \in 1 .. k PROVE t[i] = Of(i)
  <2>0. i \in Int /\ i >= 1
    BY <1>8
  <2>1. CASE i <= p + 1
    <3>1. i \in 1 .. p + 1 /\ t[i] = ae[i]
      <4>1. i \in 1 .. p + 1
        BY <1>2, <2>0, <2>1
      <4> QED BY <1>7, <2>1, <4>1
    <3>2. ae[i] = IF i <= p THEN list[i] ELSE e
      BY <1>6, <3>1
    <3>3. ~(i <= p) => i = p + 1
      BY <1>2, <2>0, <2>1
    <3> QED BY <3>1, <3>2, <3>3
  <2>2. CASE ~(i <= p + 1)
    <3> DEFINE x == i - (p + 1)
    <3>1. x \in 1 .. m - q + 1 /\ ~(i <= p) /\ i # p + 1
      BY <1>1, <1>2, <2>0, <2>2
    <3>2. t[i] = b[x]
      BY <1>7, <2>2
    <3>3. Of(i) = list[q + x - 1]
      BY <3>1
    <3> HIDE DEF x
    <3>4. b[x] = list[q + x - 1]
      BY <1>3, <3>1
    <3> HIDE DEF Of
    <3> QED BY <3>2, <3>3, <3>4
  <2> QED BY <2>1, <2>2
<1>10. ASSUME NEW i \in 1 .. k, i > p + 1 PROVE q + (i - (p + 1)) - 1 \in q .. m
  BY <1>1, <1>2, <1>10
<1>11. ASSUME NEW i \in 1 .. k, NEW j \in 1 .. k, i < j PROVE End(Of(i)) < Of(j).at
  <2>1. i \in Int /\ j \in Int
    OBVIOUS
  <2>2. CASE j <= p
    <3>1. i \in DOMAIN list /\ j \in DOMAIN list
      BY <1>1, <1>2, <1>11, <2>1, <2>2
    <3>2. Of(i) = list[i] /\ Of(j) = list[j]
      BY <1>2, <1>11, <2>1, <2>2
    <3> QED BY <1>11, <3>1, <3>2 DEF InOrder
  <2>3. CASE j = p + 1
    BY <1>2, <1>11, <2>1, <2>3
  <2>4. CASE j > p + 1
    <3> DEFINE y == q + (j - (p + 1)) - 1
    <3>0. ~(j <= p) /\ j # p + 1
      BY <1>2, <2>1, <2>4
    <3>1. y \in q .. m /\ Of(j) = list[y]
      BY <1>10, <2>4, <3>0
    <3>2. CASE i <= p
      <4>1. i \in DOMAIN list /\ y \in DOMAIN list /\ i < y /\ Of(i) = list[i]
        BY <1>1, <1>2, <2>1, <3>1, <3>2
      <4> QED BY <3>1, <4>1 DEF InOrder
    <3>3. CASE i = p + 1
      <4>1. Of(i) = e
        BY <1>2, <3>3
      <4>2. End(e) < list[y].at
        BY <3>1 DEF m
      <4> HIDE DEF Of, y
      <4> QED BY <3>1, <4>1, <4>2
    <3>4. CASE i > p + 1
      <4> DEFINE x == q + (i - (p + 1)) - 1
      <4>1. x \in q .. m /\ Of(i) = list[x] /\ x < y
        <5>1. ~(i <= p) /\ i # p + 1 /\ x < y
          BY <1>2, <1>11, <2>1, <3>4
        <5> QED BY <1>10, <3>4, <5>1
      <4>2. x \in DOMAIN list /\ y \in DOMAIN list
        BY <1>1, <1>2, <3>1, <4>1
      <4> QED BY <3>1, <4>1, <4>2 DEF InOrder
    <3> QED BY <1>2, <2>1, <3>2, <3>3, <3>4
  <2> QED BY <1>2, <2>1, <2>2, <2>3, <2>4
<1>12. InOrder(t)
  <2>1. \A i, j \in 1 .. k : i < j => End(t[i]) < t[j].at
    BY <1>9, <1>11
  <2> QED BY <1>8, <2>1 DEF InOrder
<1>13. t[p + 1] = e
  BY <1>2, <1>8, <1>9
<1>14. ToSet(t) = {t[i] : i \in 1 .. k}
  BY <1>8 DEF ToSet
<1> DEFINE S == {list[i] : i \in 1 .. p} \cup {e} \cup {list[i] : i \in q .. m}
<1>15. \A i \in 1 .. k : t[i] \in S
  <2> SUFFICES ASSUME NEW i \in 1 .. k PROVE Of(i) \in S
    BY <1>9
  <2>1. CASE i <= p
    BY <1>2, <2>1
  <2>2. CASE i = p + 1
    BY <1>2, <2>2
  <2>3. CASE i > p + 1
    BY <1>2, <1>10, <2>3
  <2> QED BY <1>2, <2>1, <2>2, <2>3
<1>16. \A i \in 1 .. p : i \in 1 .. k /\ t[i] = list[i]
  BY <1>1, <1>2, <1>9
<1>17. ASSUME NEW i \in q .. m PROVE \E j \in 1 .. k : t[j] = list[i]
  <2> DEFINE j == i - q + 1 + (p + 1)
  <2>1. j \in 1 .. k /\ j > p + 1 /\ q + (j - (p + 1)) - 1 = i /\ ~(j <= p) /\ j # p + 1
    BY <1>1, <1>2
  <2>2. t[j] = list[i]
    BY <1>9, <2>1
  <2> QED BY <2>1, <2>2
<1>18. ToSet(t) = S
  <2>1. ToSet(t) \subseteq S
    BY <1>14, <1>15
  <2>2. e \in ToSet(t)
    BY <1>8, <1>13, <1>14
  <2>3. \A i \in 1 .. p : list[i] \in ToSet(t)
    BY <1>14, <1>16
  <2>4. \A i \in q .. m : list[i] \in ToSet(t)
    BY <1>14, <1>17
  <2> QED BY <2>1, <2>2, <2>3, <2>4
<1> QED BY <1>7, <1>8, <1>12, <1>13, <1>18 DEF m, t

\* One entry taken out
LEMMA OneUnlinked ==
    ASSUME NEW list \in Seq(Runs), InOrder(list), NEW i \in DOMAIN list
    PROVE  /\ Unlinked(list, i) \in Seq(Runs) /\ InOrder(Unlinked(list, i))
           /\ ToSet(Unlinked(list, i)) = ToSet(list) \ {list[i]}
<1> DEFINE a == SubSeq(list, 1, i - 1)
           b == SubSeq(list, i + 1, Len(list))
           m == Len(list)
           t == a \o b
           Of(j) == IF j < i THEN list[j] ELSE list[j + 1]
<1>1. /\ m \in Nat /\ \A j \in 1 .. m : list[j] \in Runs
      /\ DOMAIN list = 1 .. m /\ ToSet(list) = {list[j] : j \in 1 .. m}
  BY ListOfRuns
<1>2. i \in Nat /\ i >= 1 /\ i <= m /\ i - 1 \in 0 .. m /\ i + 1 \in 1 .. m + 1
  BY <1>1
<1>3. /\ a \in Seq(Runs) /\ Len(a) = i - 1 /\ \A j \in 1 .. i - 1 : a[j] = list[j]
      /\ b \in Seq(Runs) /\ Len(b) = m - (i + 1) + 1
      /\ \A j \in 1 .. m - (i + 1) + 1 : b[j] = list[i + 1 + j - 1]
  BY <1>2, FrontAndRest
<1> HIDE DEF a, b, m
<1>4. /\ t \in Seq(Runs) /\ Len(t) = m - 1
      /\ \A j \in 1 .. m - 1 : t[j] = IF j <= i - 1 THEN a[j] ELSE b[j - (i - 1)]
  <2>1. /\ a \o b \in Seq(Runs) /\ Len(a \o b) = Len(a) + Len(b)
        /\ \A j \in 1 .. Len(a) + Len(b) :
              (a \o b)[j] = IF j <= Len(a) THEN a[j] ELSE b[j - Len(a)]
    BY <1>3, ConcatProperties
  <2>2. Len(a) = i - 1 /\ Len(a) + Len(b) = m - 1
    <3>1. Len(a) = i - 1 /\ Len(b) = m - (i + 1) + 1
      BY <1>3
    <3> QED BY <1>1, <1>2, <3>1
  <2> QED BY <2>1, <2>2
<1>5. ASSUME NEW j \in 1 .. m - 1
      PROVE  t[j] = Of(j) /\ j \in 1 .. m /\ j + 1 \in 1 .. m
  <2>1. CASE j <= i - 1
    <3>1. j \in 1 .. i - 1 /\ j \in 1 .. m /\ j + 1 \in 1 .. m /\ j < i
      BY <1>1, <1>2, <2>1
    <3>2. t[j] = a[j]
      BY <1>4, <2>1
    <3>3. a[j] = list[j]
      BY <1>3, <3>1
    <3> HIDE DEF t
    <3> QED BY <3>1, <3>2, <3>3
  <2>2. CASE ~(j <= i - 1)
    <3> DEFINE x == j - (i - 1)
    <3>1. x \in 1 .. m - (i + 1) + 1 /\ i + 1 + x - 1 = j + 1 /\ ~(j < i)
      BY <1>1, <1>2, <2>2
    <3>2. t[j] = b[x]
      BY <1>4, <2>2
    <3> HIDE DEF x, t
    <3>3. b[x] = list[j + 1]
      BY <1>3, <3>1
    <3>4. j \in 1 .. m /\ j + 1 \in 1 .. m
      BY <1>1
    <3> QED BY <3>1, <3>2, <3>3, <3>4
  <2> QED BY <2>1, <2>2
<1>6. DOMAIN t = 1 .. m - 1
  BY <1>4
<1> HIDE DEF t
<1>7. InOrder(t)
  <2> SUFFICES ASSUME NEW j \in 1 .. m - 1, NEW k \in 1 .. m - 1, j < k
               PROVE  End(Of(j)) < Of(k).at
    BY <1>5, <1>6 DEF InOrder
  <2> DEFINE x == IF j < i THEN j ELSE j + 1
             y == IF k < i THEN k ELSE k + 1
  <2>1. x \in DOMAIN list /\ y \in DOMAIN list /\ x < y
    BY <1>1, <1>2, <1>5
  <2>2. Of(j) = list[x] /\ Of(k) = list[y]
    OBVIOUS
  <2> HIDE DEF x, y
  <2> QED BY <2>1, <2>2 DEF InOrder
<1>8. ToSet(t) = {Of(j) : j \in 1 .. m - 1}
  BY <1>5, <1>6 DEF ToSet
<1>9. \A j \in 1 .. m : j # i => list[j] # list[i]
  <2> SUFFICES ASSUME NEW j \in 1 .. m, j # i, list[j] = list[i] PROVE FALSE
    OBVIOUS
  <2>1. End(list[i]) > list[i].at
    BY <1>1, <1>2, RunIsARecord
  <2>2. list[i].at \in Nat /\ End(list[i]) \in Nat
    BY <1>1, <1>2, RunIsARecord
  <2>3. j < i \/ i < j
    BY <1>1, <1>2
  <2>4. End(list[i]) < list[i].at
    BY <1>1, <2>3 DEF InOrder
  <2> QED BY <2>1, <2>2, <2>4
<1>10. \A j \in 1 .. m - 1 : Of(j) \in ToSet(list) \ {list[i]}
  <2> SUFFICES ASSUME NEW j \in 1 .. m - 1 PROVE Of(j) \in ToSet(list) \ {list[i]}
    OBVIOUS
  <2>1. CASE j < i
    BY <1>1, <1>2, <1>5, <1>9, <2>1
  <2>2. CASE ~(j < i)
    <3>1. j + 1 \in 1 .. m /\ j + 1 # i
      BY <1>1, <1>2, <1>5, <2>2
    <3> QED BY <1>1, <1>9, <2>2, <3>1
  <2> QED BY <2>1, <2>2
<1>11. ASSUME NEW j \in 1 .. m, j # i PROVE \E k \in 1 .. m - 1 : Of(k) = list[j]
  <2>1. CASE j < i
    <3>1. j \in 1 .. m - 1
      BY <1>1, <1>2, <2>1
    <3> QED BY <2>1, <3>1
  <2>2. CASE ~(j < i)
    <3>1. j - 1 \in 1 .. m - 1 /\ ~(j - 1 < i) /\ (j - 1) + 1 = j
      BY <1>1, <1>2, <1>11, <2>2
    <3> QED BY <3>1
  <2> QED BY <2>1, <2>2
<1>12. ToSet(t) = ToSet(list) \ {list[i]}
  <2>1. ASSUME NEW x, x \in ToSet(t) PROVE x \in ToSet(list) \ {list[i]}
    BY <1>8, <1>10, <2>1
  <2>2. ASSUME NEW x, x \in ToSet(list) \ {list[i]} PROVE x \in ToSet(t)
    <3>1. PICK j \in 1 .. m : x = list[j]
      BY <1>1, <2>2
    <3>2. j # i
      BY <2>2, <3>1
    <3> QED BY <1>8, <1>11, <3>1, <3>2
  <2> QED BY <2>1, <2>2
<1> QED BY <1>4, <1>7, <1>12 DEF Unlinked, t, a, b, m

\* The rest of an entry that gave its front away stands where the entry stood.
LEMMA OneShortened ==
    ASSUME NEW list \in Seq(Runs), InOrder(list), NEW i \in DOMAIN list, NEW e \in Runs,
           list[i].at < e.at, End(e) = End(list[i])
    PROVE  LET t == [list EXCEPT ![i] = e]
           IN  t \in Seq(Runs) /\ InOrder(t) /\ ToSet(t) = (ToSet(list) \ {list[i]}) \cup {e}
<1> DEFINE t == [list EXCEPT ![i] = e]
           m == Len(list)
<1>1. /\ m \in Nat /\ \A j \in 1 .. m : list[j] \in Runs
      /\ DOMAIN list = 1 .. m /\ ToSet(list) = {list[j] : j \in 1 .. m}
  BY ListOfRuns
<1>2. t \in Seq(Runs) /\ DOMAIN t = 1 .. m /\ \A j \in 1 .. m : t[j] = IF j = i THEN e ELSE list[j]
  BY <1>1
<1> HIDE DEF t, m
<1>3. InOrder(t)
  <2> SUFFICES ASSUME NEW j \in 1 .. m, NEW k \in 1 .. m, j < k
               PROVE  End(t[j]) < t[k].at
    BY <1>2 DEF InOrder
  <2>1. End(list[j]) < list[k].at
    BY <1>1 DEF InOrder
  <2>2. End(t[j]) = End(list[j])
    BY <1>2
  <2>3. CASE k = i
    <3>1. t[k].at = e.at /\ e.at \in Nat /\ list[k].at \in Nat /\ End(list[j]) \in Nat
          /\ list[k].at < e.at
      BY <1>1, <1>2, <2>3, RunIsARecord
    <3> QED BY <2>1, <2>2, <3>1
  <2>4. CASE k # i
    BY <1>2, <2>1, <2>2, <2>4
  <2> QED BY <2>3, <2>4
<1>4. \A j \in 1 .. m : j # i => list[j] # list[i]
  <2> SUFFICES ASSUME NEW j \in 1 .. m, j # i, list[j] = list[i] PROVE FALSE
    OBVIOUS
  <2>1. End(list[i]) > list[i].at
    BY <1>1, RunIsARecord
  <2>2. list[i].at \in Nat /\ End(list[i]) \in Nat
    BY <1>1, RunIsARecord
  <2>3. j < i \/ i < j
    BY <1>1
  <2>4. End(list[i]) < list[i].at
    BY <1>1, <2>3 DEF InOrder
  <2> QED BY <2>1, <2>2, <2>4
<1>5. ToSet(t) = {t[j] : j \in 1 .. m}
  BY <1>2 DEF ToSet
<1>6. ToSet(t) = (ToSet(list) \ {list[i]}) \cup {e}
  BY <1>1, <1>2, <1>4, <1>5
<1> QED BY <1>2, <1>3, <1>6 DEF t

\* The entries in front of an address are the first ones.
LEMMA BeforeCounts ==
    ASSUME NEW list \in Seq(Runs), InOrder(list), NEW a \in Nat
    PROVE  /\ Before(list, a) \in 0 .. Len(list)
           /\ \A i \in 1 .. Len(list) : i <= Before(list, a) <=> list[i].at < a
<1> DEFINE m == Len(list)
           S == {i \in DOMAIN list : list[i].at < a}
           T == {i \in 1 .. m + 1 : i = m + 1 \/ ~(list[i].at < a)}
<1>1. m \in Nat /\ DOMAIN list = 1 .. m /\ \A i \in 1 .. m : list[i] \in Runs
  BY ListOfRuns
<1>2. T \in SUBSET Nat /\ T # {}
  BY <1>1
<1>3. PICK k \in T : \A i \in T : k <= i
  <2> HIDE DEF T
  <2> QED BY <1>2, LeastNumber
<1>4. k \in 1 .. m + 1
  OBVIOUS
<1>5. ASSUME NEW i \in 1 .. m PROVE i < k <=> list[i].at < a
  <2>1. CASE i < k
    <3>1. i \notin T
      BY <1>1, <1>3, <1>4, <2>1
    <3> QED BY <1>1, <2>1, <3>1
  <2>2. CASE i = k
    BY <1>1, <1>4, <2>2
  <2>3. CASE i > k
    <3>1. k \in 1 .. m /\ ~(list[k].at < a)
      BY <1>1, <1>4, <2>3
    <3>2. End(list[k]) < list[i].at
      BY <1>1, <2>3, <3>1 DEF InOrder
    <3>3. list[k].at < End(list[k]) /\ list[k].at \in Nat /\ list[i].at \in Nat
          /\ End(list[k]) \in Nat
      BY <1>1, <3>1, RunIsARecord
    <3>4. ~(list[i].at < a)
      BY <3>1, <3>2, <3>3
    <3> QED BY <1>4, <2>3, <3>4
  <2> QED BY <1>1, <1>4, <2>1, <2>2, <2>3
<1> HIDE DEF T
<1>6. S = 1 .. k - 1
  <2>1. \A i \in S : i \in 1 .. k - 1
    BY <1>1, <1>4, <1>5
  <2>2. \A i \in 1 .. k - 1 : i \in S
    BY <1>1, <1>4, <1>5
  <2> QED BY <2>1, <2>2
<1>7. Cardinality(1 .. k - 1) = k - 1
  <2>1. 1 \in Int /\ k - 1 \in Int
    BY <1>1, <1>4
  <2>2. Cardinality(1 .. k - 1) = IF 1 > k - 1 THEN 0 ELSE k - 1 - 1 + 1
    BY <2>1, FS_Interval
  <2> QED BY <1>1, <1>4, <2>2
<1>8. Before(list, a) = k - 1
  BY <1>6, <1>7 DEF Before
<1> QED BY <1>1, <1>4, <1>5, <1>8

LEMMA PoolLinked ==
    ASSUME NEW list \in Seq(Runs), InOrder(list), NEW e \in Runs,
           \A x \in ToSet(list) : End(x) < e.at \/ End(e) < x.at
    PROVE  /\ WithCache(list, e) \in Seq(Runs) /\ InOrder(WithCache(list, e))
           /\ ToSet(WithCache(list, e)) = ToSet(list) \cup {e}
<1> DEFINE p == Before(list, e.at)
           t == WithCache(list, e)
           m == Len(list)
<1>1. /\ m \in Nat /\ DOMAIN list = 1 .. m
      /\ \A i \in 1 .. m : list[i] \in Runs /\ list[i] \in ToSet(list)
      /\ ToSet(list) = {list[i] : i \in 1 .. m}
  BY ListOfRuns
<1>2. e.at \in Nat /\ e.at < End(e) /\ End(e) \in Nat
  BY RunIsARecord
<1>3. p \in 0 .. m /\ \A i \in 1 .. m : i <= p <=> list[i].at < e.at
  BY <1>2, BeforeCounts
<1>0. t = Spliced(list, p, e, p + 1)
  BY DEF WithCache
<1> HIDE DEF p, t
<1>4. p + 1 - 1 = p /\ p + 1 \in p + 1 .. m + 1
  BY <1>1, <1>3
<1>6. ASSUME NEW i \in 1 .. m
      PROVE  list[i].at \in Nat /\ End(list[i]) \in Nat /\ list[i].at < End(list[i])
             /\ (End(list[i]) < e.at \/ End(e) < list[i].at)
  BY <1>1, RunIsARecord
<1>7. \A i \in 1 .. p : End(list[i]) < e.at
  <2> SUFFICES ASSUME NEW i \in 1 .. p PROVE End(list[i]) < e.at
    OBVIOUS
  <2>1. i \in 1 .. m /\ list[i].at < e.at
    <3>1. i \in 1 .. m /\ i <= p
      BY <1>1, <1>3
    <3> QED BY <1>3, <3>1
  <2> QED BY <1>2, <1>6, <2>1
<1>8. \A i \in p + 1 .. m : End(e) < list[i].at
  <2> SUFFICES ASSUME NEW i \in p + 1 .. m PROVE End(e) < list[i].at
    OBVIOUS
  <2>1. i \in 1 .. m /\ ~(list[i].at < e.at)
    BY <1>1, <1>3
  <2> QED BY <1>2, <1>6, <2>1
<1>9. /\ t \in Seq(Runs) /\ InOrder(t)
      /\ ToSet(t) = {list[i] : i \in 1 .. p} \cup {e} \cup {list[i] : i \in p + 1 .. m}
  <2> DEFINE q == p + 1
  <2>1. q \in p + 1 .. Len(list) + 1 /\ \A i \in q .. Len(list) : End(e) < list[i].at
    BY <1>4, <1>8
  <2>2. t = Spliced(list, p, e, q)
    BY <1>0
  <2> HIDE DEF q, m
  <2>3. /\ t \in Seq(Runs) /\ InOrder(t)
        /\ ToSet(t) = {list[i] : i \in 1 .. p} \cup {e} \cup {list[i] : i \in q .. Len(list)}
    BY <1>3, <1>7, <2>1, <2>2, Inserted DEF m
  <2> QED BY <2>3 DEF q, m
<1>10. {list[i] : i \in 1 .. p} \cup {list[i] : i \in p + 1 .. m} = ToSet(list)
  <2>1. \A i \in 1 .. m : i \in 1 .. p \/ i \in p + 1 .. m
    BY <1>1, <1>3
  <2>2. \A i \in 1 .. p : i \in 1 .. m
    BY <1>1, <1>3
  <2>3. \A i \in p + 1 .. m : i \in 1 .. m
    BY <1>1, <1>3
  <2> QED BY <1>1, <2>1, <2>2, <2>3
<1> QED BY <1>9, <1>10 DEF t

-----------------------------------------------------------------------------
(* A run and the free runs it touches become one run.                      *)
Neighbours(F, e) == {x \in F : End(x) = e.at \/ End(e) = x.at}

AsOne(S, run) ==
    /\ run \in Runs
    /\ \E y \in S : /\ run.at = y.at
                    /\ run.pSrcPool = y.pSrcPool
                    /\ run.allocatedBlocks = y.allocatedBlocks
    /\ \E z \in S : End(run) = End(z)
    /\ Blocks(run) = UNION {Blocks(x) : x \in S}

LEMMA RunsAreMerged ==
    ASSUME NEW list \in Seq(Runs), InOrder(list), NEW e \in Runs,
           \A x \in ToSet(list) : End(x) <= e.at \/ End(e) <= x.at
    PROVE  LET m == Merged(list, e)
               run == m.list[m.at]
               N == Neighbours(ToSet(list), e)
           IN  /\ m.list \in Seq(Runs) /\ InOrder(m.list) /\ m.at \in DOMAIN m.list
               /\ ToSet(m.list) = (ToSet(list) \ N) \cup {run}
               /\ AsOne(N \cup {e}, run)
<1> DEFINE p == Before(list, e.at)
           m == Len(list)
           next == TouchesNext(list, p, e)
           prev == TouchesPrev(list, p, e)
           more == IF next THEN list[p + 1].numBlocks ELSE 0
           n == e.numBlocks + more
           run == IF prev THEN [list[p] EXCEPT !.numBlocks = list[p].numBlocks + n]
                          ELSE [e EXCEPT !.numBlocks = n]
           at == IF prev THEN p ELSE p + 1
           q == IF next THEN p + 2 ELSE p + 1
           t == Spliced(list, at - 1, run, q)
           F == ToSet(list)
           N == Neighbours(F, e)
<1>1. /\ m \in Nat /\ DOMAIN list = 1 .. m
      /\ \A i \in 1 .. m : list[i] \in Runs /\ list[i] \in F
      /\ F = {list[i] : i \in 1 .. m}
  BY ListOfRuns
<1>2. e.at \in Nat /\ e.at < End(e) /\ End(e) \in Nat /\ e.numBlocks \in Nat
      /\ End(e) = e.at + e.numBlocks
  BY RunIsARecord DEF End
<1>3. p \in 0 .. m /\ \A i \in 1 .. m : i <= p <=> list[i].at < e.at
  BY <1>2, BeforeCounts
<1>4. Merged(list, e) = [at |-> at, list |-> t]
  <2>1. (IF prev THEN p - 1 ELSE p) = at - 1
    BY <1>1, <1>3
  <2> HIDE DEF p
  <2> QED BY <2>1 DEF Merged, p
<1>0. Merged(list, e).list = t /\ Merged(list, e).at = at
  <2> HIDE DEF at, t
  <2> QED BY <1>4
<1>5. ASSUME NEW i \in 1 .. m
      PROVE  /\ list[i].at \in Nat /\ End(list[i]) \in Nat /\ list[i].at < End(list[i])
             /\ list[i].numBlocks \in Nat /\ End(list[i]) = list[i].at + list[i].numBlocks
             /\ End(list[i]) <= e.at \/ End(e) <= list[i].at
  BY <1>1, RunIsARecord DEF End
<1> HIDE DEF p
\* those in front end before e, those behind begin after it
<1>6. ASSUME NEW i \in 1 .. m, i <= p PROVE End(list[i]) <= e.at
  BY <1>2, <1>3, <1>5, <1>6
<1>7. ASSUME NEW i \in 1 .. m, ~(i <= p) PROVE End(e) <= list[i].at
  BY <1>2, <1>3, <1>5, <1>7
<1>8. next <=> p + 1 \in 1 .. m /\ End(e) = list[p + 1].at
  BY <1>1, <1>3 DEF TouchesNext
<1>9. prev <=> p \in 1 .. m /\ End(list[p]) = e.at
  BY <1>1, <1>3 DEF TouchesPrev
\* only the last in front and the first behind can touch it
<1>10. ASSUME NEW i \in 1 .. m, i < p PROVE End(list[i]) < list[p].at /\ list[p].at < e.at
  <2>1. p \in 1 .. m
    BY <1>1, <1>3, <1>10
  <2>2. End(list[i]) < list[p].at
    BY <1>1, <1>10, <2>1 DEF InOrder
  <2>3. p <= p
    BY <1>3
  <2> QED BY <1>3, <2>1, <2>2, <2>3
<1>11. ASSUME NEW i \in 1 .. m, i > p + 1
       PROVE  /\ p + 1 \in 1 .. m /\ End(list[p + 1]) < list[i].at
              /\ End(e) <= list[p + 1].at /\ End(e) < list[i].at
  <2>1. p + 1 \in 1 .. m /\ ~(p + 1 <= p)
    BY <1>1, <1>3, <1>11
  <2>2. End(list[p + 1]) < list[i].at
    BY <1>1, <1>11, <2>1 DEF InOrder
  <2> QED BY <1>2, <1>5, <1>7, <2>1, <2>2
<1> HIDE DEF F, next, prev, m
<1>12. N = {list[i] : i \in {j \in 1 .. m : (prev /\ j = p) \/ (next /\ j = p + 1)}}
  <2> DEFINE J == {j \in 1 .. m : (prev /\ j = p) \/ (next /\ j = p + 1)}
  <2>1. ASSUME NEW i \in 1 .. m
        PROVE  list[i] \in N <=> i \in J
    <3>1. list[i] \in N <=> (End(list[i]) = e.at \/ End(e) = list[i].at)
      BY <1>1 DEF Neighbours
    <3>2. CASE i < p
      BY <1>2, <1>3, <1>5, <1>10, <3>1, <3>2
    <3>3. CASE i = p
      BY <1>2, <1>3, <1>5, <1>6, <1>9, <3>1, <3>3
    <3>4. CASE i = p + 1
      BY <1>2, <1>3, <1>5, <1>7, <1>8, <3>1, <3>4
    <3>5. CASE i > p + 1
      BY <1>2, <1>3, <1>5, <1>11, <3>1, <3>5
    <3> QED BY <1>1, <1>3, <3>2, <3>3, <3>4, <3>5
  <2>2. N \subseteq F
    BY DEF Neighbours
  <2> HIDE DEF N
  <2> QED BY <1>1, <2>1, <2>2
<1>13. /\ next => p + 1 \in 1 .. m /\ more = list[p + 1].numBlocks
          /\ End(list[p + 1]) = End(e) + more
       /\ ~next => more = 0
       /\ more \in Nat
  BY <1>5, <1>8
<1> HIDE DEF more
<1>14. n \in Nat /\ n > 0
  BY <1>2, <1>13
<1>15. End(e) + more = e.at + n
  BY <1>2, <1>13
<1> HIDE DEF n
<1>16. /\ run \in Runs
       /\ run.at = IF prev THEN list[p].at ELSE e.at
       /\ run.pSrcPool = IF prev THEN list[p].pSrcPool ELSE e.pSrcPool
       /\ run.allocatedBlocks = IF prev THEN list[p].allocatedBlocks ELSE e.allocatedBlocks
       /\ End(run) = End(e) + more
  <2>1. CASE prev
    <3> DEFINE x == list[p]
               k == x.numBlocks + n
    <3>1. x \in Runs /\ x.numBlocks \in Nat /\ End(x) = e.at /\ End(x) = x.at + x.numBlocks
          /\ x.at \in Nat
      BY <1>1, <1>5, <1>9, <2>1
    <3> HIDE DEF x
    <3>2. k \in Nat \ {0} /\ x.at + k = e.at + n
      BY <1>2, <1>14, <3>1
    <3> HIDE DEF k
    <3>3. [x EXCEPT !.numBlocks = k] \in Runs
      BY <3>1, <3>2 DEF Runs
    <3>4. run = [x EXCEPT !.numBlocks = k]
      BY <2>1 DEF x, k
    <3>5. /\ run.at = x.at /\ run.pSrcPool = x.pSrcPool /\ run.allocatedBlocks = x.allocatedBlocks
          /\ run.numBlocks = k
      BY <3>1, <3>4 DEF Runs
    <3> HIDE DEF run
    <3> QED BY <1>15, <2>1, <3>2, <3>3, <3>4, <3>5 DEF End, x
  <2>2. CASE ~prev
    <3>1. run = [e EXCEPT !.numBlocks = n]
      BY <2>2
    <3>2. [e EXCEPT !.numBlocks = n] \in Runs
      <4>1. n \in Nat \ {0}
        BY <1>14
      <4> QED BY <4>1 DEF Runs
    <3>3. /\ run.at = e.at /\ run.pSrcPool = e.pSrcPool /\ run.allocatedBlocks = e.allocatedBlocks
          /\ run.numBlocks = n
      BY <3>1 DEF Runs
    <3> HIDE DEF run
    <3> QED BY <1>15, <2>2, <3>1, <3>2, <3>3 DEF End
  <2> QED BY <2>1, <2>2
<1> HIDE DEF run
<1>17. at - 1 \in 0 .. m /\ q \in (at - 1) + 1 .. m + 1 /\ (at - 1) + 1 = at
  <2>1. m \in Nat /\ p \in Nat /\ p <= m /\ (next => p + 1 <= m) /\ (prev => p >= 1)
    BY <1>1, <1>3, <1>8, <1>9
  <2>2. at \in Nat /\ at >= 1 /\ at <= p + 1
    BY <2>1
  <2>3. q \in Nat /\ q >= p + 1 /\ q <= m + 1
    BY <2>1
  <2> HIDE DEF at, q
  <2> QED BY <2>1, <2>2, <2>3
<1>18. ASSUME NEW i \in 1 .. at - 1 PROVE i \in 1 .. m /\ i <= p /\ (prev => i < p)
  BY <1>1, <1>3
<1>19. ASSUME NEW i \in q .. m PROVE i \in 1 .. m /\ ~(i <= p) /\ (next => i > p + 1)
  BY <1>1, <1>3
<1>20. \A i \in 1 .. at - 1 : End(list[i]) < run.at
  <2> SUFFICES ASSUME NEW i \in 1 .. at - 1 PROVE End(list[i]) < run.at
    OBVIOUS
  <2>1. i \in 1 .. m /\ i <= p /\ (prev => i < p)
    BY <1>18
  <2>2. CASE prev
    BY <1>10, <1>16, <2>1, <2>2
  <2>3. CASE ~prev
    <3>1. CASE i < p
      <4>1. End(list[i]) \in Nat /\ list[p].at \in Nat
        BY <1>1, <1>3, <1>5, <2>1, <3>1
      <4> QED BY <1>2, <1>10, <1>16, <2>1, <2>3, <3>1, <4>1
    <3>2. CASE i = p
      <4>1. End(list[i]) # e.at
        BY <1>9, <2>1, <2>3, <3>2
      <4>2. End(list[i]) <= e.at /\ End(list[i]) \in Nat
        BY <1>5, <1>6, <2>1
      <4> QED BY <1>2, <1>16, <2>3, <4>1, <4>2
    <3> QED BY <1>3, <2>1, <3>1, <3>2
  <2> QED BY <2>2, <2>3
<1>21. \A i \in q .. m : End(run) < list[i].at
  <2> SUFFICES ASSUME NEW i \in q .. m PROVE End(run) < list[i].at
    OBVIOUS
  <2>1. i \in 1 .. m /\ ~(i <= p) /\ (next => i > p + 1)
    BY <1>19
  <2>2. CASE next
    BY <1>11, <1>13, <1>16, <2>1, <2>2
  <2>3. CASE ~next
    <3>0. End(run) = End(e)
      BY <1>2, <1>13, <1>16, <2>3
    <3>1. CASE i > p + 1
      BY <1>11, <2>1, <3>0, <3>1
    <3>2. CASE i = p + 1
      <4>1. End(e) # list[i].at
        BY <1>8, <2>1, <2>3, <3>2
      <4>2. End(e) <= list[i].at /\ list[i].at \in Nat
        BY <1>5, <1>7, <2>1
      <4> QED BY <1>2, <3>0, <4>1, <4>2
    <3> QED BY <1>3, <2>1, <3>1, <3>2
  <2> QED BY <2>2, <2>3
<1>22. /\ t \in Seq(Runs) /\ InOrder(t) /\ at \in DOMAIN t /\ t[at] = run
       /\ ToSet(t) = {list[i] : i \in 1 .. at - 1} \cup {run} \cup {list[i] : i \in q .. m}
  <2> DEFINE l == at - 1
  <2>1. l \in 0 .. m /\ q \in l + 1 .. m + 1 /\ l + 1 = at /\ t = Spliced(list, l, run, q)
    BY <1>17
  <2>2. \A i \in 1 .. l : End(list[i]) < run.at
    BY <1>20
  <2> HIDE DEF l, at, q, t
  <2>3. /\ t \in Seq(Runs) /\ InOrder(t) /\ l + 1 \in DOMAIN t /\ t[l + 1] = run
        /\ ToSet(t) = {list[i] : i \in 1 .. l} \cup {run} \cup {list[i] : i \in q .. m}
    BY <1>16, <1>21, <2>1, <2>2, Inserted DEF m
  <2> QED BY <2>1, <2>3 DEF l
<1>23. {list[i] : i \in 1 .. at - 1} \cup {list[i] : i \in q .. m} = F \ N
  <2> DEFINE J == {j \in 1 .. m : (prev /\ j = p) \/ (next /\ j = p + 1)}
             A == 1 .. at - 1
             B == q .. m
  <2>1. \A i \in 1 .. m : i \in J \/ i \in A \/ i \in B
    BY <1>1, <1>3
  <2>2. \A i \in A \cup B : i \in 1 .. m /\ i \notin J
    BY <1>3, <1>18, <1>19
  <2>3. \A i, j \in 1 .. m : i # j => list[i] # list[j]
    <3> SUFFICES ASSUME NEW i \in 1 .. m, NEW j \in 1 .. m, i < j PROVE list[i] # list[j]
      BY <1>1
    <3>1. End(list[i]) < list[j].at
      BY <1>1 DEF InOrder
    <3> QED BY <1>5, <3>1
  <2> HIDE DEF A, B, N
  <2>4. N = {list[i] : i \in J}
    BY <1>12
  <2>5. \A i \in J : i \in 1 .. m
    OBVIOUS
  <2> HIDE DEF J
  <2>6. \A i \in A \cup B : list[i] \in F \ N
    BY <1>1, <2>2, <2>3, <2>4, <2>5
  <2>7. \A x \in F \ N : \E i \in A \cup B : x = list[i]
    BY <1>1, <2>1, <2>4
  <2>8. {list[i] : i \in A} \cup {list[i] : i \in B} = F \ N
    BY <2>6, <2>7
  <2> QED BY <2>8 DEF A, B
<1>24. AsOne(N \cup {e}, run)
  <2>1. prev => list[p] \in N
    BY <1>9, <1>12
  <2>2. next => list[p + 1] \in N
    BY <1>8, <1>12
  <2>3. \A x \in N : (prev /\ x = list[p]) \/ (next /\ x = list[p + 1])
    BY <1>12
  <2> HIDE DEF N
  <2>4. \E y \in N \cup {e} : /\ run.at = y.at
                              /\ run.pSrcPool = y.pSrcPool
                              /\ run.allocatedBlocks = y.allocatedBlocks
    <3>1. CASE prev
      BY <1>16, <2>1, <3>1
    <3>2. CASE ~prev
      BY <1>16, <3>2
    <3> QED BY <3>1, <3>2
  <2>5. \E z \in N \cup {e} : End(run) = End(z)
    <3>1. CASE next
      BY <1>13, <1>16, <2>2, <3>1
    <3>2. CASE ~next
      BY <1>2, <1>13, <1>16, <3>2
    <3> QED BY <3>1, <3>2
  <2>6. \A b : b \in Blocks(run) <=> \E x \in N \cup {e} : b \in Blocks(x)
    <3> SUFFICES ASSUME NEW b PROVE b \in Blocks(run) <=> \E x \in N \cup {e} : b \in Blocks(x)
      OBVIOUS
    <3>1. run.at \in Nat /\ End(run) \in Nat
      BY <1>16, RunIsARecord
    <3>2. b \in Blocks(run) <=> b \in Int /\ run.at <= b /\ b < End(run)
      BY <3>1 DEF Blocks
    <3>3. b \in Blocks(e) <=> b \in Int /\ e.at <= b /\ b < End(e)
      BY <1>2 DEF Blocks
    <3>4. prev => (b \in Blocks(list[p]) <=> b \in Int /\ list[p].at <= b /\ b < e.at)
      BY <1>2, <1>5, <1>9 DEF Blocks
    <3>5. next => (b \in Blocks(list[p + 1]) <=> b \in Int /\ End(e) <= b /\ b < End(run))
      BY <1>2, <1>5, <1>8, <1>13, <1>16, <3>1 DEF Blocks
    <3>6. (\E x \in N \cup {e} : b \in Blocks(x)) <=>
             \/ b \in Blocks(e)
             \/ prev /\ b \in Blocks(list[p])
             \/ next /\ b \in Blocks(list[p + 1])
      BY <2>1, <2>2, <2>3
    <3>7. /\ prev => run.at = list[p].at /\ list[p].at < e.at
          /\ ~prev => run.at = e.at
          /\ next => End(e) <= End(run)
          /\ ~next => End(run) = End(e)
      BY <1>2, <1>3, <1>9, <1>13, <1>16
    <3> QED BY <1>2, <3>1, <3>2, <3>3, <3>4, <3>5, <3>6, <3>7
  <2>7. Blocks(run) = UNION {Blocks(x) : x \in N \cup {e}}
    <3> DEFINE U == UNION {Blocks(x) : x \in N \cup {e}}
    <3>1. \A b : b \in U <=> \E x \in N \cup {e} : b \in Blocks(x)
      OBVIOUS
    <3> HIDE DEF U
    <3>2. \A b : b \in Blocks(run) <=> b \in U
      BY <2>6, <3>1
    <3>3. Blocks(run) = U
      BY <3>2
    <3> QED BY <3>3 DEF U
  <2> QED BY <1>16, <2>4, <2>5, <2>7 DEF AsOne
<1> DEFINE mm == Merged(list, e)
<1> HIDE DEF mm, t, at, N
<1>25. mm.list = t /\ mm.at = at
  BY <1>0 DEF mm
<1>26. mm.list[mm.at] = run
  BY <1>22, <1>25
<1>27. ToSet(t) = (F \ N) \cup {run}
  BY <1>22, <1>23
<1> QED BY <1>22, <1>24, <1>25, <1>26, <1>27 DEF mm, N, F

-----------------------------------------------------------------------------
(* Pools and the runs that lie in them                                     *)
PoolOf(e) == Span(e.pSrcPool, e.allocatedBlocks)

PoolSet == {r \in [at : Nat, len : Nat \ {0}] : r.at + r.len <= HeapBlocks}

PoolsApart(P) == P \subseteq PoolSet /\ \A r, q \in P : r # q => Apart(r, q)

Disjoint(H) == \A e, f \in H : e # f => End(e) <= f.at \/ End(f) <= e.at

Tracked(H, P) ==
    \A e \in H : /\ PoolOf(e) \in P
                 /\ e.pSrcPool <= e.at /\ End(e) <= e.pSrcPool + e.allocatedBlocks

Covered(H, P) == \A r \in P : \A b \in r.at .. r.at + r.len - 1 : \E e \in H : b \in Blocks(e)

\* The runs of H, free and allocated, and the pools P fit together.
Kept(H, P) ==
    H \subseteq Runs /\ PoolsApart(P) /\ Disjoint(H) /\ Tracked(H, P) /\ Covered(H, P)

LEMMA BlocksOfRun ==
    ASSUME NEW e \in Runs
    PROVE  /\ \A b : b \in Blocks(e) <=> b \in Int /\ e.at <= b /\ b < End(e)
           /\ e.at \in Blocks(e)
<1>1. e.at \in Nat /\ End(e) \in Nat /\ e.at < End(e)
  BY RunIsARecord
<1> DEFINE x == End(e)
<1> HIDE DEF x
<1>2. Blocks(e) = e.at .. x - 1
  BY DEF Blocks, x
<1> QED BY <1>1, <1>2 DEF x

LEMMA ApartOrShared ==
    ASSUME NEW e \in Runs, NEW f \in Runs
    PROVE  (End(e) <= f.at \/ End(f) <= e.at) <=> Blocks(e) \cap Blocks(f) = {}
<1>1. /\ e.at \in Nat /\ End(e) \in Nat /\ e.at < End(e)
      /\ f.at \in Nat /\ End(f) \in Nat /\ f.at < End(f)
  BY RunIsARecord
<1>2. CASE End(e) <= f.at \/ End(f) <= e.at
  BY <1>1, <1>2, BlocksOfRun
<1>3. CASE ~(End(e) <= f.at \/ End(f) <= e.at)
  <2> DEFINE b == IF e.at <= f.at THEN f.at ELSE e.at
  <2>1. b \in Int /\ e.at <= b /\ b < End(e) /\ f.at <= b /\ b < End(f)
    BY <1>1, <1>3
  <2> HIDE DEF b
  <2>2. b \in Blocks(e) /\ b \in Blocks(f)
    BY <2>1, BlocksOfRun
  <2> QED BY <1>3, <2>2
<1> QED BY <1>2, <1>3

\* Some runs are cut or joined: others take their place in the same blocks.
LEMMA Rearranged ==
    ASSUME NEW H, NEW P, Kept(H, P), NEW X \in SUBSET H, NEW Y \in SUBSET Runs,
           Disjoint(Y), Tracked(Y, P),
           UNION {Blocks(x) : x \in X} = UNION {Blocks(y) : y \in Y}
    PROVE  Kept((H \ X) \cup Y, P)
<1>1. H \subseteq Runs /\ PoolsApart(P) /\ Disjoint(H) /\ Tracked(H, P) /\ Covered(H, P)
  BY DEF Kept
<1>2. Tracked((H \ X) \cup Y, P)
  BY <1>1 DEF Tracked
<1>3. Covered((H \ X) \cup Y, P)
  <2> SUFFICES ASSUME NEW r \in P, NEW b \in r.at .. r.at + r.len - 1
               PROVE  \E e \in (H \ X) \cup Y : b \in Blocks(e)
    BY DEF Covered
  <2>1. PICK e \in H : b \in Blocks(e)
    BY <1>1 DEF Covered
  <2>2. CASE e \in X
    BY <2>1, <2>2
  <2>3. CASE e \notin X
    BY <2>1, <2>3
  <2> QED BY <2>2, <2>3
<1>4. ASSUME NEW h \in H \ X, NEW y \in Y PROVE End(h) <= y.at \/ End(y) <= h.at
  <2>1. h \in Runs /\ y \in Runs
    BY <1>1
  <2>2. \A x \in X : Blocks(h) \cap Blocks(x) = {}
    <3> SUFFICES ASSUME NEW x \in X PROVE Blocks(h) \cap Blocks(x) = {}
      OBVIOUS
    <3>1. x \in H /\ x \in Runs /\ x # h
      BY <1>1
    <3>2. End(h) <= x.at \/ End(x) <= h.at
      BY <1>1, <3>1 DEF Disjoint
    <3> QED BY <2>1, <3>1, <3>2, ApartOrShared
  <2>3. Blocks(y) \subseteq UNION {Blocks(x) : x \in X}
    OBVIOUS
  <2>4. Blocks(h) \cap Blocks(y) = {}
    BY <2>2, <2>3
  <2> QED BY <2>1, <2>4, ApartOrShared
<1>5. Disjoint((H \ X) \cup Y)
  <2> SUFFICES ASSUME NEW e \in (H \ X) \cup Y, NEW f \in (H \ X) \cup Y, e # f
               PROVE  End(e) <= f.at \/ End(f) <= e.at
    BY DEF Disjoint
  <2>1. CASE e \in H /\ f \in H
    BY <1>1, <2>1 DEF Disjoint
  <2>2. CASE e \in Y /\ f \in Y
    BY <2>2 DEF Disjoint
  <2>3. CASE e \in H \ X /\ f \in Y
    BY <1>4, <2>3
  <2>4. CASE e \in Y /\ f \in H \ X
    BY <1>4, <2>4
  <2> QED BY <2>1, <2>2, <2>3, <2>4
<1> QED BY <1>1, <1>2, <1>3, <1>5 DEF Kept

\* Nothing touches a run from another pool.
LEMMA SamePool ==
    ASSUME NEW H, NEW P, Kept(H, P), Gap > 0, NEW e \in H, NEW f \in H, End(e) = f.at
    PROVE  e.pSrcPool = f.pSrcPool /\ e.allocatedBlocks = f.allocatedBlocks
<1>1. e \in Runs /\ f \in Runs
  BY DEF Kept
<1> DEFINE r == PoolOf(e)
           q == PoolOf(f)
<1>2. r \in P /\ q \in P /\ (r # q => Apart(r, q))
  BY DEF Kept, Tracked, PoolsApart
<1>3. /\ r.at = e.pSrcPool /\ r.len = e.allocatedBlocks
      /\ q.at = f.pSrcPool /\ q.len = f.allocatedBlocks
  BY DEF PoolOf, Span
<1>4. /\ e.pSrcPool <= e.at /\ End(e) <= e.pSrcPool + e.allocatedBlocks
      /\ f.pSrcPool <= f.at /\ End(f) <= f.pSrcPool + f.allocatedBlocks
  BY DEF Kept, Tracked
<1>5. /\ e.at \in Nat /\ End(e) \in Nat /\ e.pSrcPool \in Nat /\ e.allocatedBlocks \in Nat
      /\ f.at \in Nat /\ End(f) \in Nat /\ f.pSrcPool \in Nat /\ f.allocatedBlocks \in Nat
      /\ e.at < End(e) /\ f.at < End(f) /\ Gap \in Nat
  BY <1>1, RunIsARecord, SourceAssumption
<1> HIDE DEF r, q
<1>6. r = q
  <2> SUFFICES ASSUME Apart(r, q) PROVE FALSE
    BY <1>2
  <2>1. r.at + r.len + Gap <= q.at \/ q.at + q.len + Gap <= r.at
    BY DEF Apart
  <2> QED BY <1>3, <1>4, <1>5, <2>1
<1> QED BY <1>3, <1>6

\* A new pool is one free run.
LEMMA PoolAdded ==
    ASSUME NEW H, NEW P, Kept(H, P), NEW r \in PoolSet, \A q \in P : Apart(r, q)
    PROVE  /\ NewPool(r) \in Runs
           /\ Kept(H \cup {NewPool(r)}, P \cup {r})
           /\ \A e \in H : \/ End(e) + Gap <= NewPool(r).at
                           \/ End(NewPool(r)) + Gap <= e.at
<1> DEFINE new == NewPool(r)
           a == r.at
           l == r.len
<1>1. a \in Nat /\ l \in Nat \ {0} /\ r = [at |-> a, len |-> l] /\ a + l <= HeapBlocks
  BY DEF PoolSet
<1> HIDE DEF a, l
<1>2. new = [at |-> a, numBlocks |-> l, pSrcPool |-> a, allocatedBlocks |-> l]
  BY DEF NewPool, Entry, a, l
<1>3. new \in Runs /\ new.at = a /\ new.numBlocks = l /\ new.pSrcPool = a /\ new.allocatedBlocks = l
  BY <1>1, <1>2 DEF Runs
<1>4. End(new) = a + l /\ PoolOf(new) = r
  BY <1>1, <1>3 DEF End, PoolOf, Span
<1> HIDE DEF new
<1>5. Gap \in Nat
  BY SourceAssumption
<1>6. ASSUME NEW e \in H PROVE End(e) + Gap <= new.at \/ End(new) + Gap <= e.at
  <2> DEFINE q == PoolOf(e)
  <2>1. e \in Runs /\ q \in P /\ e.pSrcPool <= e.at /\ End(e) <= e.pSrcPool + e.allocatedBlocks
    BY DEF Kept, Tracked
  <2>2. q.at = e.pSrcPool /\ q.len = e.allocatedBlocks
    BY DEF PoolOf, Span
  <2>3. e.at \in Nat /\ End(e) \in Nat /\ e.pSrcPool \in Nat /\ e.allocatedBlocks \in Nat
    BY <2>1, RunIsARecord
  <2> HIDE DEF q
  <2>4. a + l + Gap <= q.at \/ q.at + q.len + Gap <= a
    BY <2>1 DEF Apart, a, l
  <2> QED BY <1>1, <1>3, <1>4, <1>5, <2>1, <2>2, <2>3, <2>4
<1>7. Disjoint(H \cup {new})
  <2>1. \A e \in H : End(e) <= new.at \/ End(new) <= e.at
    <3> SUFFICES ASSUME NEW e \in H PROVE End(e) <= new.at \/ End(new) <= e.at
      OBVIOUS
    <3>1. e.at \in Nat /\ End(e) \in Nat /\ End(new) \in Nat
      BY <1>3, RunIsARecord DEF Kept
    <3> QED BY <1>1, <1>3, <1>5, <1>6, <3>1
  <2> QED BY <2>1 DEF Kept, Disjoint
<1>8. Tracked(H \cup {new}, P \cup {r})
  <2>1. a <= a /\ a + l <= a + l
    BY <1>1
  <2> QED BY <1>3, <1>4, <2>1 DEF Kept, Tracked
<1>9. Covered(H \cup {new}, P \cup {r})
  <2>1. \A b \in a .. a + l - 1 : b \in Blocks(new)
    <3>1. \A b \in a .. a + l - 1 : b \in Int /\ a <= b /\ b < a + l
      BY <1>1
    <3> QED BY <1>3, <1>4, <3>1, BlocksOfRun
  <2> QED BY <2>1 DEF Kept, Covered, a, l
<1>10. PoolsApart(P \cup {r})
  <2>1. \A q \in P : Apart(q, r)
    BY DEF Apart
  <2> QED BY <2>1 DEF Kept, PoolsApart
<1>11. H \cup {new} \subseteq Runs
  BY <1>3 DEF Kept
<1> QED BY <1>3, <1>6, <1>7, <1>8, <1>9, <1>10, <1>11 DEF Kept, new

\* A run as long as its pool is the pool; without it the pool is gone.
LEMMA PoolRemoved ==
    ASSUME NEW H, NEW P, Kept(H, P), NEW e \in H, e.numBlocks = e.allocatedBlocks
    PROVE  /\ Span(e.at, e.numBlocks) = PoolOf(e) /\ PoolOf(e) \in P
           /\ BlocksOf({PoolOf(e)}) = Blocks(e)
           /\ Kept(H \ {e}, P \ {PoolOf(e)})
<1> DEFINE r == PoolOf(e)
<1>1. e \in Runs /\ r \in P /\ e.pSrcPool <= e.at /\ End(e) <= e.pSrcPool + e.allocatedBlocks
  BY DEF Kept, Tracked
<1>2. /\ e.at \in Nat /\ e.pSrcPool \in Nat /\ e.allocatedBlocks \in Nat
      /\ e.numBlocks \in Nat /\ End(e) = e.at + e.numBlocks
  BY <1>1, RunIsARecord DEF End
<1>3. e.at = e.pSrcPool
  BY <1>1, <1>2
<1>4. Span(e.at, e.numBlocks) = r /\ r.at = e.at /\ r.len = e.numBlocks
  BY <1>3 DEF PoolOf, Span
<1> HIDE DEF r
<1>5. BlocksOf({r}) = Blocks(e)
  <2>1. BlocksOf({r}) = r.at .. r.at + r.len - 1
    BY DEF BlocksOf
  <2> QED BY <1>2, <1>4, <2>1 DEF Blocks
<1>6. Tracked(H \ {e}, P \ {r})
  <2> SUFFICES ASSUME NEW f \in H \ {e} PROVE PoolOf(f) # r
    BY DEF Kept, Tracked
  <2> SUFFICES ASSUME PoolOf(f) = r PROVE FALSE
    OBVIOUS
  <2>1. f \in Runs /\ f.pSrcPool <= f.at /\ End(f) <= f.pSrcPool + f.allocatedBlocks
    BY DEF Kept, Tracked
  <2>2. f.at \in Nat /\ End(f) \in Nat /\ f.at < End(f) /\ f.pSrcPool \in Nat
    BY <2>1, RunIsARecord
  <2>3. r.at = f.pSrcPool /\ r.len = f.allocatedBlocks
    BY DEF PoolOf, Span
  <2>4. End(e) <= f.at \/ End(f) <= e.at
    BY DEF Kept, Disjoint
  <2> QED BY <1>2, <1>4, <2>1, <2>2, <2>3, <2>4
<1>7. Covered(H \ {e}, P \ {r})
  <2> SUFFICES ASSUME NEW q \in P \ {r}, NEW b \in q.at .. q.at + q.len - 1
               PROVE  \E f \in H \ {e} : b \in Blocks(f)
    BY DEF Covered
  <2>1. PICK f \in H : b \in Blocks(f)
    BY DEF Kept, Covered
  <2>2. f # e
    <3> SUFFICES ASSUME b \in Blocks(e) PROVE FALSE
      BY <2>1
    <3>1. b \in Int /\ r.at <= b /\ b < r.at + r.len
      BY <1>1, <1>2, <1>4, BlocksOfRun
    <3>2. q.at + q.len + Gap <= r.at \/ r.at + r.len + Gap <= q.at
      BY <1>1 DEF Kept, PoolsApart, Apart
    <3>3. q.at \in Nat /\ q.len \in Nat /\ Gap \in Nat
      BY SourceAssumption DEF Kept, PoolsApart, PoolSet
    <3>4. q.at <= b /\ b < q.at + q.len
      BY <3>3
    <3> QED BY <1>2, <1>4, <3>1, <3>2, <3>3, <3>4
  <2> QED BY <2>1, <2>2
<1>8. Disjoint(H \ {e}) /\ PoolsApart(P \ {r}) /\ H \ {e} \subseteq Runs
  BY DEF Kept, Disjoint, PoolsApart
<1> QED BY <1>1, <1>4, <1>5, <1>6, <1>7, <1>8 DEF Kept, r

-----------------------------------------------------------------------------
(* A list of free runs, the runs allocated and the pools                   *)
WellFormed(list, A, P) ==
    /\ list \in Seq(Runs) /\ InOrder(list)
    /\ ToSet(list) \cap A = {}
    /\ Kept(ToSet(list) \cup A, P)

WholeRuns(F) == {e \in F : e.numBlocks = e.allocatedBlocks}

\* A part of a run is no other run.
LEMMA PartIsNew ==
    ASSUME NEW H, NEW P, Kept(H, P), NEW e \in H, NEW y \in Runs, Blocks(y) \subseteq Blocks(e)
    PROVE  y \notin H \ {e}
<1> SUFFICES ASSUME y \in H \ {e} PROVE FALSE
  OBVIOUS
<1>1. e \in Runs /\ (End(e) <= y.at \/ End(y) <= e.at)
  BY DEF Kept, Disjoint
<1>2. Blocks(e) \cap Blocks(y) = {}
  BY <1>1, ApartOrShared
<1>3. y.at \in Blocks(y)
  BY BlocksOfRun
<1> QED BY <1>2, <1>3

LEMMA FrontTaken ==
    ASSUME NEW list, NEW A, NEW P, WellFormed(list, A, P), NEW i \in DOMAIN list,
           NEW n \in Nat \ {0}, n <= list[i].numBlocks, NEW got,
                 got = [list[i] EXCEPT !.numBlocks = n]
    PROVE  /\ WellFormed(Taken(list, i, n), A \cup {got}, P)
           /\ got \notin A
           /\ WholeRuns(ToSet(Taken(list, i, n))) \subseteq WholeRuns(ToSet(list)) \ {list[i]}
<1> DEFINE e == list[i]
           F == ToSet(list)
           H == F \cup A
           rest == [e EXCEPT !.at = e.at + n, !.numBlocks = e.numBlocks - n]
           k == e.numBlocks
           a == e.at
<1>1. list \in Seq(Runs) /\ InOrder(list) /\ F \cap A = {} /\ Kept(H, P)
  BY DEF WellFormed
<1>2. e \in Runs /\ e \in F
  BY <1>1, ListOfRuns
<1>3. a \in Nat /\ k \in Nat /\ k > 0 /\ End(e) = a + k /\ n <= k
  BY <1>2, RunIsARecord DEF End
<1>4. /\ got \in Runs /\ got.at = a /\ got.numBlocks = n
      /\ got.pSrcPool = e.pSrcPool /\ got.allocatedBlocks = e.allocatedBlocks
  <2> HIDE DEF e
  <2>1. got = [e EXCEPT !.numBlocks = n]
    BY DEF e
  <2> QED BY <1>2, <2>1 DEF Runs
<1>5. n < k => /\ rest \in Runs /\ rest.at = a + n /\ rest.numBlocks = k - n
               /\ rest.pSrcPool = e.pSrcPool /\ rest.allocatedBlocks = e.allocatedBlocks
  <2> SUFFICES ASSUME n < k
               PROVE  /\ rest \in Runs /\ rest.at = a + n /\ rest.numBlocks = k - n
                      /\ rest.pSrcPool = e.pSrcPool /\ rest.allocatedBlocks = e.allocatedBlocks
    OBVIOUS
  <2> DEFINE x == a + n
             y == k - n
  <2>1. x \in Nat /\ y \in Nat \ {0}
    BY <1>3
  <2>2. rest = [e EXCEPT !.at = x, !.numBlocks = y]
    OBVIOUS
  <2> HIDE DEF e, rest, x, y
  <2>3. /\ rest \in Runs /\ rest.at = x /\ rest.numBlocks = y
        /\ rest.pSrcPool = e.pSrcPool /\ rest.allocatedBlocks = e.allocatedBlocks
    BY <1>2, <2>1, <2>2 DEF Runs
  <2> QED BY <2>3 DEF x, y
<1>6. End(got) = a + n /\ (n < k => End(rest) = a + k)
  <2> HIDE DEF rest, a, k
  <2> QED BY <1>3, <1>4, <1>5 DEF End
<1>7. e.pSrcPool <= a /\ a + k <= e.pSrcPool + e.allocatedBlocks /\ PoolOf(e) \in P
  BY <1>1, <1>2, <1>3 DEF Kept, Tracked
<1>8. e.pSrcPool \in Nat /\ e.allocatedBlocks \in Nat
  BY <1>2, RunIsARecord
<1> DEFINE Fn == ToSet(Taken(list, i, n))
<1>9. ASSUME NEW Y \in SUBSET Runs, got \in Y, Fn \cup (A \cup {got}) = (H \ {e}) \cup Y,
             Fn \ (F \ {e}) \subseteq Y \ {got}, Disjoint(Y), Tracked(Y, P),
             UNION {Blocks(x) : x \in {e}} = UNION {Blocks(y) : y \in Y},
             Taken(list, i, n) \in Seq(Runs), InOrder(Taken(list, i, n))
      PROVE  WellFormed(Taken(list, i, n), A \cup {got}, P) /\ got \notin A
  <2> HIDE DEF e, Fn
  <2>1. {e} \in SUBSET H
    BY <1>2
  <2>2. Kept((H \ {e}) \cup Y, P)
    <3> HIDE DEF H
    <3> QED BY <1>1, <1>9, <2>1, Rearranged
  <2>3. \A y \in Y : y \notin H \ {e}
    <3> SUFFICES ASSUME NEW y \in Y PROVE y \notin H \ {e}
      OBVIOUS
    <3>1. y \in Runs /\ Blocks(y) \subseteq Blocks(e)
      BY <1>9
    <3> HIDE DEF H
    <3> QED BY <1>1, <2>1, <3>1, PartIsNew
  <2>4. e \notin A
    BY <1>1, <1>2
  <2>5. Fn \cap (A \cup {got}) = {}
    <3> SUFFICES ASSUME NEW x \in Fn, x \in A \cup {got} PROVE FALSE
      OBVIOUS
    <3>1. CASE x \in F \ {e}
      BY <1>1, <1>9, <2>3, <3>1
    <3>2. CASE x \notin F \ {e}
      BY <1>9, <2>3, <2>4, <3>2
    <3> QED BY <3>1, <3>2
  <2> QED BY <1>9, <2>2, <2>3, <2>4, <2>5 DEF WellFormed, Fn
<1>10. \A b : b \in Blocks(e) <=> b \in Int /\ a <= b /\ b < a + k
  BY <1>2, <1>3, BlocksOfRun
<1>11. \A b : b \in Blocks(got) <=> b \in Int /\ a <= b /\ b < a + n
  BY <1>4, <1>6, BlocksOfRun
<1>12. CASE n < k
  <2>1. Taken(list, i, n) = [list EXCEPT ![i] = rest]
    BY <1>3, <1>12 DEF Taken
  <2>2. e.at < rest.at /\ End(rest) = End(e) /\ rest \in Runs
    BY <1>3, <1>5, <1>6, <1>12
  <2> HIDE DEF rest
  <2>3. /\ Taken(list, i, n) \in Seq(Runs) /\ InOrder(Taken(list, i, n))
        /\ Fn = (F \ {e}) \cup {rest}
    <3> DEFINE t == [list EXCEPT ![i] = rest]
    <3>1. t \in Seq(Runs) /\ InOrder(t) /\ ToSet(t) = (ToSet(list) \ {list[i]}) \cup {rest}
      BY <1>1, <2>2, OneShortened
    <3>2. Taken(list, i, n) = t
      BY <2>1
    <3> HIDE DEF t
    <3> QED BY <3>1, <3>2
  <2> DEFINE Y == {got, rest}
  <2>4. rest.at # got.at
    BY <1>3, <1>4, <1>5, <1>12
  <2>5. Disjoint(Y)
    BY <1>3, <1>4, <1>5, <1>6, <1>12 DEF Disjoint
  <2>6. Tracked(Y, P)
    <3>1. PoolOf(got) = PoolOf(e) /\ PoolOf(rest) = PoolOf(e)
      BY <1>4, <1>5, <1>12 DEF PoolOf
    <3> HIDE DEF e, a, k
    <3>2. /\ got.pSrcPool <= got.at /\ End(got) <= got.pSrcPool + got.allocatedBlocks
          /\ rest.pSrcPool <= rest.at /\ End(rest) <= rest.pSrcPool + rest.allocatedBlocks
      BY <1>3, <1>4, <1>5, <1>6, <1>7, <1>8, <1>12
    <3> QED BY <1>7, <3>1, <3>2 DEF Tracked
  <2>7. UNION {Blocks(x) : x \in {e}} = UNION {Blocks(y) : y \in Y}
    <3>1. \A b : b \in Blocks(rest) <=> b \in Int /\ a + n <= b /\ b < a + k
      BY <1>5, <1>6, <1>12, <2>2, BlocksOfRun
    <3> HIDE DEF e, a, k
    <3>2. \A b : b \in Blocks(e) <=> b \in Blocks(got) \/ b \in Blocks(rest)
      BY <1>3, <1>10, <1>11, <1>12, <3>1
    <3>3. Blocks(e) = Blocks(got) \cup Blocks(rest)
      BY <3>2
    <3> QED BY <3>3
  <2>8. Fn \cup (A \cup {got}) = (H \ {e}) \cup Y
    BY <1>1, <1>2, <2>3
  <2>9. Y \in SUBSET Runs /\ got \in Y /\ Fn \ (F \ {e}) \subseteq Y \ {got}
    BY <1>4, <2>2, <2>3, <2>4
  <2>10. rest.numBlocks # rest.allocatedBlocks
    BY <1>3, <1>5, <1>7, <1>8, <1>12
  <2>11. WholeRuns(Fn) \subseteq WholeRuns(F) \ {e}
    BY <2>3, <2>10 DEF WholeRuns
  <2> HIDE DEF Y, H, Fn
  <2>12. WellFormed(Taken(list, i, n), A \cup {got}, P) /\ got \notin A
    BY <1>9, <2>3, <2>5, <2>6, <2>7, <2>8, <2>9
  <2> QED BY <2>11, <2>12 DEF Fn
<1>13. CASE n = k
  <2>1. Taken(list, i, n) = Unlinked(list, i)
    BY <1>3, <1>13 DEF Taken
  <2>2. /\ Taken(list, i, n) \in Seq(Runs) /\ InOrder(Taken(list, i, n))
        /\ Fn = F \ {e}
    BY <1>1, <2>1, OneUnlinked
  <2> DEFINE Y == {got}
  <2>3. Disjoint(Y)
    BY DEF Disjoint
  <2>4. Tracked(Y, P)
    <3>1. PoolOf(got) = PoolOf(e)
      BY <1>4 DEF PoolOf
    <3> HIDE DEF e, a, k
    <3>2. got.pSrcPool <= got.at /\ End(got) <= got.pSrcPool + got.allocatedBlocks
      BY <1>3, <1>4, <1>6, <1>7, <1>8, <1>13
    <3> QED BY <1>7, <3>1, <3>2 DEF Tracked
  <2>5. UNION {Blocks(x) : x \in {e}} = UNION {Blocks(y) : y \in Y}
    <3> HIDE DEF e, a, k
    <3>1. Blocks(e) = Blocks(got)
      BY <1>10, <1>11, <1>13
    <3> QED BY <3>1
  <2>6. Fn \cup (A \cup {got}) = (H \ {e}) \cup Y
    BY <1>1, <1>2, <2>2
  <2>7. Y \in SUBSET Runs /\ got \in Y /\ Fn \ (F \ {e}) \subseteq Y \ {got}
    BY <1>4, <2>2
  <2>8. WholeRuns(Fn) \subseteq WholeRuns(F) \ {e}
    BY <2>2 DEF WholeRuns
  <2> HIDE DEF Y, H, Fn
  <2>9. WellFormed(Taken(list, i, n), A \cup {got}, P) /\ got \notin A
    BY <1>9, <2>2, <2>3, <2>4, <2>5, <2>6, <2>7
  <2> QED BY <2>8, <2>9 DEF Fn
<1> QED BY <1>3, <1>12, <1>13

LEMMA RunFreed ==
    ASSUME NEW list, NEW A, NEW P, WellFormed(list, A, P), Gap > 0, NEW e \in A
    PROVE  LET m == Merged(list, e)
           IN  /\ WellFormed(m.list, A \ {e}, P)
               /\ m.at \in DOMAIN m.list
               /\ ToSet(m.list) \ {m.list[m.at]} \subseteq ToSet(list)
<1> DEFINE m == Merged(list, e)
           run == m.list[m.at]
           F == ToSet(list)
           H == F \cup A
           N == Neighbours(F, e)
           X == N \cup {e}
<1>1. list \in Seq(Runs) /\ InOrder(list) /\ F \cap A = {} /\ Kept(H, P) /\ e \in Runs
  BY DEF WellFormed, Kept
<1>2. \A x \in F : End(x) <= e.at \/ End(e) <= x.at
  BY <1>1 DEF Kept, Disjoint
<1>3. /\ m.list \in Seq(Runs) /\ InOrder(m.list) /\ m.at \in DOMAIN m.list
      /\ ToSet(m.list) = (F \ N) \cup {run}
      /\ AsOne(X, run)
  BY <1>1, <1>2, RunsAreMerged
<1> HIDE DEF m, run
<1>4. X \in SUBSET H /\ X \subseteq Runs
  BY <1>1 DEF Neighbours, Kept
<1>5. \A x \in X : x.pSrcPool = e.pSrcPool /\ x.allocatedBlocks = e.allocatedBlocks
  <2> SUFFICES ASSUME NEW x \in N
               PROVE  x.pSrcPool = e.pSrcPool /\ x.allocatedBlocks = e.allocatedBlocks
    OBVIOUS
  <2>1. x \in H /\ e \in H /\ (End(x) = e.at \/ End(e) = x.at)
    BY <1>4 DEF Neighbours
  <2> HIDE DEF H
  <2> QED BY <1>1, <2>1, SamePool
<1>6. PICK y \in X : /\ run.at = y.at /\ run.pSrcPool = y.pSrcPool
                     /\ run.allocatedBlocks = y.allocatedBlocks
  BY <1>3 DEF AsOne
<1>7. PICK z \in X : End(run) = End(z)
  BY <1>3 DEF AsOne
<1>8. run \in Runs /\ Blocks(run) = UNION {Blocks(x) : x \in X}
  BY <1>3 DEF AsOne
<1>9. Tracked({run}, P)
  <2>1. PoolOf(run) = PoolOf(y)
    BY <1>6 DEF PoolOf
  <2>2. PoolOf(y) \in P /\ y.pSrcPool <= y.at
    BY <1>1, <1>4 DEF Kept, Tracked
  <2>3. End(z) <= z.pSrcPool + z.allocatedBlocks
    BY <1>1, <1>4 DEF Kept, Tracked
  <2>4. z.pSrcPool = run.pSrcPool /\ z.allocatedBlocks = run.allocatedBlocks
    BY <1>5, <1>6
  <2> QED BY <1>6, <1>7, <2>1, <2>2, <2>3, <2>4 DEF Tracked
<1> DEFINE Y == {run}
<1>10. Kept((H \ X) \cup Y, P)
  <2>1. /\ Y \in SUBSET Runs /\ Disjoint(Y)
        /\ UNION {Blocks(x) : x \in X} = UNION {Blocks(x) : x \in Y}
    BY <1>8 DEF Disjoint
  <2>2. Tracked(Y, P)
    BY <1>9
  <2> HIDE DEF H, X, Y
  <2> QED BY <1>1, <1>4, <2>1, <2>2, Rearranged
<1>11. run \notin A \ {e}
  <2> SUFFICES ASSUME run \in A \ {e} PROVE FALSE
    OBVIOUS
  <2>1. run \in H /\ y \in H /\ y # run
    BY <1>1, <1>4 DEF Neighbours
  <2>2. End(run) <= y.at \/ End(y) <= run.at
    BY <1>1, <2>1 DEF Kept, Disjoint
  <2>3. run.at < End(run) /\ y.at < End(y) /\ run.at \in Nat /\ End(run) \in Nat /\ End(y) \in Nat
    BY <1>4, <1>8, RunIsARecord
  <2> QED BY <1>6, <2>2, <2>3
<1>12. ToSet(m.list) \cap (A \ {e}) = {}
  BY <1>1, <1>3, <1>11
<1>13. ToSet(m.list) \cup (A \ {e}) = (H \ X) \cup Y
  BY <1>1, <1>3 DEF Neighbours
<1>14. WellFormed(m.list, A \ {e}, P)
  BY <1>3, <1>10, <1>12, <1>13 DEF WellFormed
<1>15. ToSet(m.list) \ {run} \subseteq F
  BY <1>3
<1> QED BY <1>3, <1>14, <1>15 DEF m, run

LEMMA PoolPruned ==
    ASSUME NEW list, NEW A, NEW P, WellFormed(list, A, P), NEW i \in DOMAIN list,
           list[i].numBlocks = list[i].allocatedBlocks
    PROVE  LET r == Span(list[i].at, list[i].numBlocks)
           IN  /\ r \in P
               /\ WellFormed(Unlinked(list, i), A, P \ {r})
               /\ ToSet(Unlinked(list, i)) = ToSet(list) \ {list[i]}
<1> DEFINE e == list[i]
           F == ToSet(list)
           H == F \cup A
           u == Unlinked(list, i)
<1>1. list \in Seq(Runs) /\ InOrder(list) /\ F \cap A = {} /\ Kept(H, P)
  BY DEF WellFormed
<1>2. e \in H /\ e \in F /\ e \notin A
  BY <1>1, ListOfRuns
<1>3. u \in Seq(Runs) /\ InOrder(u) /\ ToSet(u) = F \ {e}
  BY <1>1, OneUnlinked
<1> HIDE DEF u, F
<1>4. /\ Span(e.at, e.numBlocks) = PoolOf(e) /\ PoolOf(e) \in P
      /\ Kept(H \ {e}, P \ {PoolOf(e)})
  <2> HIDE DEF H, e
  <2>1. e.numBlocks = e.allocatedBlocks
    BY DEF e
  <2> QED BY <1>1, <1>2, <2>1, PoolRemoved
<1>5. ToSet(u) \cup A = H \ {e} /\ ToSet(u) \cap A = {}
  BY <1>1, <1>2, <1>3
<1>6. WellFormed(u, A, P \ {Span(e.at, e.numBlocks)})
  BY <1>3, <1>4, <1>5 DEF WellFormed
<1> QED BY <1>3, <1>4, <1>6 DEF u, F

-----------------------------------------------------------------------------
(* Sizes: what is asked of the source is enough, and blocks are counted.   *)
LEMMA RoundingUp ==
    ASSUME NEW n \in Nat, NEW m \in Nat \ {0}
    PROVE  RoundedUp(n, m) \in Nat /\ n <= RoundedUp(n, m)
<1> DEFINE y == n + m - 1
           q == y \div m
<1>1. y \in Nat /\ y - (m - 1) = n /\ m \in Nat
  OBVIOUS
<1> HIDE DEF y
<1>2. y = m * q + (y % m) /\ y % m \in 0 .. m - 1 /\ q \in Int
  BY <1>1, DivMod
<1> HIDE DEF q
<1>3. m * q \in Int /\ q * m = m * q
  BY <1>1, <1>2
<1>4. q * m \in Nat /\ n <= q * m
  BY <1>1, <1>2, <1>3
<1> QED BY <1>4 DEF RoundedUp, y, q

LEMMA RequestsSuffice ==
    ASSUME NEW n \in Nat, NEW last \in Nat, NEW r \in CacheRequests(n, last)
    PROVE  r \in Nat /\ n <= r
<1>1. CacheBlocks \in Nat \ {0}
  BY AllocatorAssumption
<1> DEFINE k == ReserveBlocks(n, last)
           h == RoundedUp(3 * last, 2)
<1>2. h \in Nat
  <2>1. 3 * last \in Nat /\ 2 \in Nat \ {0}
    OBVIOUS
  <2> QED BY <2>1, RoundingUp
<1> HIDE DEF h
<1>3. h \div 2 \in Nat
  BY <1>2
<1>4. k \in Nat
  BY <1>1, <1>3 DEF ReserveBlocks, h
<1> HIDE DEF k
<1> DEFINE t == n + k
<1>5. t \in Nat /\ n <= t
  BY <1>4
<1> HIDE DEF t
<1>6. RoundedUp(t, CacheBlocks) \in Nat /\ t <= RoundedUp(t, CacheBlocks)
  BY <1>1, <1>5, RoundingUp
<1>7. RoundedUp(n, CacheBlocks) \in Nat /\ n <= RoundedUp(n, CacheBlocks)
  BY <1>1, RoundingUp
<1>8. r \in {RoundedUp(t, CacheBlocks), RoundedUp(n, CacheBlocks), n}
  BY DEF CacheRequests, t, k
<1> QED BY <1>5, <1>6, <1>7, <1>8

LEMMA GrantedFits ==
    ASSUME NEW P, NEW n \in Nat \ {0}, NEW r \in Granted(P, n)
    PROVE  /\ r \in PoolSet /\ n <= r.len /\ (PageBlocks = 1 => r.len = n)
           /\ \A q \in P : Apart(r, q)
<1> DEFINE len == RoundedUp(n, PageBlocks)
<1>1. len \in Nat /\ n <= len
  BY SourceAssumption, RoundingUp
<1>2. PageBlocks = 1 => len = n
  BY DEF RoundedUp
<1> HIDE DEF len
<1>3. PICK at \in 0 .. HeapBlocks - len : r = Span(at, len)
  BY DEF Granted, len
<1>4. \A q \in P : Apart(r, q)
  BY DEF Granted
<1>5. r = [at |-> at, len |-> len] /\ r.at = at /\ r.len = len
  BY <1>3 DEF Span
<1>6. HeapBlocks \in Nat /\ at \in Nat /\ at + len <= HeapBlocks /\ len \in Nat \ {0}
  BY <1>1, SourceAssumption
<1>7. r \in PoolSet
  BY <1>5, <1>6 DEF PoolSet
<1> QED BY <1>1, <1>2, <1>4, <1>5, <1>7

LEMMA BlocksAreFinite ==
    ASSUME NEW P, PoolsApart(P)
    PROVE  /\ BlocksOf(P) \subseteq 0 .. HeapBlocks - 1
           /\ \A S \in SUBSET BlocksOf(P) : IsFiniteSet(S) /\ Cardinality(S) \in Nat
<1>1. HeapBlocks \in Nat
  BY SourceAssumption
<1>2. ASSUME NEW b \in BlocksOf(P) PROVE b \in 0 .. HeapBlocks - 1
  <2>1. PICK r \in P : b \in r.at .. r.at + r.len - 1
    BY DEF BlocksOf
  <2>2. r.at \in Nat /\ r.len \in Nat /\ r.at + r.len <= HeapBlocks
    BY DEF PoolsApart, PoolSet
  <2> QED BY <1>1, <2>1, <2>2
<1>3. IsFiniteSet(0 .. HeapBlocks - 1)
  <2>1. 0 \in Int /\ HeapBlocks - 1 \in Int
    BY <1>1
  <2> QED BY <2>1, FS_Interval
<1>4. ASSUME NEW S \in SUBSET BlocksOf(P) PROVE IsFiniteSet(S) /\ Cardinality(S) \in Nat
  <2>1. S \in SUBSET (0 .. HeapBlocks - 1)
    BY <1>2
  <2>2. IsFiniteSet(S)
    BY <1>3, <2>1, FS_Subset
  <2> QED BY <2>2, FS_CardinalityType
<1> QED BY <1>2, <1>4

LEMMA CardinalityOfRest ==
    ASSUME NEW S, IsFiniteSet(S), NEW T \in SUBSET S
    PROVE  Cardinality(S) = Cardinality(S \ T) + Cardinality(T)
<1> DEFINE R == S \ T
<1>1. R \in SUBSET S /\ S = R \cup T /\ R \cap T = {}
  OBVIOUS
<1> HIDE DEF R
<1>2. IsFiniteSet(R) /\ IsFiniteSet(T)
  BY <1>1, FS_Subset
<1>3. Cardinality(R \cup T) = Cardinality(R) + Cardinality(T) - Cardinality(R \cap T)
  BY <1>2, FS_Union
<1>4. Cardinality(R \cap T) = 0
  BY <1>1, FS_EmptySet
<1>5. Cardinality(R) \in Nat /\ Cardinality(T) \in Nat
  BY <1>2, FS_CardinalityType
<1> QED BY <1>1, <1>3, <1>4, <1>5 DEF R

\* Pools share no block.
LEMMA PoolsGivenBack ==
    ASSUME NEW P, PoolsApart(P), NEW R \in SUBSET P
    PROVE  /\ Cardinality(BlocksOf(P \ R)) = Cardinality(BlocksOf(P)) - Cardinality(BlocksOf(R))
           /\ Cardinality(BlocksOf(P)) \in Nat /\ Cardinality(BlocksOf(R)) \in Nat
<1> DEFINE S == BlocksOf(P)
           T == BlocksOf(R)
           U == BlocksOf(P \ R)
<1>1. T \in SUBSET S /\ U \subseteq S
  BY DEF BlocksOf
<1>2. U = S \ T
  <2>1. ASSUME NEW b \in U PROVE b \notin T
    <3> SUFFICES ASSUME b \in T PROVE FALSE
      OBVIOUS
    <3>1. PICK r \in P \ R : b \in r.at .. r.at + r.len - 1
      BY DEF BlocksOf
    <3>2. PICK q \in R : b \in q.at .. q.at + q.len - 1
      BY DEF BlocksOf
    <3>3. Apart(r, q)
      BY <3>1, <3>2 DEF PoolsApart
    <3>4. r.at \in Nat /\ r.len \in Nat /\ q.at \in Nat /\ q.len \in Nat /\ Gap \in Nat
      BY SourceAssumption DEF PoolsApart, PoolSet
    <3> QED BY <3>1, <3>2, <3>3, <3>4 DEF Apart
  <2>2. ASSUME NEW b \in S \ T PROVE b \in U
    <3>1. PICK r \in P : b \in r.at .. r.at + r.len - 1
      BY DEF BlocksOf
    <3>2. r \notin R
      BY <3>1 DEF BlocksOf
    <3> QED BY <3>1, <3>2 DEF BlocksOf
  <2> QED BY <1>1, <2>1, <2>2
<1>3. IsFiniteSet(S) /\ Cardinality(S) \in Nat /\ Cardinality(T) \in Nat /\ Cardinality(U) \in Nat
  BY <1>1, BlocksAreFinite
<1> HIDE DEF S, T, U
<1>4. Cardinality(S) = Cardinality(S \ T) + Cardinality(T)
  BY <1>1, <1>3, CardinalityOfRest
<1> QED BY <1>2, <1>3, <1>4 DEF S, T, U

LEMMA PoolCounted ==
    ASSUME NEW P, PoolsApart(P), NEW r \in PoolSet, \A q \in P : Apart(r, q)
    PROVE  Cardinality(BlocksOf(P \cup {r})) = Cardinality(BlocksOf(P)) + r.len
<1> DEFINE S == BlocksOf(P \cup {r})
           T == BlocksOf({r})
           Q == P \cup {r}
<1>1. PoolsApart(Q) /\ {r} \in SUBSET Q
  BY DEF PoolsApart, Apart
<1>2. r \notin P
  <2> SUFFICES ASSUME r \in P PROVE FALSE
    OBVIOUS
  <2>1. r.at \in Nat /\ r.len \in Nat \ {0} /\ Gap \in Nat
    BY SourceAssumption DEF PoolSet
  <2> QED BY <2>1 DEF Apart
<1>3. Q \ {r} = P
  BY <1>2
<1> HIDE DEF Q
<1>4. /\ Cardinality(BlocksOf(Q \ {r})) = Cardinality(BlocksOf(Q)) - Cardinality(BlocksOf({r}))
      /\ Cardinality(BlocksOf(Q)) \in Nat /\ Cardinality(BlocksOf({r})) \in Nat
  BY <1>1, PoolsGivenBack
<1>5. Cardinality(BlocksOf({r})) = r.len
  <2> DEFINE a == r.at
             l == r.len
  <2>1. BlocksOf({r}) = a .. a + l - 1
    BY DEF BlocksOf
  <2>2. a \in Nat /\ l \in Nat \ {0}
    BY DEF PoolSet
  <2> HIDE DEF a, l
  <2> DEFINE z == a + l - 1
  <2>3. a \in Int /\ z \in Int /\ ~(a > z) /\ z - a + 1 = l
    BY <2>2
  <2> HIDE DEF z
  <2>4. Cardinality(a .. z) = l
    BY <2>3, FS_Interval
  <2> QED BY <2>1, <2>4 DEF l, z
<1>6. r.len \in Nat
  BY DEF PoolSet
<1> DEFINE c == Cardinality(BlocksOf(Q))
           d == Cardinality(BlocksOf(P))
<1>7. d = c - r.len /\ c \in Nat
  BY <1>3, <1>4, <1>5
<1> HIDE DEF c, d
<1>8. c = d + r.len
  BY <1>6, <1>7
<1> QED BY <1>8 DEF c, d, Q

-----------------------------------------------------------------------------
(* The states of an allocator whose runs in use are A                      *)
IsState(s) ==
    s = [list |-> s.list, last |-> s.last, count |-> s.count, pools |-> s.pools,
         strays |-> s.strays]

AtMostOne(S) == \A e, f \in S : e = f

Counted(count, P) == PageBlocks = 1 => count = Cardinality(BlocksOf(P))

\* All but that one whole pool at most is free
Sound(s, A) ==
    /\ IsState(s)
    /\ s.strays = {} /\ s.last \in Nat
    /\ WellFormed(s.list, A, s.pools)
    /\ Counted(s.count, s.pools)

Good(s, A) == Sound(s, A) /\ AtMostOne(WholeRuns(ToSet(s.list)))

LEMMA StateWithList ==
    ASSUME NEW s, IsState(s), NEW l
    PROVE  LET t == [s EXCEPT !.list = l]
           IN  /\ IsState(t) /\ t.list = l /\ t.last = s.last /\ t.count = s.count
               /\ t.pools = s.pools /\ t.strays = s.strays
<1> DEFINE a == s.last
           b == s.count
           c == s.pools
           d == s.strays
           k == s.list
           t == [s EXCEPT !.list = l]
<1>1. s = [list |-> k, last |-> a, count |-> b, pools |-> c, strays |-> d]
  BY DEF IsState
<1> HIDE DEF a, b, c, d, k
<1>2. t = [list |-> l, last |-> a, count |-> b, pools |-> c, strays |-> d]
  BY <1>1
<1> HIDE DEF t
<1> QED BY <1>2 DEF t, a, b, c, d, IsState

\* Ranges that are pools go back to the source.
LEMMA PoolsReturned ==
    ASSUME NEW s, IsState(s), s.last \in Nat, NEW A, NEW R \in SUBSET s.pools,
           PoolsApart(s.pools), WellFormed(s.list, A, s.pools \ R), Counted(s.count, s.pools)
    PROVE  Sound(GivenBack(s, R), A) /\ GivenBack(s, R).list = s.list
<1> DEFINE t == GivenBack(s, R)
           c == Freed(s.count, Cardinality(BlocksOf(R)))
           p == s.pools \ R
           x == R \ s.pools
<1>1. t = [list |-> s.list, last |-> s.last, count |-> c, pools |-> p, strays |-> x]
  BY DEF GivenBack
<1>2. x = {}
  OBVIOUS
<1>3. Counted(c, p)
  BY PoolsGivenBack DEF Counted, Freed
<1> HIDE DEF c, p, x, t
<1>4. /\ IsState(t) /\ t.list = s.list /\ t.last = s.last /\ t.count = c
      /\ t.pools = p /\ t.strays = x
  BY <1>1 DEF IsState
<1>5. WellFormed(t.list, A, t.pools)
  BY <1>4 DEF p
<1> QED BY <1>2, <1>3, <1>4, <1>5 DEF Sound, t

LEMMA CutIsGood ==
    ASSUME NEW s, NEW A, Sound(s, A), NEW i \in DOMAIN s.list, NEW n \in Nat \ {0},
           n <= s.list[i].numBlocks, AtMostOne(WholeRuns(ToSet(s.list)) \ {s.list[i]})
    PROVE  LET o == Cut(s, i, n) IN Good(o.s, A \cup {o.got}) /\ o.got \notin A
<1> DEFINE o == Cut(s, i, n)
           list == s.list
           P == s.pools
           got == [list[i] EXCEPT !.numBlocks = n]
           l == Taken(list, i, n)
           t == [s EXCEPT !.list = l]
<1>1. o.s = t /\ o.got = got
  <2> HIDE DEF t, got
  <2> QED BY DEF Cut, t, got
<1>2. WellFormed(list, A, P) /\ IsState(s)
  BY DEF Sound
<1> HIDE DEF P, o
<1>3. /\ WellFormed(l, A \cup {got}, P) /\ got \notin A
      /\ WholeRuns(ToSet(l)) \subseteq WholeRuns(ToSet(list)) \ {list[i]}
  <2> HIDE DEF list
  <2>1. i \in DOMAIN list /\ n <= list[i].numBlocks
    BY DEF list
  <2> QED BY <1>2, <2>1, FrontTaken
<1> HIDE DEF l, got
<1>4. /\ IsState(t) /\ t.list = l /\ t.last = s.last /\ t.count = s.count
      /\ t.pools = s.pools /\ t.strays = s.strays
  BY <1>2, StateWithList
<1> HIDE DEF t
<1>5. Sound(t, A \cup {got})
  BY <1>3, <1>4 DEF Sound, P
<1>6. AtMostOne(WholeRuns(ToSet(t.list)))
  BY <1>3, <1>4 DEF AtMostOne
<1>7. Good(o.s, A \cup {o.got}) /\ o.got \notin A
  BY <1>1, <1>3, <1>5, <1>6 DEF Good
<1> QED BY <1>7 DEF o

LEMMA GrownIsSound ==
    ASSUME NEW s, NEW A, Good(s, A), Gap > 0, NEW n \in Nat \ {0}, NEW g \in Grow(s, n)
    PROVE  /\ Sound(g, A)
           /\ \E e \in Runs : /\ ToSet(g.list) = ToSet(s.list) \cup {e}
                              /\ n <= e.numBlocks
<1>0. PICK r \in CacheRequests(n, s.last) :
        g \in {[list |-> WithCache(s.list, NewPool(c.pool)), last |-> c.pool.len,
                count |-> c.count, pools |-> s.pools \cup {c.pool}, strays |-> s.strays] :
                 c \in Constrained(s.count, s.pools, r)}
  BY DEF Grow
<1>1. PICK c \in Constrained(s.count, s.pools, r) :
        g = [list |-> WithCache(s.list, NewPool(c.pool)), last |-> c.pool.len,
             count |-> c.count, pools |-> s.pools \cup {c.pool}, strays |-> s.strays]
  BY <1>0
<1> DEFINE list == s.list
           P == s.pools
           q == c.pool
           e == NewPool(q)
           l == WithCache(list, e)
           H == ToSet(list) \cup A
<1>2. /\ IsState(s) /\ s.strays = {} /\ s.last \in Nat /\ Counted(s.count, P)
      /\ list \in Seq(Runs) /\ InOrder(list) /\ ToSet(list) \cap A = {} /\ Kept(H, P)
  BY DEF Good, Sound, WellFormed
<1>3. r \in Nat \ {0} /\ n <= r
  BY <1>2, RequestsSuffice
<1>4. c.count = s.count + r /\ q \in Granted(P, r)
  <2>1. PICK z \in Granted(s.pools, r) : c = [count |-> s.count + r, pool |-> z]
    BY DEF Constrained
  <2> QED BY <2>1
<1> HIDE DEF q
<1>5. /\ q \in PoolSet /\ r <= q.len /\ (PageBlocks = 1 => q.len = r)
      /\ \A x \in P : Apart(q, x)
  <2> HIDE DEF P
  <2> QED BY <1>3, <1>4, GrantedFits
<1>6. q = [at |-> q.at, len |-> q.len] /\ q.len \in Nat /\ q.at \in Nat
  BY <1>5 DEF PoolSet
<1>7. /\ e \in Runs
      /\ Kept(H \cup {e}, P \cup {q})
      /\ \A x \in H : End(x) + Gap <= e.at \/ End(e) + Gap <= x.at
  <2> HIDE DEF H, P
  <2> QED BY <1>2, <1>5, PoolAdded
<1>8. e.numBlocks = q.len
  BY DEF NewPool, Entry
<1> HIDE DEF e
<1>9. \A x \in H : End(x) < e.at \/ End(e) < x.at
  <2> SUFFICES ASSUME NEW x \in H PROVE End(x) < e.at \/ End(e) < x.at
    OBVIOUS
  <2>1. x \in Runs
    BY <1>2 DEF Kept
  <2>2. e.at \in Nat /\ End(e) \in Nat /\ x.at \in Nat /\ End(x) \in Nat /\ Gap \in Nat
    BY <1>7, <2>1, RunIsARecord, SourceAssumption
  <2> QED BY <1>7, <2>2
<1>10. l \in Seq(Runs) /\ InOrder(l) /\ ToSet(l) = ToSet(list) \cup {e}
  BY <1>2, <1>7, <1>9, PoolLinked
<1>11. e \notin A
  <2> SUFFICES ASSUME e \in A PROVE FALSE
    OBVIOUS
  <2>1. e.at \in Nat /\ End(e) \in Nat /\ e.at < End(e)
    BY <1>7, RunIsARecord
  <2> QED BY <1>9, <2>1
<1>12. WellFormed(l, A, P \cup {q})
  <2>1. ToSet(l) \cup A = H \cup {e} /\ ToSet(l) \cap A = {}
    BY <1>2, <1>10, <1>11
  <2> QED BY <1>7, <1>10, <2>1 DEF WellFormed
<1> HIDE DEF l, H
<1>13. Counted(c.count, P \cup {q})
  <2> SUFFICES ASSUME PageBlocks = 1 PROVE c.count = Cardinality(BlocksOf(P \cup {q}))
    BY DEF Counted
  <2>1. PoolsApart(P) /\ \A x \in P : Apart(q, x)
    BY <1>2, <1>5 DEF Kept
  <2>2. Cardinality(BlocksOf(P \cup {q})) = Cardinality(BlocksOf(P)) + q.len
    <3> HIDE DEF P
    <3> QED BY <1>5, <2>1, PoolCounted
  <2> QED BY <1>2, <1>4, <1>5, <2>2 DEF Counted
<1> DEFINE pp == P \cup {q}
           cc == c.count
           ll == q.len
<1>14. g = [list |-> l, last |-> ll, count |-> cc, pools |-> pp, strays |-> s.strays]
  BY <1>1 DEF l, e, q
<1> HIDE DEF pp, cc, ll
<1>15. /\ IsState(g) /\ g.list = l /\ g.last = ll /\ g.count = cc /\ g.pools = pp
       /\ g.strays = s.strays
  BY <1>14 DEF IsState
<1>16. Sound(g, A)
  BY <1>2, <1>6, <1>12, <1>13, <1>15 DEF Sound, pp, cc, ll
<1>17. n <= e.numBlocks
  BY <1>3, <1>5, <1>6, <1>8
<1> QED BY <1>7, <1>10, <1>15, <1>16, <1>17

\* An allocation from a run that was free, or from a new pool
LEMMA AllocatedIsGood ==
    ASSUME NEW s, NEW A, Good(s, A), Gap > 0, NEW n \in Nat \ {0}, NEW o \in Allocated(s, n)
    PROVE  Good(o.s, A \cup {o.got}) /\ o.got \notin A
<1>1. s.list \in Seq(Runs)
  BY DEF Good, Sound, WellFormed
<1>2. CASE Fitting(s.list, n) # {}
  <2> DEFINE S == Fitting(s.list, n)
             i == CHOOSE k \in S : \A j \in S : k <= j
  <2>1. S \in SUBSET Nat
    BY <1>1, ListOfRuns DEF Fitting
  <2>2. \E k \in S : \A j \in S : k <= j
    <3> HIDE DEF S
    <3> QED BY <1>2, <2>1, LeastNumber DEF S
  <2>3. i \in S
    <3> HIDE DEF S
    <3> QED BY <2>2
  <2>4. o = Cut(s, i, n)
    BY <1>2 DEF Allocated
  <2> HIDE DEF i
  <2>5. i \in DOMAIN s.list /\ n <= s.list[i].numBlocks
    <3>1. i \in DOMAIN s.list /\ s.list[i].numBlocks >= n
      BY <2>3 DEF Fitting
    <3>2. s.list[i].numBlocks \in Nat
      BY <1>1, <3>1, ListOfRuns, RunIsARecord
    <3> QED BY <3>1, <3>2
  <2>6. Sound(s, A) /\ AtMostOne(WholeRuns(ToSet(s.list)) \ {s.list[i]})
    BY DEF Good, AtMostOne
  <2> QED BY <2>4, <2>5, <2>6, CutIsGood
<1>3. CASE Fitting(s.list, n) = {}
  <2>1. PICK g \in Grow(s, n) : o = Cut(g, CHOOSE i \in Fitting(g.list, n) : TRUE, n)
    BY <1>3 DEF Allocated
  <2>2. Sound(g, A)
    BY GrownIsSound
  <2>3. PICK e \in Runs : ToSet(g.list) = ToSet(s.list) \cup {e} /\ n <= e.numBlocks
    BY GrownIsSound
  <2>4. g.list \in Seq(Runs)
    BY <2>2 DEF Sound, WellFormed
  <2> DEFINE i == CHOOSE k \in Fitting(g.list, n) : TRUE
  <2>5. \E k \in Fitting(g.list, n) : TRUE
    <3>1. PICK k \in 1 .. Len(g.list) : g.list[k] = e
      BY <2>3, <2>4, ListOfRuns
    <3>2. k \in DOMAIN g.list /\ g.list[k].numBlocks >= n
      BY <2>3, <2>4, <3>1, ListOfRuns, RunIsARecord
    <3> QED BY <3>2 DEF Fitting
  <2>6. i \in Fitting(g.list, n)
    BY <2>5
  <2>7. o = Cut(g, i, n)
    BY <2>1
  <2> HIDE DEF i
  <2>8. i \in DOMAIN g.list /\ g.list[i].numBlocks >= n /\ g.list[i] \in Runs
        /\ g.list[i] \in ToSet(g.list)
    BY <2>4, <2>6, ListOfRuns DEF Fitting
  <2>9. n <= g.list[i].numBlocks
    BY <2>8, RunIsARecord
  <2>10. g.list[i] \notin ToSet(s.list)
    <3> SUFFICES ASSUME g.list[i] \in ToSet(s.list) PROVE FALSE
      OBVIOUS
    <3>1. PICK k \in 1 .. Len(s.list) : s.list[k] = g.list[i]
      BY <1>1, ListOfRuns
    <3>2. k \in DOMAIN s.list
      BY <1>1, ListOfRuns
    <3> QED BY <1>3, <2>8, <3>1, <3>2 DEF Fitting
  <2>11. g.list[i] = e
    BY <2>3, <2>8, <2>10
  <2>12. AtMostOne(WholeRuns(ToSet(g.list)) \ {g.list[i]})
    BY <2>3, <2>11 DEF Good, AtMostOne, WholeRuns
  <2> QED BY <2>2, <2>7, <2>8, <2>9, <2>12, CutIsGood
<1> QED BY <1>2, <1>3

LEMMA FreedIsGood ==
    ASSUME NEW s, NEW A, Good(s, A), Gap > 0, NEW e \in A
    PROVE  Good(FreeImpl(s, e), A \ {e})
<1> DEFINE m == Merged(s.list, e)
           l == m.list
           at == m.at
           run == l[at]
           F == ToSet(s.list)
           B == A \ {e}
<1>1. /\ IsState(s) /\ s.strays = {} /\ s.last \in Nat /\ Counted(s.count, s.pools)
      /\ WellFormed(s.list, A, s.pools) /\ AtMostOne(WholeRuns(F))
  BY DEF Good, Sound
<1>2. WellFormed(l, B, s.pools) /\ at \in DOMAIN l /\ ToSet(l) \ {run} \subseteq F
  BY <1>1, RunFreed
<1> DEFINE u == Unlinked(l, at)
           r == Span(run.at, run.numBlocks)
           t == [s EXCEPT !.list = l]
           v == [s EXCEPT !.list = u]
<1>3. FreeImpl(s, e) = IF Prunable(l, at) THEN GivenBack(v, {r}) ELSE t
  BY DEF FreeImpl
<1> HIDE DEF m, l, at, B
<1>4. l \in Seq(Runs)
  BY <1>2 DEF WellFormed
<1>5. CASE Prunable(l, at)
  <2>1. run.numBlocks = run.allocatedBlocks
    BY <1>5 DEF Prunable
  <2>2. /\ r \in s.pools /\ WellFormed(u, B, s.pools \ {r})
        /\ ToSet(u) = ToSet(l) \ {run}
    BY <1>2, <2>1, PoolPruned
  <2> HIDE DEF u, r, run, F
  <2>3. /\ IsState(v) /\ v.list = u /\ v.last = s.last /\ v.count = s.count
        /\ v.pools = s.pools /\ v.strays = s.strays
    BY <1>1, StateWithList
  <2> HIDE DEF v
  <2>4. PoolsApart(s.pools)
    BY <1>1 DEF WellFormed, Kept
  <2>5. Sound(GivenBack(v, {r}), B) /\ GivenBack(v, {r}).list = v.list
    <3> DEFINE R == {r}
    <3>1. R \in SUBSET v.pools /\ WellFormed(v.list, B, v.pools \ R)
      BY <2>2, <2>3
    <3> HIDE DEF R
    <3>2. Sound(GivenBack(v, R), B) /\ GivenBack(v, R).list = v.list
      BY <1>1, <2>3, <2>4, <3>1, PoolsReturned
    <3> QED BY <3>2 DEF R
  <2>6. AtMostOne(WholeRuns(ToSet(u)))
    BY <1>1, <1>2, <2>2 DEF AtMostOne, WholeRuns
  <2> QED BY <1>3, <1>5, <2>3, <2>5, <2>6 DEF Good, B
<1>6. CASE ~Prunable(l, at)
  <2>1. /\ IsState(t) /\ t.list = l /\ t.last = s.last /\ t.count = s.count
        /\ t.pools = s.pools /\ t.strays = s.strays
    BY <1>1, StateWithList
  <2>2. CASE run.numBlocks # run.allocatedBlocks
    <3>1. WholeRuns(ToSet(l)) \subseteq WholeRuns(F)
      BY <1>2, <2>2 DEF WholeRuns
    <3>2. AtMostOne(WholeRuns(ToSet(l)))
      BY <1>1, <3>1 DEF AtMostOne
    <3> HIDE DEF t
    <3> QED BY <1>1, <1>2, <1>3, <1>6, <2>1, <3>2 DEF Good, Sound, B
  <2>3. CASE ~(Len(l) > 1)
    <3>1. DOMAIN l = 1 .. Len(l) /\ Len(l) \in Nat
      BY <1>4, ListOfRuns
    <3>2. \A i \in DOMAIN l : i = at
      BY <1>2, <2>3, <3>1
    <3>3. AtMostOne(WholeRuns(ToSet(l)))
      BY <3>2 DEF AtMostOne, WholeRuns, ToSet
    <3> HIDE DEF t
    <3> QED BY <1>1, <1>2, <1>3, <1>6, <2>1, <3>3 DEF Good, Sound, B
  <2> QED BY <1>6, <2>2, <2>3 DEF Prunable
<1> QED BY <1>5, <1>6

\* Once nothing is allocated, the list is that of the pools.
LEMMA OnlyPoolsAreLeft ==
    ASSUME NEW list, NEW P, WellFormed(list, {}, P)
    PROVE  {Span(e.at, e.numBlocks) : e \in {f \in ToSet(list) : f.pSrcPool = f.at}} = P
<1> DEFINE F == ToSet(list)
           R == {Span(e.at, e.numBlocks) : e \in {f \in F : f.pSrcPool = f.at}}
<1>1. list \in Seq(Runs) /\ InOrder(list) /\ Kept(F, P) /\ F \subseteq Runs
  <2>1. F \cup {} = F
    OBVIOUS
  <2> QED BY <2>1 DEF WellFormed, Kept
<1>2. ASSUME NEW x \in F, NEW y \in F, x # y PROVE End(x) < y.at \/ End(y) < x.at
  <2>1. PICK i \in 1 .. Len(list) : list[i] = x
    BY <1>1, ListOfRuns
  <2>2. PICK j \in 1 .. Len(list) : list[j] = y
    BY <1>1, ListOfRuns
  <2>3. i < j \/ j < i
    BY <1>1, <1>2, <2>1, <2>2, ListOfRuns
  <2> QED BY <1>1, <2>1, <2>2, <2>3, ListOfRuns DEF InOrder
<1> HIDE DEF F
<1>3. ASSUME NEW e \in F, e.pSrcPool = e.at PROVE e.numBlocks = e.allocatedBlocks
  <2>1. e \in Runs /\ PoolOf(e) \in P /\ End(e) <= e.pSrcPool + e.allocatedBlocks
    BY <1>1 DEF Kept, Tracked
  <2>2. /\ e.at \in Nat /\ e.numBlocks \in Nat /\ e.allocatedBlocks \in Nat /\ End(e) \in Nat
        /\ End(e) = e.at + e.numBlocks /\ e.at < End(e)
    BY <2>1, RunIsARecord DEF End
  <2> SUFFICES ASSUME End(e) < e.at + e.allocatedBlocks PROVE FALSE
    BY <1>3, <2>1, <2>2
  <2> DEFINE r == PoolOf(e)
             b == End(e)
  <2>3. r.at = e.at /\ r.len = e.allocatedBlocks
    BY <1>3 DEF PoolOf, Span
  <2> HIDE DEF r
  <2>4. b \in r.at .. r.at + r.len - 1
    BY <2>2, <2>3
  <2> HIDE DEF b
  <2>5. PICK f \in F : b \in Blocks(f)
    BY <1>1, <2>1, <2>4 DEF Kept, Covered, r
  <2>6. f \in Runs /\ f.at \in Nat /\ End(f) \in Nat /\ f.at <= b /\ b < End(f)
    BY <1>1, <2>5, BlocksOfRun, RunIsARecord
  <2>7. f # e
    BY <2>2, <2>6 DEF b
  <2>8. End(e) < f.at \/ End(f) < e.at
    BY <1>2, <2>7
  <2> QED BY <2>2, <2>6, <2>8 DEF b
<1>4. ASSUME NEW e \in F, e.pSrcPool = e.at PROVE Span(e.at, e.numBlocks) = PoolOf(e)
             /\ PoolOf(e) \in P
  <2>1. e.numBlocks = e.allocatedBlocks
    BY <1>3, <1>4
  <2> QED BY <1>1, <2>1, PoolRemoved
<1>5. ASSUME NEW r \in P PROVE r \in R
  <2>1. r.at \in Nat /\ r.len \in Nat \ {0}
    BY <1>1 DEF Kept, PoolsApart, PoolSet
  <2> DEFINE b == r.at
  <2>2. b \in r.at .. r.at + r.len - 1
    BY <2>1
  <2> HIDE DEF b
  <2>3. PICK f \in F : b \in Blocks(f)
    BY <1>1, <2>2 DEF Kept, Covered
  <2>4. /\ f \in Runs /\ f.at \in Nat /\ End(f) \in Nat /\ f.at <= b /\ b < End(f)
        /\ f.pSrcPool \in Nat /\ f.allocatedBlocks \in Nat
    BY <1>1, <2>3, BlocksOfRun, RunIsARecord
  <2> DEFINE q == PoolOf(f)
  <2>5. q \in P /\ f.pSrcPool <= f.at /\ End(f) <= f.pSrcPool + f.allocatedBlocks
    BY <1>1 DEF Kept, Tracked
  <2>6. q.at = f.pSrcPool /\ q.len = f.allocatedBlocks
    BY DEF PoolOf, Span
  <2> HIDE DEF q
  <2>7. q = r
    <3> SUFFICES ASSUME q # r PROVE FALSE
      OBVIOUS
    <3>1. q.at + q.len + Gap <= r.at \/ r.at + r.len + Gap <= q.at
      BY <1>1, <2>5 DEF Kept, PoolsApart, Apart
    <3>2. Gap \in Nat
      BY SourceAssumption
    <3> QED BY <2>1, <2>4, <2>5, <2>6, <3>1, <3>2 DEF b
  <2>8. f.pSrcPool = f.at
    BY <2>1, <2>4, <2>5, <2>6, <2>7 DEF b
  <2>9. Span(f.at, f.numBlocks) = r
    BY <1>4, <2>7, <2>8 DEF q
  <2> QED BY <2>8, <2>9
<1>6. R = P
  BY <1>4, <1>5
<1> QED BY <1>6 DEF F

LEMMA NothingIsKept == WellFormed(<<>>, {}, {}) /\ ToSet(<<>>) = {}
<1>1. ToSet(<<>>) = {}
  BY DEF ToSet
<1>2. <<>> \in Seq(Runs) /\ InOrder(<<>>)
  BY DEF InOrder
<1>3. Kept({} \cup {}, {})
  BY DEF Kept, PoolsApart, Disjoint, Tracked, Covered
<1> QED BY <1>1, <1>2, <1>3 DEF WellFormed

-----------------------------------------------------------------------------
(* The inductive invariant, over a source that leaves gaps                 *)
IInv == Good(Now, live)

LEMMA NowIsAState ==
    /\ IsState(Now)
    /\ Now.list = mList /\ Now.last = mLastAllocSize /\ Now.count = mBytesAllocated
    /\ Now.pools = pools /\ Now.strays = strays
BY DEF Now, IsState

LEMMA BecameGood ==
    ASSUME NEW s, Becomes(s), Good(s, live')
    PROVE  IInv'
<1>1. IsState(s)
  BY DEF Good, Sound
<1>2. Now' = s
  BY <1>1 DEF Now, Becomes, IsState
<1> QED BY <1>2 DEF IInv

LEMMA NeedsAreNumbers == \A n \in Needs : n \in Nat \ {0}
BY AllocatorAssumption

LEMMA InitIsGood ==
    ASSUME Init, Gap > 0
    PROVE  IInv
<1>1. live = {} /\ strays = {}
  BY DEF Init
<1>2. CASE mList = <<>> /\ mLastAllocSize = 0 /\ mBytesAllocated = 0 /\ pools = {}
  <2>1. Counted(0, {})
    <3>1. BlocksOf({}) = {}
      BY DEF BlocksOf
    <3> QED BY <3>1, FS_EmptySet DEF Counted
  <2>2. AtMostOne(WholeRuns({}))
    BY DEF AtMostOne, WholeRuns
  <2>3. ToSet(mList) = {} /\ WellFormed(mList, {}, {})
    BY <1>2, NothingIsKept
  <2> HIDE DEF Now
  <2>4. Sound(Now, {})
    BY <1>1, <1>2, <2>1, <2>3, NowIsAState DEF Sound
  <2>5. AtMostOne(WholeRuns(ToSet(Now.list)))
    BY <2>2, <2>3, NowIsAState
  <2> QED BY <1>1, <2>4, <2>5 DEF IInv, Good
<1>3. ASSUME NEW n \in Needs, NEW c \in Constrained(0, {}, n),
             mList = <<NewPool(c.pool)>>, mLastAllocSize = c.pool.len,
             mBytesAllocated = c.count, pools = {c.pool}
      PROVE  IInv
  <2> DEFINE q == c.pool
             e == NewPool(q)
             l == <<e>>
  <2>1. c.count = 0 + n /\ q \in Granted({}, n)
    <3>1. PICK z \in Granted({}, n) : c = [count |-> 0 + n, pool |-> z]
      BY DEF Constrained
    <3> QED BY <3>1
  <2> HIDE DEF q
  <2>2. n \in Nat \ {0}
    BY NeedsAreNumbers
  <2>3. q \in PoolSet /\ (PageBlocks = 1 => q.len = n)
    BY <2>1, <2>2, GrantedFits
  <2>4. Kept({}, {}) /\ PoolsApart({})
    BY DEF Kept, PoolsApart, Disjoint, Tracked, Covered
  <2>5. e \in Runs /\ Kept({} \cup {e}, {} \cup {q})
    BY <2>3, <2>4, PoolAdded
  <2>6. Cardinality(BlocksOf({} \cup {q})) = Cardinality(BlocksOf({})) + q.len
    BY <2>3, <2>4, PoolCounted
  <2>7. Cardinality(BlocksOf({})) = 0
    <3>1. BlocksOf({}) = {}
      BY DEF BlocksOf
    <3> QED BY <3>1, FS_EmptySet
  <2> HIDE DEF e
  <2>8. l \in Seq(Runs) /\ InOrder(l) /\ ToSet(l) = {e}
    BY <2>5 DEF InOrder, ToSet
  <2>9. {} \cup {e} = ToSet(l) \cup {} /\ {} \cup {q} = {q} /\ ToSet(l) \cap {} = {}
    BY <2>8
  <2>10. WellFormed(l, {}, {q})
    BY <2>5, <2>8, <2>9 DEF WellFormed
  <2>11. Counted(c.count, {q})
    BY <2>1, <2>2, <2>3, <2>6, <2>7, <2>9 DEF Counted
  <2>12. AtMostOne(WholeRuns(ToSet(l)))
    BY <2>8 DEF AtMostOne, WholeRuns
  <2>13. q.len \in Nat
    BY <2>3 DEF PoolSet
  <2>14. mList = l /\ mLastAllocSize = q.len /\ pools = {q} /\ mBytesAllocated = c.count
    BY <1>3 DEF e, q
  <2> HIDE DEF l, Now
  <2> QED BY <1>1, <2>10, <2>11, <2>12, <2>13, <2>14, NowIsAState DEF IInv, Good, Sound
<1> QED BY <1>2, <1>3 DEF Init

LEMMA DestroyIsGood ==
    ASSUME IInv, Destroy
    PROVE  IInv'
<1> DEFINE R == {Span(e.at, e.numBlocks) : e \in {f \in ToSet(mList) : f.pSrcPool = f.at}}
           s == [list |-> <<>>, last |-> 0, count |-> mBytesAllocated,
                 pools |-> pools, strays |-> strays]
<1>1. /\ live = {} /\ live' = {} /\ Becomes(GivenBack(s, R))
  BY DEF Destroy
<1>2. WellFormed(mList, {}, pools) /\ Counted(mBytesAllocated, pools)
  BY <1>1, NowIsAState DEF IInv, Good, Sound
<1>3. R = pools
  BY <1>2, OnlyPoolsAreLeft
<1>4. /\ IsState(s) /\ s.list = <<>> /\ s.last = 0 /\ s.count = mBytesAllocated
      /\ s.pools = pools
  BY DEF IsState
<1>5. PoolsApart(pools)
  BY <1>2 DEF WellFormed, Kept
<1>6. pools \ pools = {}
  OBVIOUS
<1> HIDE DEF s, R
<1>7. Sound(GivenBack(s, R), {}) /\ GivenBack(s, R).list = <<>>
  <2>1. R \in SUBSET s.pools /\ s.pools \ R = {} /\ s.last \in Nat
    BY <1>3, <1>4
  <2>2. WellFormed(s.list, {}, s.pools \ R)
    BY <1>4, <2>1, NothingIsKept
  <2> QED BY <1>2, <1>4, <1>5, <2>1, <2>2, PoolsReturned
<1>8. AtMostOne(WholeRuns(ToSet(<<>>)))
  BY NothingIsKept DEF AtMostOne, WholeRuns
<1>9. Good(GivenBack(s, R), live')
  BY <1>1, <1>7, <1>8 DEF Good
<1> QED BY <1>1, <1>9, BecameGood

LEMMA IInvStep ==
    ASSUME IInv, [Next]_vars, Gap > 0
    PROVE  IInv'
<1>1. CASE UNCHANGED vars
  BY <1>1 DEF IInv, Now, vars
<1>2. ASSUME NEW n \in Needs, Allocate(n) PROVE IInv'
  <2>1. PICK o \in Allocated(Now, n) : Becomes(o.s) /\ live' = live \cup {o.got}
    BY <1>2 DEF Allocate
  <2>2. Good(o.s, live')
    BY <2>1, AllocatedIsGood, NeedsAreNumbers DEF IInv
  <2> QED BY <2>1, <2>2, BecameGood
<1>3. ASSUME NEW e \in live, Free(e) PROVE IInv'
  <2>1. Good(FreeImpl(Now, e), live')
    BY <1>3, FreedIsGood DEF IInv, Free
  <2> QED BY <1>3, <2>1, BecameGood DEF Free
<1>4. ASSUME NEW e \in live, NEW n \in Needs, Reallocate(e, n) PROVE IInv'
  <2>1. PICK o \in Allocated(Now, n) :
          Becomes(FreeImpl(o.s, e)) /\ live' = (live \ {e}) \cup {o.got}
    BY <1>4 DEF Reallocate
  <2> DEFINE B == live \cup {o.got}
  <2>2. Good(o.s, B) /\ o.got \notin live /\ e \in B
    BY AllocatedIsGood, NeedsAreNumbers DEF IInv
  <2>3. live' = B \ {e}
    BY <2>1, <2>2
  <2> HIDE DEF B
  <2>4. Good(FreeImpl(o.s, e), live')
    BY <2>2, <2>3, FreedIsGood
  <2> QED BY <2>1, <2>4, BecameGood
<1>5. CASE Destroy
  BY <1>5, DestroyIsGood
<1> QED BY <1>1, <1>2, <1>3, <1>4, <1>5 DEF Next

LEMMA AlwaysGood == Gap > 0 => (Spec => []IInv)
<1> SUFFICES ASSUME Gap > 0 PROVE Spec => []IInv
  OBVIOUS
<1>1. Init => IInv
  BY InitIsGood
<1>2. IInv /\ [Next]_vars => IInv'
  BY IInvStep
<1> QED BY <1>1, <1>2, PTL DEF Spec

(* Over a source that leaves gaps between its ranges, as malloc does, no   *)
(* sequence of calls loses a block or hands one out twice.                 *)
THEOREM BlocksConserved == Gap > 0 => (Spec => []BlocksAreConserved)
<1> SUFFICES ASSUME Gap > 0 PROVE Spec => []BlocksAreConserved
  OBVIOUS
<1>1. IInv => BlocksAreConserved
  <2> SUFFICES ASSUME IInv PROVE BlocksAreConserved
    OBVIOUS
  <2>1. WellFormed(mList, live, pools) /\ Headers = ToSet(mList) \cup live
    BY NowIsAState DEF IInv, Good, Sound, Headers
  <2>2. Kept(Headers, pools) /\ ToSet(mList) \cap live = {}
    BY <2>1 DEF WellFormed
  <2> HIDE DEF Headers
  <2>3. ASSUME NEW e \in Headers, NEW f \in Headers, e # f PROVE Blocks(e) \cap Blocks(f) = {}
    <3>1. e \in Runs /\ f \in Runs /\ (End(e) <= f.at \/ End(f) <= e.at)
      BY <2>2, <2>3 DEF Kept, Disjoint
    <3> QED BY <3>1, ApartOrShared
  <2>4. ASSUME NEW e \in Headers, NEW b \in Blocks(e) PROVE b \in BlocksOf(pools)
    <3> DEFINE r == PoolOf(e)
    <3>1. e \in Runs /\ r \in pools /\ e.pSrcPool <= e.at
          /\ End(e) <= e.pSrcPool + e.allocatedBlocks
      BY <2>2 DEF Kept, Tracked
    <3>2. r.at = e.pSrcPool /\ r.len = e.allocatedBlocks
      BY DEF PoolOf, Span
    <3> HIDE DEF r
    <3>3. /\ b \in Int /\ e.at <= b /\ b < End(e) /\ e.pSrcPool \in Nat /\ e.at \in Nat
          /\ e.allocatedBlocks \in Nat /\ End(e) \in Nat
      BY <3>1, BlocksOfRun, RunIsARecord
    <3>4. b \in r.at .. r.at + r.len - 1
      BY <3>1, <3>2, <3>3
    <3> QED BY <3>1, <3>4 DEF BlocksOf
  <2>5. ASSUME NEW b \in BlocksOf(pools) PROVE \E e \in Headers : b \in Blocks(e)
    <3>1. PICK r \in pools : b \in r.at .. r.at + r.len - 1
      BY DEF BlocksOf
    <3> QED BY <2>2, <3>1 DEF Kept, Covered
  <2>6. UNION {Blocks(e) : e \in Headers} = BlocksOf(pools)
    BY <2>4, <2>5
  <2> QED BY <2>2, <2>3, <2>6 DEF BlocksAreConserved
<1> QED BY <1>1, AlwaysGood, PTL

(* The list stays in address order and free runs that touch are one run.   *)
THEOREM FreeRunsAreMerged == Gap > 0 => (Spec => []NeighboursAreMerged)
<1> SUFFICES ASSUME Gap > 0 PROVE Spec => []NeighboursAreMerged
  OBVIOUS
<1>1. IInv => NeighboursAreMerged
  <2> SUFFICES ASSUME IInv PROVE NeighboursAreMerged
    OBVIOUS
  <2>1. mList \in Seq(Runs) /\ InOrder(mList)
    BY NowIsAState DEF IInv, Good, Sound, WellFormed
  <2>2. ASSUME NEW i \in 1 .. Len(mList) - 1 PROVE End(mList[i]) < mList[i + 1].at
    <3>1. Len(mList) \in Nat /\ DOMAIN mList = 1 .. Len(mList)
      BY <2>1, ListOfRuns
    <3>2. i \in DOMAIN mList /\ i + 1 \in DOMAIN mList /\ i < i + 1
      BY <3>1
    <3> QED BY <2>1, <3>2 DEF InOrder
  <2> QED BY <2>2 DEF NeighboursAreMerged
<1> QED BY <1>1, AlwaysGood, PTL

(* Every header names the pool it lies in, and at most one pool is free.   *)
THEOREM PoolsTracked == Gap > 0 => (Spec => []PoolsAreTracked)
<1> SUFFICES ASSUME Gap > 0 PROVE Spec => []PoolsAreTracked
  OBVIOUS
<1>1. IInv => PoolsAreTracked
  <2> SUFFICES ASSUME IInv PROVE PoolsAreTracked
    OBVIOUS
  <2>1. /\ WellFormed(mList, live, pools) /\ Headers = ToSet(mList) \cup live
        /\ AtMostOne(WholeRuns(ToSet(mList)))
    BY NowIsAState DEF IInv, Good, Sound, Headers
  <2>2. Tracked(Headers, pools)
    BY <2>1 DEF WellFormed, Kept
  <2>3. ASSUME NEW e \in Headers
        PROVE  \E r \in pools : /\ r = Span(e.pSrcPool, e.allocatedBlocks)
                                /\ r.at <= e.at /\ End(e) <= r.at + r.len
    <3>1. /\ PoolOf(e) \in pools
          /\ e.pSrcPool <= e.at /\ End(e) <= e.pSrcPool + e.allocatedBlocks
      BY <2>2 DEF Tracked
    <3>2. PoolOf(e).at = e.pSrcPool /\ PoolOf(e).len = e.allocatedBlocks
      BY DEF PoolOf, Span
    <3> QED BY <3>1, <3>2 DEF PoolOf
  <2> DEFINE S == {e \in ToSet(mList) : e.numBlocks = e.allocatedBlocks}
  <2>4. Cardinality(S) <= 1
    <3>1. \A e, f \in S : e = f
      BY <2>1 DEF AtMostOne, WholeRuns
    <3> HIDE DEF S
    <3>2. CASE S = {}
      BY <3>2, FS_EmptySet
    <3>3. CASE S # {}
      <4>1. PICK e \in S : TRUE
        BY <3>3
      <4>2. S = {e}
        BY <3>1
      <4> QED BY <4>2, FS_Singleton
    <3> QED BY <3>2, <3>3
  <2> QED BY <2>3, <2>4 DEF PoolsAreTracked
<1> QED BY <1>1, AlwaysGood, PTL

(* Over malloc the ConstrainedAllocator counts the blocks of the pools.    *)
THEOREM BudgetExact == Gap > 0 /\ PageBlocks = 1 => (Spec => []BudgetIsExact)
<1> SUFFICES ASSUME Gap > 0, PageBlocks = 1 PROVE Spec => []BudgetIsExact
  OBVIOUS
<1>1. IInv => BudgetIsExact
  BY NowIsAState DEF IInv, Good, Sound, Counted, BudgetIsExact
<1> QED BY <1>1, AlwaysGood, PTL
=============================================================================
