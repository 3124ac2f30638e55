------------------------- MODULE ParallelSort_proofs -------------------------
(***************************************************************************)
(* No two threads of a parallel sort work on one place of the array, for   *)
(* any array, any number of threads and any interleaving.                  *)
(*                                                                         *)
(* First the stages: numSortPhases counts the ends of stages that threads  *)
(* have come to, and nobody goes on before all have come (NobodyAhead), so *)
(* two threads that work are in one stage. Then the units of a stage: each *)
(* sort deals out blocks of the array in turn, block q to thread q modulo  *)
(* the number of threads, or one block to each; and what a unit touches    *)
(* lies in its block.                                                      *)
(***************************************************************************)
EXTENDS ParallelSort, CommonLemmas, FiniteSetTheorems

T == call.threads

\* How many stages a thread has come to the end of.
Arrivals(t) == IF pc[t] = "spin" THEN stage[t] ELSE stage[t] - 1
Arrived == {e \in Threads \X Nat : 1 <= e[2] /\ e[2] <= Arrivals(e[1])}

PlacesOK ==
    /\ call \in Calls
    /\ pc \in [AllThreads -> {"work", "spin", "done", "gaveUp"}]
    /\ stage \in [AllThreads -> Nat \ {0}]
    /\ unit \in [AllThreads -> Nat \ {0}]

PhasesAreArrivals == IsFiniteSet(Arrived) /\ numSortPhases = Cardinality(Arrived)

NobodyAhead == \A t, u \in Threads : stage[t] - 1 <= Arrivals(u)

IInv == PlacesOK /\ PhasesAreArrivals /\ NobodyAhead

-----------------------------------------------------------------------------
(* The stages                                                              *)

LEMMA CallTyped ==
    ASSUME call \in Calls
    PROVE  /\ T \in Nat \ {0} /\ n \in Nat
           /\ call.kind = "sheared" => n > 0
           /\ Threads \subseteq AllThreads
<1>1. T \in Nat \ {0} /\ (call.kind = "sheared" => n > 0)
    BY CallsAssumption DEF T, n
<1>2. n \in Nat
    BY CallsAssumption, FS_CardinalityType DEF n, Count
<1>3. Threads \subseteq AllThreads
    BY DEF Threads, AllThreads
<1> QED BY <1>1, <1>2, <1>3

LEMMA InitIInv == Init => IInv
<1> SUFFICES ASSUME Init PROVE IInv
    OBVIOUS
<1>1. call \in Calls /\ Threads \subseteq AllThreads
    BY CallTyped DEF Init
<1>2. PlacesOK
    BY DEF Init, PlacesOK
<1>3. \A t \in Threads : stage[t] = 1 /\ Arrivals(t) = 0
    BY <1>1 DEF Init, Arrivals
<1>4. Arrived = {}
    BY <1>3 DEF Arrived
<1>5. PhasesAreArrivals
    BY <1>4, FS_EmptySet DEF Init, PhasesAreArrivals
<1>6. NobodyAhead
    BY <1>3 DEF NobodyAhead
<1> QED BY <1>2, <1>5, <1>6 DEF IInv

(* A thread that may leave its stage was the last to come, or came earlier.*)
LEMMA AllHaveArrived ==
    ASSUME IInv, NEW t \in Threads, numSortPhases >= stage[t] * T
    PROVE  \A u \in Threads : stage[t] <= Arrivals(u)
<1> DEFINE s == stage[t]
<1>1. T \in Nat \ {0} /\ Threads = 0 .. T - 1
    BY CallTyped DEF IInv, PlacesOK, Threads, T
<1>2. \A u \in Threads : stage[u] \in Nat \ {0} /\ Arrivals(u) \in Nat /\ Arrivals(u) <= stage[u]
    BY CallTyped DEF IInv, PlacesOK, Arrivals
<1>3. SUFFICES ASSUME NEW v \in Threads, ~(s <= Arrivals(v)) PROVE FALSE
    OBVIOUS
<1>4. ASSUME NEW u \in Threads PROVE Arrivals(u) <= s
    <2>1. stage[u] - 1 <= Arrivals(v)
        BY DEF IInv, NobodyAhead
    <2> QED BY <1>2, <1>3, <2>1
<1> DEFINE All == Threads \X (1 .. s)
<1>5. s \in Nat \ {0}
    BY <1>2
<1>6. Arrived \subseteq All \ {<<v, s>>}
    <2>1. ASSUME NEW e \in Arrived PROVE e \in All /\ e # <<v, s>>
        <3>1. e \in Threads \X Nat /\ 1 <= e[2] /\ e[2] <= Arrivals(e[1])
            BY DEF Arrived
        <3>2. e[1] \in Threads /\ e[2] \in 1 .. s
            BY <1>2, <1>4, <1>5, <3>1
        <3>3. e = <<v, s>> => s <= Arrivals(v)
            BY <3>1
        <3> QED BY <1>3, <3>1, <3>2, <3>3
    <2> QED BY <2>1
<1> HIDE DEF s
<1>7. IsFiniteSet(All) /\ Cardinality(All) = T * s
    <2>1. IsFiniteSet(Threads) /\ Cardinality(Threads) = T
        BY <1>1, FS_Interval
    <2>2. IsFiniteSet(1 .. s) /\ Cardinality(1 .. s) = s
        BY <1>5, FS_Interval
    <2> QED BY <2>1, <2>2, FS_Product
<1>8. <<v, s>> \in All
    BY <1>5
<1>9. IsFiniteSet(All \ {<<v, s>>}) /\ Cardinality(All \ {<<v, s>>}) = T * s - 1
    <2> HIDE DEF All
    <2> QED BY <1>7, <1>8, FS_RemoveElement
<1>10. numSortPhases <= T * s - 1
    <2>1. Cardinality(Arrived) <= Cardinality(All \ {<<v, s>>})
        BY <1>6, <1>9, FS_Subset
    <2> QED BY <1>9, <2>1 DEF IInv, PhasesAreArrivals
<1>11. s * T = T * s /\ T * s \in Nat
    BY <1>1, <1>5
<1>12. numSortPhases \in Nat
    BY FS_CardinalityType DEF IInv, PhasesAreArrivals
<1> QED BY <1>10, <1>11, <1>12 DEF s

(* Steps that bring nobody to the end of a stage, nor into the next one.   *)
LEMMA NobodyMoves ==
    ASSUME IInv, UNCHANGED <<call, numSortPhases, stage>>, PlacesOK',
           \A t \in Threads : Arrivals(t)' = Arrivals(t)
    PROVE  IInv'
<1>1. Threads' = Threads
    BY DEF Threads
<1>2. Arrived' = Arrived
    BY <1>1 DEF Arrived
<1>3. PhasesAreArrivals'
    BY <1>2 DEF IInv, PhasesAreArrivals
<1>4. NobodyAhead'
    BY <1>1 DEF IInv, NobodyAhead
<1> QED BY <1>3, <1>4 DEF IInv

LEMMA NextIInv == IInv /\ [Next]_vars => IInv'
<1> SUFFICES ASSUME IInv, [Next]_vars PROVE IInv'
    OBVIOUS
<1>1. CASE UNCHANGED vars
    <2>1. PlacesOK' /\ (\A t \in Threads : Arrivals(t)' = Arrivals(t))
        BY <1>1 DEF vars, IInv, PlacesOK, Arrivals
    <2> QED BY <1>1, <2>1, NobodyMoves DEF vars
<1>2. ASSUME NEW t \in Threads, Alone(t) \/ Together(t) PROVE IInv'
    <2>1. call \in Calls /\ Threads \subseteq AllThreads /\ Threads' = Threads
        BY <1>2, CallTyped DEF IInv, PlacesOK, Threads, Alone, Together, Work, Arrive, Leave, Return
    <2>2. pc[t] # "spin" => Arrivals(t) = stage[t] - 1
        BY DEF Arrivals
    <2>3. CASE Alone(t) \/ Return(t)
        <3>1. pc[t] = "work" /\ pc' = [pc EXCEPT ![t] = "done"] /\ UNCHANGED <<call, numSortPhases, stage, unit>>
            BY <2>3 DEF Alone, Return
        <3>2. PlacesOK' /\ (\A u \in Threads : Arrivals(u)' = Arrivals(u))
            BY <2>1, <3>1 DEF IInv, PlacesOK, Arrivals
        <3> QED BY <3>1, <3>2, NobodyMoves
    <2>4. CASE Work(t)
        <3>1. unit' = [unit EXCEPT ![t] = @ + 1] /\ UNCHANGED <<call, numSortPhases, stage, pc>>
            BY <2>4 DEF Work
        <3>2. PlacesOK' /\ (\A u \in Threads : Arrivals(u)' = Arrivals(u))
            BY <2>1, <3>1 DEF IInv, PlacesOK, Arrivals
        <3> QED BY <3>1, <3>2, NobodyMoves
    <2>5. CASE Arrive(t)
        <3>1. /\ pc[t] = "work" /\ pc' = [pc EXCEPT ![t] = "spin"]
              /\ numSortPhases' = numSortPhases + 1 /\ UNCHANGED <<call, stage, unit>>
            BY <2>5 DEF Arrive, Working
        <3>2. PlacesOK'
            BY <2>1, <3>1 DEF IInv, PlacesOK
        <3>3. stage[t] \in Nat \ {0} /\ Arrivals(t) = stage[t] - 1 /\ Arrivals(t)' = stage[t]
            BY <2>1, <3>1 DEF IInv, PlacesOK, Arrivals
        <3>4. \A u \in Threads \ {t} : Arrivals(u)' = Arrivals(u)
            BY <2>1, <3>1 DEF IInv, PlacesOK, Arrivals
        <3>5. \A u \in Threads : stage[u] \in Nat /\ Arrivals(u) \in Nat
            BY <2>1 DEF IInv, PlacesOK, Arrivals
        <3> DEFINE e == <<t, stage[t]>>
        <3>6. Arrived' = Arrived \cup {e} /\ e \notin Arrived
            <4>1. Arrived' = {d \in Threads \X Nat : 1 <= d[2] /\ d[2] <= Arrivals(d[1])'}
                BY <2>1 DEF Arrived
            <4>2. e \in Threads \X Nat /\ e[1] = t /\ e[2] = stage[t]
                BY <3>3
            <4>3. e \in Arrived' /\ e \notin Arrived
                BY <3>3, <4>1, <4>2 DEF Arrived
            <4>4. ASSUME NEW d \in Threads \X Nat, d # e
                  PROVE  d \in Arrived' <=> d \in Arrived
                <5>1. CASE d[1] = t
                    <6>1. d[2] # stage[t]
                        BY <4>4, <5>1
                    <6> QED BY <3>3, <4>1, <5>1, <6>1 DEF Arrived
                <5>2. CASE d[1] # t
                    BY <3>4, <4>1, <5>2 DEF Arrived
                <5> QED BY <5>1, <5>2
            <4>5. Arrived \subseteq Threads \X Nat /\ Arrived' \subseteq Threads \X Nat
                BY <4>1 DEF Arrived
            <4> QED BY <4>2, <4>3, <4>4, <4>5
        <3>7. PhasesAreArrivals'
            <4>1. /\ IsFiniteSet(Arrived \cup {e})
                  /\ Cardinality(Arrived \cup {e}) = Cardinality(Arrived) + 1
                BY <3>6, FS_AddElement DEF IInv, PhasesAreArrivals
            <4> QED BY <3>1, <3>6, <4>1 DEF IInv, PhasesAreArrivals
        <3>8. NobodyAhead'
            <4>1. \A u \in Threads : Arrivals(u) <= Arrivals(u)'
                BY <3>3, <3>4, <3>5
            <4>2. \A u, v \in Threads : stage[u] - 1 <= Arrivals(v)
                BY DEF IInv, NobodyAhead
            <4>3. \A u \in Threads : Arrivals(u)' \in Nat
                BY <3>3, <3>4, <3>5
            <4>4. \A u, v \in Threads : stage[u] - 1 <= Arrivals(v)'
                BY <3>5, <4>1, <4>2, <4>3
            <4> QED BY <2>1, <3>1, <4>4 DEF NobodyAhead
        <3> QED BY <3>2, <3>7, <3>8 DEF IInv
    <2>6. CASE Leave(t)
        <3>1. /\ pc[t] = "spin" /\ pc' = [pc EXCEPT ![t] = "work"]
              /\ stage' = [stage EXCEPT ![t] = @ + 1] /\ unit' = [unit EXCEPT ![t] = 1]
              /\ UNCHANGED <<call, numSortPhases>>
              /\ numSortPhases >= stage[t] * T
            BY <2>6 DEF Leave, StageIsOver, T
        <3>2. PlacesOK'
            BY <2>1, <3>1 DEF IInv, PlacesOK
        <3>3. \A u \in Threads : Arrivals(u)' = Arrivals(u)
            BY <2>1, <3>1 DEF IInv, PlacesOK, Arrivals
        <3>4. Arrived' = Arrived
            BY <2>1, <3>3 DEF Arrived
        <3>5. PhasesAreArrivals'
            BY <3>1, <3>4 DEF IInv, PhasesAreArrivals
        <3>6. stage[t] \in Nat /\ stage'[t] - 1 = stage[t]
            BY <2>1, <3>1 DEF IInv, PlacesOK
        <3>7. \A u \in Threads \ {t} : stage'[u] = stage[u]
            BY <2>1, <3>1 DEF IInv, PlacesOK
        <3>8. \A u \in Threads : stage[t] <= Arrivals(u)
            BY <3>1, AllHaveArrived
        <3>9. ASSUME NEW u \in Threads, NEW v \in Threads PROVE stage'[u] - 1 <= Arrivals(v)
            <4>1. stage[u] - 1 <= Arrivals(v)
                BY DEF IInv, NobodyAhead
            <4> QED BY <3>6, <3>7, <3>8, <4>1
        <3>10. NobodyAhead'
            BY <2>1, <3>3, <3>9 DEF NobodyAhead
        <3> QED BY <3>2, <3>5, <3>10 DEF IInv
    <2> QED BY <1>2, <2>3, <2>4, <2>5, <2>6 DEF Together
<1> QED BY <1>1, <1>2 DEF Next

LEMMA Inductive == Spec => []IInv
BY InitIInv, NextIInv, PTL DEF Spec

(* Threads that work are in the same stage.                                *)
LEMMA OneStage ==
    ASSUME IInv, NEW t \in Threads, NEW u \in Threads, Working(t), Working(u)
    PROVE  stage[t] = stage[u] /\ stage[t] \in 1 .. Len(Stages)
<1>1. stage[t] \in Nat \ {0} /\ stage[u] \in Nat \ {0}
    BY CallTyped DEF IInv, PlacesOK
<1>2. stage[t] - 1 <= stage[u] - 1 /\ stage[u] - 1 <= stage[t] - 1
    BY DEF IInv, NobodyAhead, Arrivals, Working
<1> QED BY <1>1, <1>2 DEF Working

-----------------------------------------------------------------------------
(* The operators the units are made of                                     *)

LEMMA MinOfTwo ==
    ASSUME NEW a \in Int, NEW b \in Int
    PROVE  Min({a, b}) = IF a <= b THEN a ELSE b
<1>1. \E x \in {a, b} : \A y \in {a, b} : x =< y
    OBVIOUS
<1>2. Min({a, b}) \in {a, b} /\ \A y \in {a, b} : Min({a, b}) =< y
    BY <1>1, Zenon DEF Min
<1> QED BY <1>2

LEMMA QuotientBounds ==
    ASSUME NEW a \in Nat, NEW d \in Nat \ {0}
    PROVE  a \div d \in Nat /\ d * (a \div d) <= a
OBVIOUS

LEMMA StepsTyped ==
    ASSUME NEW first \in Int, NEW limit \in Int, NEW inc \in Nat \ {0}
    PROVE  Steps(first, limit, inc) \in Seq({x \in Int : first <= x /\ x < limit})
<1> DEFINE len == IF first < limit THEN (limit - first + inc - 1) \div inc ELSE 0
           S == {x \in Int : first <= x /\ x < limit}
<1>1. len \in Nat /\ (first < limit => inc * len <= limit - first + inc - 1)
    <2>1. CASE first < limit
        <3>1. limit - first + inc - 1 \in Nat
            BY <2>1
        <3> QED BY <2>1, <3>1, QuotientBounds
    <2>2. CASE ~(first < limit)
        BY <2>2
    <2> QED BY <2>1, <2>2
<1>2. Steps(first, limit, inc) = [m \in 1 .. len |-> first + (m - 1) * inc]
    BY DEF Steps
<1>3. ASSUME NEW m \in 1 .. len PROVE first + (m - 1) * inc \in S
    <2>1. first < limit
        BY <1>3
    <2> HIDE DEF len
    <2>2. m \in Nat /\ m >= 1 /\ m <= len
        BY <1>1
    <2>3. (m - 1) * inc \in Nat
        BY <2>2
    <2>4. inc * m <= inc * len
        BY <1>1, <2>2
    <2>5. (m - 1) * inc = inc * m - inc
        BY <2>2
    <2>6. first + (m - 1) * inc < limit
        BY <1>1, <2>1, <2>2, <2>3, <2>4, <2>5
    <2> QED BY <2>3, <2>6
<1> HIDE DEF len, S
<1>4. [m \in 1 .. len |-> first + (m - 1) * inc] \in Seq(S)
    BY <1>1, <1>3
<1> QED BY <1>2, <1>4 DEF S

LEMMA StepsAt ==
    ASSUME NEW first \in Int, NEW limit \in Int, NEW inc \in Nat \ {0}
    PROVE  \A m \in DOMAIN Steps(first, limit, inc) :
               m \in Nat \ {0} /\ Steps(first, limit, inc)[m] = first + (m - 1) * inc
<1> DEFINE len == IF first < limit THEN (limit - first + inc - 1) \div inc ELSE 0
<1>1. Steps(first, limit, inc) = [m \in 1 .. len |-> first + (m - 1) * inc]
    BY DEF Steps
<1> HIDE DEF len
<1> QED BY <1>1

LEMMA LargerSet ==
    ASSUME NEW R, NEW S, R \subseteq S, NEW q \in Seq(R)
    PROVE  q \in Seq(S)
OBVIOUS

(* Joining sequences one after another.                                    *)
LEMMA FlattenTyped ==
    ASSUME NEW S, NEW ss \in Seq(Seq(S))
    PROVE  FlattenSeq(ss) \in Seq(S)
<1> DEFINE N == Len(ss)
<1>1. CASE N = 0
    <2>1. ss = <<>> /\ <<>> \in Seq(S)
        BY <1>1
    <2> QED BY <1>1, <2>1 DEF FlattenSeq
<1>2. CASE N # 0
    <2>1. N \in Nat \ {0} /\ N - 1 \in Nat
        BY <1>2
    <2>2. \A i \in 1 .. N : ss[i] \in Seq(S)
        OBVIOUS
    <2> DEFINE g == [i \in 1 .. N - 1 |-> [x \in Seq(S) |-> x \o ss[i + 1]]]
               Body(f) == [i \in 1 .. N |-> IF i = 1 THEN ss[i] ELSE f[i - 1] \o ss[i]]
    <2>3. g \in [1 .. N - 1 -> [Seq(S) -> Seq(S)]]
        <3>1. ASSUME NEW i \in 1 .. N - 1, NEW x \in Seq(S) PROVE x \o ss[i + 1] \in Seq(S)
            <4>1. ss[i + 1] \in Seq(S)
                BY <2>1, <2>2
            <4> QED BY <4>1
        <3> QED BY <3>1
    <2>4. ss[1] \in Seq(S)
        BY <2>1, <2>2
    <2>5. PICK v \in [0 .. N - 1 -> Seq(S)] : IsRun(v, N - 1, ss[1], g)
        <3> HIDE DEF g, N
        <3> QED BY <2>1, <2>3, <2>4, Recurrence
    <2> DEFINE f == [i \in 1 .. N |-> v[i - 1]]
    <2>6. f = Body(f)
        <3>1. ASSUME NEW i \in 1 .. N, i # 1 PROVE v[i - 1] = f[i - 1] \o ss[i]
            <4>1. i - 1 \in 1 .. N - 1 /\ i - 1 \in 0 .. N - 1 /\ i - 1 # 0 /\ i - 1 \in 1 .. N
                BY <2>1, <3>1
            <4>2. v[i - 1] = g[i - 1][v[(i - 1) - 1]]
                <5> HIDE DEF g, f, N
                <5> QED BY <2>5, <4>1 DEF IsRun
            <4>3. (i - 1) + 1 = i /\ v[(i - 1) - 1] \in Seq(S) /\ f[i - 1] = v[(i - 1) - 1]
                <5>1. (i - 1) + 1 = i /\ (i - 1) - 1 \in 0 .. N - 1 /\ i - 1 \in 1 .. N
                    BY <4>1
                <5>2. v[(i - 1) - 1] \in Seq(S)
                    <6> HIDE DEF f, g, N
                    <6> QED BY <5>1
                <5>3. f[i - 1] = v[(i - 1) - 1]
                    BY <5>1
                <5> QED BY <5>1, <5>2, <5>3
            <4>4. g[i - 1][v[(i - 1) - 1]] = v[(i - 1) - 1] \o ss[i]
                BY <4>1, <4>3
            <4> QED BY <4>2, <4>3, <4>4
        <3>2. v[0] = ss[1]
            <4>1. 0 \in 0 .. N - 1
                BY <2>1
            <4> QED BY <2>5, <4>1 DEF IsRun
        <3>3. f = [i \in 1 .. N |-> v[i - 1]]
            OBVIOUS
        <3> HIDE DEF f, g
        <3>4. ASSUME NEW i \in 1 .. N
              PROVE  v[i - 1] = IF i = 1 THEN ss[i] ELSE f[i - 1] \o ss[i]
            <4>1. CASE i = 1
                <5>1. i - 1 = 0
                    BY <4>1
                <5> QED BY <3>2, <4>1, <5>1, Zenon
            <4>2. CASE i # 1
                BY <3>1, <4>2, Zenon
            <4> QED BY <4>1, <4>2
        <3> QED BY <3>3, <3>4
    <2> DEFINE h == CHOOSE f0 : f0 = Body(f0)
    <2>7. h = Body(h)
        <3>1. \E f0 : f0 = Body(f0)
            <4> HIDE DEF f, g
            <4> QED BY <2>6
        <3> HIDE DEF Body, g, f
        <3> QED BY <3>1
    <2>8. FlattenSeq(ss) = h[N]
        BY <1>2 DEF FlattenSeq
    <2> HIDE DEF h, g, f
    <2> DEFINE w == [k \in 0 .. N - 1 |-> h[k + 1]]
    <2>9. \A k \in 0 .. N - 1 : w[k] \in Seq(S)
        <3>1. w[0] \in Seq(S)
            <4>1. 0 \in 0 .. N - 1 /\ 1 \in 1 .. N
                BY <2>1
            <4>2. w[0] = h[1] /\ h[1] = ss[1]
                BY <2>7, <4>1
            <4> QED BY <2>4, <4>2
        <3>2. ASSUME NEW k \in 1 .. N - 1, w[k - 1] \in Seq(S) PROVE w[k] \in Seq(S)
            <4>1. k \in 0 .. N - 1 /\ k - 1 \in 0 .. N - 1 /\ k + 1 \in 1 .. N /\ k + 1 # 1
                  /\ (k - 1) + 1 = k /\ (k + 1) - 1 = k
                BY <2>1
            <4>2. w[k] = h[k + 1] /\ w[k - 1] = h[k]
                BY <4>1
            <4>3. h[k + 1] = h[k] \o ss[k + 1]
                BY <2>7, <4>1
            <4>4. ss[k + 1] \in Seq(S)
                BY <2>2, <4>1
            <4>5. h[k] \in Seq(S)
                BY <3>2, <4>2
            <4>6. h[k] \o ss[k + 1] \in Seq(S)
                <5> HIDE DEF w, N, Body
                <5> QED BY <4>4, <4>5
            <4> HIDE DEF w
            <4> QED BY <4>2, <4>3, <4>6
        <3> HIDE DEF w, N, Body
        <3> QED BY <2>1, <3>1, <3>2, StaysIn
    <2>10. w[N - 1] = h[N] /\ N - 1 \in 0 .. N - 1
        BY <2>1
    <2> QED BY <2>8, <2>9, <2>10
<1> QED BY <1>1, <1>2

(* Blocks of w places dealt out in turn to P threads: where the block that *)
(* thread t gets in the m-th turn begins.                                  *)
Block(first, w, P, t, m) == first + w * t + m * (w * P)

LEMMA BlockTyped ==
    ASSUME NEW P \in Nat \ {0}, NEW w \in Nat \ {0}, NEW first \in Int, NEW t \in Nat,
           NEW m \in Nat
    PROVE  Block(first, w, P, t, m) \in Int
BY DEF Block

LEMMA BlocksApart ==
    ASSUME NEW P \in Nat \ {0}, NEW w \in Nat \ {0}, NEW first \in Int,
           NEW t \in 0 .. P - 1, NEW u \in 0 .. P - 1, t # u, NEW i \in Nat, NEW j \in Nat
    PROVE  \/ Block(first, w, P, t, i) + w <= Block(first, w, P, u, j)
           \/ Block(first, w, P, u, j) + w <= Block(first, w, P, t, i)
<1> DEFINE a == Block(first, w, P, t, i)
           b == Block(first, w, P, u, j)
           q == P * i + t
           r == P * j + u
<1>1. q \in Nat /\ r \in Nat /\ q # r
    <2>1. q % P = t /\ r % P = u
        BY ModUnique
    <2> QED BY <2>1
<1>2. a = first + w * q /\ b = first + w * r
    BY DEF q, r, Block
<1> HIDE DEF q, r, a, b
<1>3. ASSUME NEW x \in Nat, NEW y \in Nat, x < y PROVE w * x + w <= w * y
    <2>1. w * x + w = w * (x + 1) /\ x + 1 <= y
        BY <1>3
    <2>2. \A z \in Nat : z <= y => w * z <= w * y
        OBVIOUS
    <2> QED BY <1>3, <2>1, <2>2
<1>4. w * q \in Nat /\ w * r \in Nat
    BY <1>1
<1>5. a + w <= b \/ b + w <= a
    <2>1. CASE q < r
        BY <1>1, <1>2, <1>3, <1>4, <2>1
    <2>2. CASE r < q
        BY <1>1, <1>2, <1>3, <1>4, <2>2
    <2> QED BY <1>1, <2>1, <2>2
<1> QED BY <1>5 DEF a, b

(* A thread's loop over the rows or columns that are its turn.             *)
LEMMA EveryPth ==
    ASSUME NEW P \in Nat \ {0}, NEW t \in 0 .. P - 1, NEW limit \in Int
    PROVE  Steps(t, limit, P) \in Seq({x \in Int : x % P = t})
<1> DEFINE S == {x \in Int : x % P = t}
           R == {x \in Int : t <= x /\ x < limit}
           us == Steps(t, limit, P)
<1>1. t \in Int
    OBVIOUS
<1>2. us \in Seq(R)
    BY <1>1, StepsTyped
<1>3. \A m \in DOMAIN us : m \in Nat \ {0} /\ us[m] = t + (m - 1) * P
    BY <1>1, StepsAt
<1> HIDE DEF us
<1>4. ASSUME NEW i \in DOMAIN us PROVE us[i] \in S
    <2>1. i - 1 \in Int /\ us[i] = P * (i - 1) + t
        BY <1>1, <1>3
    <2> DEFINE q == i - 1
    <2> HIDE DEF q
    <2>2. q \in Int /\ us[i] = P * q + t
        BY <2>1 DEF q
    <2>3. (P * q + t) % P = t
        BY <2>2, ModUnique
    <2> QED BY <2>2, <2>3
<1> HIDE DEF R, S
<1>5. us \in Seq(S)
    <2>1. Len(us) \in Nat /\ DOMAIN us = 1 .. Len(us) /\ us = [i \in 1 .. Len(us) |-> us[i]]
        BY <1>2
    <2> QED BY <1>4, <2>1
<1> QED BY <1>5 DEF us, S

(* A thread's loop over its blocks, and where they begin.                  *)
OverBlocks(first, w, P, t, limit) == Steps(first + w * t, limit, w * P)
Begins(first, w, P, t, limit) ==
    {x \in Int : x < limit /\ \E m \in Nat : x = Block(first, w, P, t, m)}

LEMMA LoopTyped ==
    ASSUME NEW P \in Nat \ {0}, NEW w \in Nat \ {0}, NEW first \in Int, NEW limit \in Int,
           NEW t \in Nat
    PROVE  OverBlocks(first, w, P, t, limit) \in Seq(Begins(first, w, P, t, limit))
<1> DEFINE lo == first + w * t
           inc == w * P
           R == {x \in Int : lo <= x /\ x < limit}
           S == Begins(first, w, P, t, limit)
           us == Steps(lo, limit, inc)
<1>1. inc \in Nat \ {0} /\ lo \in Int
    OBVIOUS
<1> HIDE DEF lo, inc
<1>2. us \in Seq(R)
    BY <1>1, StepsTyped
<1>3. \A m \in DOMAIN us : m \in Nat \ {0} /\ us[m] = lo + (m - 1) * inc
    BY <1>1, StepsAt
<1> HIDE DEF us
<1>4. \A m \in DOMAIN us : us[m] \in Int /\ us[m] < limit
    BY <1>2
<1>5. ASSUME NEW i \in DOMAIN us PROVE us[i] \in S
    <2>1. i - 1 \in Nat /\ us[i] = Block(first, w, P, t, i - 1)
        BY <1>3 DEF Block, lo, inc
    <2> QED BY <1>4, <2>1 DEF Begins
<1> HIDE DEF R, S
<1>6. us \in Seq(S)
    <2>1. Len(us) \in Nat /\ DOMAIN us = 1 .. Len(us) /\ us = [i \in 1 .. Len(us) |-> us[i]]
        BY <1>2
    <2> QED BY <1>5, <2>1
<1> QED BY <1>6 DEF OverBlocks, us, lo, inc, S

-----------------------------------------------------------------------------
(* The stages of each sort, with what the proofs need of them              *)

Positive == Nat \ {0}

LEMMA Log2UpTyped == ASSUME NEW x \in Nat PROVE Log2Up(x) \in Nat
<1>1. IsFiniteSet(0 .. x)
    BY FS_Interval
<1>2. IsFiniteSet({e \in 0 .. x : 2 ^ e < x})
    BY <1>1, FS_Subset
<1> QED BY <1>2, FS_CardinalityType DEF Log2Up

LEMMA DoublingsTyped == ASSUME call \in Calls PROVE Doublings \in Seq(Positive)
<1> DEFINE N == Log2Up(n)
           g == [i \in 1 .. N |-> [x \in Positive |-> 2 * x]]
           Body(f) == [e \in 1 .. N |-> IF e = 1 THEN 1 ELSE 2 * f[e - 1]]
<1>1. N \in Nat
    BY CallTyped, Log2UpTyped
<1>2. g \in [1 .. N -> [Positive -> Positive]] /\ 1 \in Positive
    BY DEF Positive
<1>3. PICK v \in [0 .. N -> Positive] : IsRun(v, N, 1, g)
    <2> HIDE DEF g, N
    <2> QED BY <1>1, <1>2, Recurrence
<1> DEFINE f == [e \in 1 .. N |-> v[e - 1]]
<1>4. f = Body(f)
    <2>1. ASSUME NEW e \in 1 .. N PROVE v[e - 1] = IF e = 1 THEN 1 ELSE 2 * f[e - 1]
        <3>1. CASE e = 1
            <4>1. e - 1 = 0 /\ 0 \in 0 .. N
                BY <1>1, <3>1
            <4>2. v[0] = 1
                BY <1>3, <4>1 DEF IsRun
            <4> QED BY <3>1, <4>1, <4>2
        <3>2. CASE e # 1
            <4>1. e - 1 \in 0 .. N /\ e - 1 \in 1 .. N /\ e - 1 # 0 /\ (e - 1) - 1 \in 0 .. N
                BY <1>1, <3>2
            <4>2. v[e - 1] = g[e - 1][v[(e - 1) - 1]]
                <5> HIDE DEF g, f, N
                <5> QED BY <1>3, <4>1 DEF IsRun
            <4>3. v[(e - 1) - 1] \in Positive
                <5> HIDE DEF g, f, N
                <5> QED BY <4>1
            <4>4. f[e - 1] = v[(e - 1) - 1]
                <5> HIDE DEF N
                <5> QED BY <4>1
            <4>5. g[e - 1][v[(e - 1) - 1]] = 2 * v[(e - 1) - 1]
                <5> HIDE DEF N, f
                <5> QED BY <4>1, <4>3
            <4> HIDE DEF f, g, N
            <4> QED BY <3>2, <4>2, <4>4, <4>5
        <3> QED BY <3>1, <3>2
    <2>2. f = [e \in 1 .. N |-> v[e - 1]]
        OBVIOUS
    <2> HIDE DEF f, g, N
    <2> QED BY <2>1, <2>2
<1> DEFINE h == CHOOSE f0 : f0 = Body(f0)
<1>5. h = Body(h)
    <2>1. \E f0 : f0 = Body(f0)
        <3> HIDE DEF f, g
        <3> QED BY <1>4
    <2> HIDE DEF Body, g, f
    <2> QED BY <2>1
<1>6. Doublings = h
    BY DEF Doublings
<1> HIDE DEF h, g, f, N
<1> DEFINE w == [k \in 0 .. N |-> IF k = 0 THEN 1 ELSE h[k]]
<1>7. \A k \in 0 .. N : w[k] \in Positive
    <2>1. w[0] \in Positive
        BY <1>1 DEF Positive
    <2>2. ASSUME NEW k \in 1 .. N, w[k - 1] \in Positive PROVE w[k] \in Positive
        <3>1. h[k] = IF k = 1 THEN 1 ELSE 2 * h[k - 1]
            BY <1>5
        <3>2. k \in 0 .. N /\ k - 1 \in 0 .. N /\ w[k] = h[k]
            BY <1>1
        <3>3. k # 1 => w[k - 1] = h[k - 1]
            BY <3>2
        <3>4. h[k] \in Positive
            <4> HIDE DEF w, Body
            <4> QED BY <2>2, <3>1, <3>3 DEF Positive
        <3> HIDE DEF w
        <3> QED BY <3>2, <3>4
    <2> HIDE DEF w, Body
    <2> QED BY <1>1, <2>1, <2>2, StaysIn
<1>8. \A k \in 1 .. N : h[k] \in Positive
    <2>1. \A k \in 1 .. N : k \in 0 .. N /\ w[k] = h[k]
        BY <1>1
    <2> HIDE DEF w
    <2> QED BY <1>7, <2>1
<1>9. h = [e \in 1 .. N |-> h[e]]
    BY <1>5
<1> HIDE DEF Body
<1> QED BY <1>1, <1>6, <1>8, <1>9

LEMMA ExchangesTyped == ASSUME call \in Calls PROVE Exchanges \in Seq(Positive \X Positive)
<1> DEFINE k == Doublings
           ss == [e \in DOMAIN k |-> [h \in 1 .. e |-> <<k[e], k[e + 1 - h]>>]]
<1>1. k \in Seq(Positive)
    BY DoublingsTyped
<1> HIDE DEF k
<1>2. ss \in Seq(Seq(Positive \X Positive))
    <2>1. Len(k) \in Nat /\ DOMAIN k = 1 .. Len(k) /\ \A e \in 1 .. Len(k) : k[e] \in Positive
        BY <1>1
    <2>2. ASSUME NEW e \in 1 .. Len(k)
          PROVE  [h \in 1 .. e |-> <<k[e], k[e + 1 - h]>>] \in Seq(Positive \X Positive)
        <3>1. e \in Nat
            BY <2>1
        <3>2. ASSUME NEW h \in 1 .. e PROVE <<k[e], k[e + 1 - h]>> \in Positive \X Positive
            <4>1. e + 1 - h \in 1 .. Len(k)
                BY <2>1
            <4> QED BY <2>1, <4>1
        <3>3. \A S : \A f \in [1 .. e -> S] : f \in Seq(S)
            BY <3>1
        <3>4. [h \in 1 .. e |-> <<k[e], k[e + 1 - h]>>] \in [1 .. e -> Positive \X Positive]
            BY <3>2
        <3> HIDE DEF ss
        <3> QED BY <3>3, <3>4, Zenon
    <2> QED BY <2>1, <2>2
<1>3. Exchanges = FlattenSeq(ss)
    BY DEF Exchanges, k
<1> HIDE DEF ss
<1> QED BY <1>2, <1>3, FlattenTyped

(* The array of sort_sheared has columns.                                  *)
LEMMA ColumnsTyped ==
    ASSUME call \in Calls, call.kind = "sheared"
    PROVE  Cols \in Positive /\ FullRows \in Nat /\ FinalCol \in Nat
<1> DEFINE S == {i \in 0 .. n : i * i <= n}
           B == {d \in 0 .. n : (n - d) \in S}
<1>1. n \in Nat /\ n > 0
    BY CallTyped
<1>2. 1 \in S
    BY <1>1
<1>3. B \in SUBSET Nat /\ n - 1 \in B
    BY <1>1, <1>2
<1>4. PICK m \in B : \A d \in B : m <= d
    <2> HIDE DEF B
    <2> QED BY <1>3, LeastNumber
<1>5. n - m \in S /\ \A y \in S : n - m >= y
    <2>1. m \in 0 .. n /\ n - m \in S
        BY <1>4
    <2>2. ASSUME NEW y \in S PROVE n - m >= y
        <3>1. y \in 0 .. n /\ n - y \in 0 .. n /\ n - (n - y) = y
            BY <1>1
        <3>2. n - y \in B
            BY <3>1
        <3>3. m <= n - y
            BY <1>4, <3>2
        <3> QED BY <1>1, <2>1, <3>1, <3>3
    <2> QED BY <2>1, <2>2
<1>6. Cols = Max(S)
    BY DEF Cols, IntSqrt
<1>7. Max(S) \in S /\ \A y \in S : Max(S) >= y
    <2> HIDE DEF S
    <2> QED BY <1>5, Zenon DEF Max
<1>8. Cols \in Positive
    <2>1. Max(S) \in 0 .. n
        BY <1>7
    <2>2. Max(S) >= 1
        <3> HIDE DEF S
        <3> QED BY <1>2, <1>7
    <2> HIDE DEF S
    <2> QED BY <1>1, <1>6, <2>1, <2>2 DEF Positive
<1> QED BY <1>1, <1>8, DivMod, QuotientBounds DEF FullRows, FinalCol, Positive

StageKinds ==
    CASE call.kind = "parallel_merge"         -> Positive
      [] call.kind \in {"bitonic", "odd_even"} -> Positive \X Positive
      [] call.kind = "sheared"                -> {"rows", "columns", "pairs"}

LEMMA StagesTyped ==
    ASSUME call \in Calls, call.kind \in Parallel
    PROVE  Stages \in Seq(StageKinds)
<1>1. CASE call.kind = "parallel_merge"
    BY <1>1, DoublingsTyped DEF Stages, StageKinds
<1>2. CASE call.kind \in {"bitonic", "odd_even"}
    <2>1. Stages = IF PowerOfTwo(n) THEN Exchanges ELSE <<>>
        BY <1>2 DEF Stages
    <2>2. <<>> \in Seq(Positive \X Positive) /\ Exchanges \in Seq(Positive \X Positive)
        BY ExchangesTyped
    <2>3. StageKinds = Positive \X Positive
        BY <1>2 DEF StageKinds
    <2> QED BY <2>1, <2>2, <2>3
<1>3. CASE call.kind = "sheared"
    <2> DEFINE N == 2 * Log2Up(Cols) + 1
    <2>1. N \in Nat
        BY <1>3, ColumnsTyped, Log2UpTyped DEF Positive
    <2>2. Stages = [p \in 1 .. N |-> IF p = N THEN "pairs"
                                     ELSE IF p % 2 = 0 THEN "columns" ELSE "rows"]
        BY <1>3 DEF Stages
    <2>3. StageKinds = {"rows", "columns", "pairs"}
        BY <1>3 DEF StageKinds
    <2> HIDE DEF N
    <2> QED BY <2>1, <2>2, <2>3
<1> QED BY <1>1, <1>2, <1>3 DEF Parallel

-----------------------------------------------------------------------------
(* The units of one stage, sort by sort                                    *)

\* No unit of t touches a place that one of u does.
Apart(t, u, s) ==
    \A i \in DOMAIN Units(t, s), j \in DOMAIN Units(u, s) :
        Footprint(s, Units(t, s)[i]) \cap Footprint(s, Units(u, s)[j]) = {}

\* What two threads work on in a stage of a call.
Two(t, u, s) ==
    /\ call \in Calls /\ call.kind \in Parallel
    /\ t \in Threads /\ u \in Threads /\ t # u /\ s \in StageKinds

LEMMA TwoTyped ==
    ASSUME NEW t, NEW u, NEW s, Two(t, u, s)
    PROVE  /\ n \in Nat /\ T \in Positive /\ t \in 0 .. T - 1 /\ u \in 0 .. T - 1 /\ t # u
           /\ call.threads = T
BY CallTyped DEF Two, Threads, T, Positive

LEMMA MergeApart ==
    ASSUME NEW t, NEW u, NEW s, Two(t, u, s), call.kind = "parallel_merge"
    PROVE  Apart(t, u, s)
<1>1. n \in Nat /\ T \in Positive /\ t \in 0 .. T - 1 /\ u \in 0 .. T - 1 /\ t # u /\ call.threads = T
    BY TwoTyped
<1>2. s \in Nat \ {0} /\ T \in Nat \ {0}
    BY <1>1 DEF Two, StageKinds, Positive
<1> DEFINE w == 2 * s
           zero == 0
<1>3. w \in Nat \ {0} /\ zero \in Int
    BY <1>2
<1>4. ASSUME NEW v \in 0 .. T - 1, NEW i \in DOMAIN Units(v, s)
      PROVE  \E m \in Nat : Units(v, s)[i] = Block(zero, w, T, v, m)
    <2>1. Units(v, s) = Steps(2 * s * v, n - s, 2 * s * T)
        BY <1>1 DEF Units, MergeUnits
    <2>2. v \in Nat /\ n - s \in Int /\ 2 * s * v = 0 + w * v
        BY <1>1, <1>2
    <2>3. Units(v, s) = OverBlocks(zero, w, T, v, n - s)
        BY <2>1, <2>2 DEF OverBlocks
    <2> DEFINE limit == n - s
    <2> HIDE DEF w, zero, limit
    <2>4. limit \in Int /\ Units(v, s) = OverBlocks(zero, w, T, v, limit)
        BY <2>2, <2>3 DEF limit
    <2>5. Units(v, s) \in Seq(Begins(zero, w, T, v, limit))
        <3>1. v \in Nat /\ limit \in Int
            BY <2>2, <2>4
        <3>2. OverBlocks(zero, w, T, v, limit) \in Seq(Begins(zero, w, T, v, limit))
            BY <1>2, <1>3, <3>1, LoopTyped
        <3> QED BY <2>4, <3>2
    <2>6. Units(v, s)[i] \in Begins(zero, w, T, v, limit)
        BY <1>4, <2>5
    <2> QED BY <2>6 DEF Begins
<1>5. ASSUME NEW x \in Int PROVE Footprint(s, x) \subseteq x .. x + w - 1
    <2>1. Footprint(s, x) = x .. Min({x + 2 * s, n}) - 1
        BY DEF Footprint
    <2>2. x + 2 * s \in Int
        BY <1>2
    <2>3. Min({x + 2 * s, n}) \in Int /\ Min({x + 2 * s, n}) <= x + 2 * s
        BY <1>1, <2>2, MinOfTwo
    <2> QED BY <1>2, <2>1, <2>3
<1> SUFFICES ASSUME NEW i \in DOMAIN Units(t, s), NEW j \in DOMAIN Units(u, s)
             PROVE  Footprint(s, Units(t, s)[i]) \cap Footprint(s, Units(u, s)[j]) = {}
    BY DEF Apart
<1> DEFINE a == Units(t, s)[i]
           b == Units(u, s)[j]
<1> HIDE DEF w, zero
<1>6. a \in Int /\ b \in Int /\ (a + w <= b \/ b + w <= a)
    <2>1. PICK m1 \in Nat : a = Block(zero, w, T, t, m1)
        BY <1>1, <1>4
    <2>2. PICK m2 \in Nat : b = Block(zero, w, T, u, m2)
        BY <1>1, <1>4
    <2>3. t \in Nat /\ u \in Nat
        BY <1>1
    <2> HIDE DEF a, b
    <2>4. a \in Int /\ b \in Int
        BY <1>2, <1>3, <2>1, <2>2, <2>3, BlockTyped
    <2>5. a + w <= b \/ b + w <= a
        BY <1>1, <1>2, <1>3, <2>1, <2>2, BlocksApart
    <2> QED BY <2>4, <2>5
<1> HIDE DEF a, b
<1>7. Footprint(s, a) \subseteq a .. a + w - 1 /\ Footprint(s, b) \subseteq b .. b + w - 1
    BY <1>5, <1>6
<1>8. (a .. a + w - 1) \cap (b .. b + w - 1) = {}
    BY <1>3, <1>6
<1> QED BY <1>7, <1>8 DEF a, b

(* The lower index of a pair lies in the thread's chunk and has the bit    *)
(* clear that the upper one has set.                                       *)
LEMMA BitonicApart ==
    ASSUME NEW t, NEW u, NEW s, Two(t, u, s), call.kind = "bitonic"
    PROVE  Apart(t, u, s)
<1>1. n \in Nat /\ T \in Positive /\ t \in 0 .. T - 1 /\ u \in 0 .. T - 1 /\ t # u /\ call.threads = T
    BY TwoTyped
<1>2. s[2] \in Positive
    BY DEF Two, StageKinds
<1> DEFINE chunk == n \div T
           j0 == s[2]
<1>3. chunk \in Nat
    BY <1>1, QuotientBounds DEF Positive
<1>4. ASSUME NEW v \in 0 .. T - 1, NEW i \in DOMAIN Units(v, s)
      PROVE  Units(v, s)[i] \in Int /\ chunk * v <= Units(v, s)[i] /\ Units(v, s)[i] < chunk * (v + 1)
    <2> DEFINE limit == Min({chunk * (v + 1), n})
               lo == chunk * v
               S == {x \in Int : lo <= x /\ x < limit}
    <2>1. Units(v, s) = Steps(lo, limit, 1)
        BY <1>1 DEF Units, BitonicUnits
    <2> HIDE DEF chunk
    <2>2. chunk * v \in Int /\ chunk * (v + 1) \in Int
        BY <1>1, <1>3
    <2>3. limit \in Int /\ limit <= chunk * (v + 1)
        BY <1>1, <2>2, MinOfTwo
    <2> HIDE DEF limit, lo
    <2>4. Steps(lo, limit, 1) \in Seq(S)
        <3>1. lo \in Int /\ 1 \in Nat \ {0}
            BY <2>2 DEF lo
        <3> QED BY <2>3, <3>1, StepsTyped
    <2> HIDE DEF S
    <2>5. Units(v, s)[i] \in S
        BY <1>4, <2>1, <2>4
    <2> QED BY <2>2, <2>3, <2>5 DEF S, lo
<1>5. \A x : Footprint(s, x) \subseteq {x, x + j0} /\ (Footprint(s, x) # {} => (x \div j0) % 2 = 0)
    BY DEF Footprint, Compares
<1> SUFFICES ASSUME NEW i \in DOMAIN Units(t, s), NEW j \in DOMAIN Units(u, s)
             PROVE  Footprint(s, Units(t, s)[i]) \cap Footprint(s, Units(u, s)[j]) = {}
    BY DEF Apart
<1> DEFINE a == Units(t, s)[i]
           b == Units(u, s)[j]
<1>6. /\ a \in Int /\ chunk * t <= a /\ a < chunk * (t + 1)
      /\ b \in Int /\ chunk * u <= b /\ b < chunk * (u + 1)
    BY <1>1, <1>4
<1> HIDE DEF a, b, chunk, j0
<1>7. a # b
    <2>1. \A x \in Nat, y \in Nat : x < y => chunk * (x + 1) <= chunk * y
        BY <1>3
    <2>2. \A x \in Nat : chunk * x \in Nat
        BY <1>3
    <2>3. t \in Nat /\ u \in Nat /\ (t < u \/ u < t)
        BY <1>1
    <2> QED BY <1>6, <2>1, <2>2, <2>3
<1>8. ASSUME NEW x \in Int, (x \div j0) % 2 = 0 PROVE ((x + j0) \div j0) % 2 # 0
    <2>1. j0 \in Nat \ {0}
        BY <1>2 DEF j0, Positive
    <2>2. x = j0 * (x \div j0) + (x % j0) /\ x % j0 \in 0 .. j0 - 1 /\ x \div j0 \in Int
        BY <2>1, DivMod
    <2>3. x + j0 = j0 * ((x \div j0) + 1) + (x % j0)
        BY <2>1, <2>2
    <2>4. (x + j0) \div j0 = (x \div j0) + 1
        <3> DEFINE q == (x \div j0) + 1
                   r == x % j0
        <3>1. q \in Int /\ r \in 0 .. j0 - 1 /\ x + j0 = j0 * q + r
            BY <2>2, <2>3
        <3> HIDE DEF q, r
        <3>2. (j0 * q + r) \div j0 = q
            BY <2>1, <3>1, ModUnique
        <3> QED BY <3>1, <3>2 DEF q
    <2> QED BY <1>8, <2>2, <2>4
<1>9. ASSUME Footprint(s, a) # {}, Footprint(s, b) # {} PROVE a # b + j0 /\ b # a + j0
    BY <1>5, <1>6, <1>8, <1>9
<1>10. a + j0 # b + j0
    BY <1>2, <1>6, <1>7 DEF j0, Positive
<1>11. CASE Footprint(s, a) = {} \/ Footprint(s, b) = {}
    BY <1>11 DEF a, b
<1>12. CASE Footprint(s, a) # {} /\ Footprint(s, b) # {}
    <2>1. {a, a + j0} \cap {b, b + j0} = {}
        BY <1>7, <1>9, <1>10, <1>12
    <2> QED BY <1>5, <2>1 DEF a, b
<1> QED BY <1>11, <1>12

(* A thread has blocks of k elements, and the pairs reach k further.       *)
LEMMA OddEvenApart ==
    ASSUME NEW t, NEW u, NEW s, Two(t, u, s), call.kind = "odd_even"
    PROVE  Apart(t, u, s)
<1>1. n \in Nat /\ T \in Positive /\ t \in 0 .. T - 1 /\ u \in 0 .. T - 1 /\ t # u /\ call.threads = T
    BY TwoTyped
<1>2. s[1] \in Positive /\ s[2] \in Positive
    BY DEF Two, StageKinds
<1> DEFINE k == s[2]
           w == 2 * k
           first == k % s[1]
           From(v, m) == Block(first, w, T, v, m)
           S(v) == {x \in Int : \E m \in Nat : From(v, m) <= x /\ x < From(v, m) + k}
<1>3. k \in Nat \ {0} /\ w \in Nat \ {0} /\ first \in Int /\ T \in Nat \ {0}
    <2>1. s[1] \in Nat \ {0} /\ k \in Nat \ {0} /\ k \in Int
        BY <1>2 DEF Positive
    <2>2. first \in 0 .. s[1] - 1
        <3> HIDE DEF k
        <3> QED BY <2>1, DivMod
    <2> QED BY <1>1, <2>1, <2>2 DEF Positive
<1>4. ASSUME NEW v \in 0 .. T - 1 PROVE Units(v, s) \in Seq(S(v))
    <2> DEFINE limit == n - k
               blocks == OverBlocks(first, w, T, v, limit)
               ss == [b \in DOMAIN blocks |-> Steps(blocks[b], blocks[b] + k, 1)]
    <2>1. Units(v, s) = FlattenSeq(ss)
        <3>1. Units(v, s) = OddEvenUnits(v, s[1], s[2])
            BY DEF Units
        <3>2. (k % s[1]) + 2 * k * v = first + w * v /\ 2 * k * T = w * T
            BY <1>1, <1>3
        <3> QED BY <1>1, <3>1, <3>2 DEF OddEvenUnits, OverBlocks
    <2> HIDE DEF k, w, first
    <2>2. limit \in Int /\ v \in Nat
        BY <1>1, <1>3
    <2> HIDE DEF limit
    <2>3. blocks \in Seq(Begins(first, w, T, v, limit))
        BY <1>3, <2>2, LoopTyped
    <2> HIDE DEF blocks
    <2> DEFINE B == Begins(first, w, T, v, limit)
    <2>7. \A b \in DOMAIN blocks : blocks[b] \in Int /\ \E m \in Nat : blocks[b] = From(v, m)
        <3>1. B \subseteq {x \in Int : \E m \in Nat : x = From(v, m)}
            BY DEF Begins
        <3>2. \A b \in DOMAIN blocks : blocks[b] \in B
            <4>1. blocks \in Seq(B)
                BY <2>3
            <4> HIDE DEF B
            <4> QED BY <4>1
        <3> HIDE DEF B, From
        <3> QED BY <3>1, <3>2
    <2>4. \A b \in DOMAIN blocks : blocks[b] \in Int
        BY <2>7
    <2>5. ASSUME NEW b \in DOMAIN blocks PROVE ss[b] \in Seq(S(v))
        <3> DEFINE R == {x \in Int : blocks[b] <= x /\ x < blocks[b] + k}
        <3>1. blocks[b] \in Int /\ blocks[b] + k \in Int
            BY <1>3, <2>4 DEF Positive
        <3>2. Steps(blocks[b], blocks[b] + k, 1) \in Seq(R)
            BY <3>1, StepsTyped
        <3>3. R \subseteq S(v)
            <4>1. PICK m \in Nat : blocks[b] = From(v, m)
                BY <2>7
            <4> HIDE DEF From
            <4> QED BY <4>1
        <3> HIDE DEF R, S
        <3>4. \A q \in Seq(R) : q \in Seq(S(v))
            BY <3>3
        <3> QED BY <3>2, <3>4
    <2>6. ss \in Seq(Seq(S(v)))
        <3>1. Len(blocks) \in Nat /\ DOMAIN blocks = 1 .. Len(blocks)
            BY <2>3
        <3>2. ss = [b \in 1 .. Len(blocks) |-> ss[b]]
            BY <3>1
        <3>3. \A Q : (\A b \in 1 .. Len(blocks) : ss[b] \in Q)
                         => [b \in 1 .. Len(blocks) |-> ss[b]] \in Seq(Q)
            <4> HIDE DEF ss
            <4> QED BY <3>1
        <3> HIDE DEF ss, S
        <3> QED BY <2>5, <3>1, <3>2, <3>3
    <2> HIDE DEF ss, S
    <2> QED BY <2>1, <2>6, FlattenTyped
<1>5. \A x : Footprint(s, x) \subseteq {x, x + k}
    BY DEF Footprint
<1> SUFFICES ASSUME NEW i \in DOMAIN Units(t, s), NEW j \in DOMAIN Units(u, s)
             PROVE  Footprint(s, Units(t, s)[i]) \cap Footprint(s, Units(u, s)[j]) = {}
    BY DEF Apart
<1> DEFINE a == Units(t, s)[i]
           b == Units(u, s)[j]
<1>6. a \in S(t) /\ b \in S(u)
    <2> HIDE DEF S
    <2> QED BY <1>1, <1>4
<1> HIDE DEF a, b, k, first
<1>7. PICK m1 \in Nat : From(t, m1) <= a /\ a < From(t, m1) + k
    BY <1>6
<1>8. PICK m2 \in Nat : From(u, m2) <= b /\ b < From(u, m2) + k
    BY <1>6
<1> DEFINE p == From(t, m1)
           q == From(u, m2)
<1>9. p \in Int /\ q \in Int /\ (p + w <= q \/ q + w <= p)
    <2> HIDE DEF w
    <2>1. t \in Nat /\ u \in Nat
        BY <1>1
    <2>2. p \in Int /\ q \in Int
        BY <1>3, <2>1, BlockTyped
    <2>3. p + w <= q \/ q + w <= p
        BY <1>1, <1>3, BlocksApart
    <2> QED BY <2>2, <2>3
<1>10. p <= a /\ a < p + k /\ q <= b /\ b < q + k /\ a \in Int /\ b \in Int
    BY <1>6, <1>7, <1>8
<1> HIDE DEF p, q, From, S
<1>11. {a, a + k} \cap {b, b + k} = {}
    BY <1>3, <1>9, <1>10 DEF Positive
<1> QED BY <1>5, <1>11 DEF a, b

(* Rows and columns are dealt out one by one, and pairs of rows too: the   *)
(* last pair may be a single row, and takes the rest of the array with it. *)
LEMMA ShearedApart ==
    ASSUME NEW t, NEW u, NEW s, Two(t, u, s), call.kind = "sheared"
    PROVE  Apart(t, u, s)
<1>1. n \in Nat /\ T \in Nat \ {0} /\ t \in 0 .. T - 1 /\ u \in 0 .. T - 1 /\ t # u /\ call.threads = T
    BY TwoTyped DEF Positive
<1>2. Cols \in Nat \ {0} /\ FullRows \in Nat /\ FinalCol \in Nat
    BY ColumnsTyped DEF Two, Positive
<1>3. s \in {"rows", "columns", "pairs"}
    BY DEF Two, StageKinds
<1> SUFFICES ASSUME NEW i \in DOMAIN Units(t, s), NEW j \in DOMAIN Units(u, s)
             PROVE  Footprint(s, Units(t, s)[i]) \cap Footprint(s, Units(u, s)[j]) = {}
    BY DEF Apart
<1> DEFINE a == Units(t, s)[i]
           b == Units(u, s)[j]
<1>4. ASSUME NEW limit \in Int, \A v \in 0 .. T - 1 : Units(v, s) = Steps(v, limit, T)
      PROVE  a \in Int /\ b \in Int /\ a # b
    <2>1. ASSUME NEW v \in 0 .. T - 1, NEW k \in DOMAIN Units(v, s)
          PROVE  Units(v, s)[k] \in {x \in Int : x % T = v}
        <3> DEFINE S == {x \in Int : x % T = v}
        <3>1. Steps(v, limit, T) \in Seq(S)
            BY <1>1, EveryPth
        <3>2. Units(v, s) \in Seq(S)
            BY <1>4, <3>1
        <3> HIDE DEF S
        <3>3. Units(v, s)[k] \in S
            BY <2>1, <3>2
        <3> QED BY <3>3 DEF S
    <2> QED BY <1>1, <2>1
<1>5. CASE s = "rows"
    <2>1. \A v \in 0 .. T - 1 : Units(v, s) = Steps(v, FullRows, T)
        BY <1>1, <1>5 DEF Units, ShearedUnits
    <2>2. FullRows \in Int
        BY <1>2
    <2>3. a \in Int /\ b \in Int /\ a # b
        BY <1>4, <2>1, <2>2
    <2>4. \A x : Footprint(s, x) = x * Cols .. (x + 1) * Cols - 1
        BY <1>5 DEF Footprint
    <2> HIDE DEF a, b
    <2>5. ASSUME NEW x \in Int, NEW y \in Int, x < y
          PROVE  (x * Cols .. (x + 1) * Cols - 1) \cap (y * Cols .. (y + 1) * Cols - 1) = {}
        <3>1. (x + 1) * Cols <= y * Cols
            <4>1. y - (x + 1) \in Nat
                BY <2>5
            <4>2. (y - (x + 1)) * Cols \in Nat
                BY <1>2, <4>1
            <4>3. (y - (x + 1)) * Cols = y * Cols - (x + 1) * Cols
                BY <1>2
            <4>4. y * Cols \in Int /\ (x + 1) * Cols \in Int
                BY <1>2
            <4> QED BY <4>2, <4>3, <4>4
        <3>2. y * Cols \in Int /\ (x + 1) * Cols \in Int /\ x * Cols \in Int /\ (y + 1) * Cols \in Int
            BY <1>2
        <3> QED BY <3>1, <3>2
    <2>6. Footprint(s, a) \cap Footprint(s, b) = {}
        <3>1. CASE a < b
            BY <2>3, <2>4, <2>5, <3>1
        <3>2. CASE b < a
            <4>1. Footprint(s, b) \cap Footprint(s, a) = {}
                BY <2>3, <2>4, <2>5, <3>2
            <4> QED BY <4>1
        <3> QED BY <2>3, <3>1, <3>2
    <2> QED BY <2>6 DEF a, b
<1>6. CASE s = "columns"
    <2>1. \A v \in 0 .. T - 1 : Units(v, s) = Steps(v, Cols, T)
        BY <1>1, <1>6 DEF Units, ShearedUnits
    <2>2. Cols \in Int
        BY <1>2
    <2>3. a # b
        BY <1>4, <2>1, <2>2
    <2>4. \A x : Footprint(s, x) = {p \in 0 .. n - 1 : p % Cols = x}
        BY <1>6 DEF Footprint
    <2> HIDE DEF a, b
    <2>5. Footprint(s, a) \cap Footprint(s, b) = {}
        BY <2>3, <2>4
    <2> QED BY <2>5 DEF a, b
<1>7. CASE s = "pairs"
    <2> DEFINE w == 2 * Cols
               limit == FullRows * Cols + 1
               B(v) == Begins(Cols, w, T, v, limit)
    <2>1. w \in Nat \ {0} /\ limit \in Int /\ Cols \in Int /\ FullRows * Cols \in Int
        BY <1>2
    <2>2. ASSUME NEW v \in 0 .. T - 1, NEW k \in DOMAIN Units(v, s) PROVE Units(v, s)[k] \in B(v)
        <3>1. Units(v, s) = Steps((2 * v + 1) * Cols, limit, 2 * Cols * T)
            BY <1>1, <1>7 DEF Units, ShearedUnits
        <3>2. v \in Nat /\ (2 * v + 1) * Cols = Cols + w * v /\ 2 * Cols * T = w * T
            BY <1>1, <1>2
        <3>3. Units(v, s) = OverBlocks(Cols, w, T, v, limit)
            BY <3>1, <3>2 DEF OverBlocks
        <3> HIDE DEF w, limit
        <3>4. OverBlocks(Cols, w, T, v, limit) \in Seq(B(v))
            BY <1>1, <2>1, <3>2, LoopTyped
        <3> HIDE DEF B
        <3> QED BY <2>2, <3>3, <3>4
    <2>3. a \in B(t) /\ b \in B(u)
        <3> HIDE DEF B
        <3> QED BY <1>1, <2>2
    <2>4. a \in Int /\ b \in Int /\ a <= FullRows * Cols /\ b <= FullRows * Cols
        BY <2>1, <2>3 DEF Begins
    <2>5. a + w <= b \/ b + w <= a
        <3>1. PICK m1 \in Nat : a = Block(Cols, w, T, t, m1)
            BY <2>3 DEF Begins
        <3>2. PICK m2 \in Nat : b = Block(Cols, w, T, u, m2)
            BY <2>3 DEF Begins
        <3> HIDE DEF a, b, w
        <3> QED BY <1>1, <2>1, <3>1, <3>2, BlocksApart
    <2>6. \A x : Footprint(s, x) = x - Cols .. x - Cols + PairLength(x) - 1
        BY <1>7 DEF Footprint
    <2> HIDE DEF a, b, B, w, limit
    <2>7. ASSUME NEW x \in Int, NEW y \in Int, x + w <= y, y <= FullRows * Cols
          PROVE  Footprint(s, x) \cap Footprint(s, y) = {}
        <3>1. x # FullRows * Cols /\ x + Cols # FullRows * Cols
            BY <1>2, <2>1, <2>7 DEF w
        <3>2. PairLength(x) = Cols + Cols
            BY <3>1 DEF PairLength
        <3>3. x - Cols + PairLength(x) - 1 < y - Cols
            BY <1>2, <2>7, <3>2 DEF w
        <3>4. PairLength(y) \in Int
            BY <1>2 DEF PairLength
        <3>5. PairLength(x) \in Int
            BY <1>2, <3>2
        <3> QED BY <2>1, <2>6, <3>3, <3>4, <3>5
    <2>8. Footprint(s, a) \cap Footprint(s, b) = {}
        <3>1. CASE a + w <= b
            BY <2>4, <2>7, <3>1
        <3>2. CASE b + w <= a
            BY <2>4, <2>7, <3>2
        <3> QED BY <2>5, <3>1, <3>2
    <2> QED BY <2>8 DEF a, b
<1> QED BY <1>3, <1>5, <1>6, <1>7

(* The units are a sequence of places in each case.                        *)
LEMMA StepsAreSequences ==
    ASSUME NEW first \in Int, NEW limit \in Int, NEW inc \in Nat \ {0}
    PROVE  Steps(first, limit, inc) \in Seq(Int)
<1> DEFINE R == {x \in Int : first <= x /\ x < limit}
<1>1. Steps(first, limit, inc) \in Seq(R) /\ R \subseteq Int
    BY StepsTyped
<1> HIDE DEF R
<1> QED BY <1>1, LargerSet

LEMMA UnitsTyped ==
    ASSUME NEW t, NEW u, NEW s, Two(t, u, s)
    PROVE  Units(t, s) \in Seq(Int)
<1>1. n \in Nat /\ T \in Nat \ {0} /\ t \in Nat /\ call.threads = T
    BY TwoTyped DEF Positive
<1>2. CASE call.kind = "parallel_merge"
    <2>1. s \in Nat \ {0}
        BY <1>2 DEF Two, StageKinds, Positive
    <2>2. 2 * s * t \in Int /\ n - s \in Int /\ 2 * s * T \in Nat \ {0}
        BY <1>1, <2>1
    <2> QED BY <1>1, <1>2, <2>2, StepsAreSequences DEF Units, MergeUnits
<1>3. CASE call.kind = "bitonic"
    <2> DEFINE chunk == n \div T
               limit == Min({chunk * (t + 1), n})
    <2>1. chunk \in Nat
        BY <1>1, QuotientBounds
    <2>2. Units(t, s) = Steps(chunk * t, limit, 1)
        BY <1>1, <1>3 DEF Units, BitonicUnits
    <2> HIDE DEF chunk
    <2>3. chunk * t \in Int /\ chunk * (t + 1) \in Int
        BY <1>1, <2>1
    <2>4. limit \in Int
        BY <1>1, <2>3, MinOfTwo
    <2> HIDE DEF limit
    <2>5. Steps(chunk * t, limit, 1) \in Seq(Int)
        <3> DEFINE lo == chunk * t
        <3>1. lo \in Int /\ 1 \in Nat \ {0}
            BY <2>3
        <3> HIDE DEF lo
        <3>2. Steps(lo, limit, 1) \in Seq(Int)
            BY <2>4, <3>1, StepsAreSequences
        <3> QED BY <3>2 DEF lo
    <2> QED BY <2>2, <2>5
<1>4. CASE call.kind = "odd_even"
    <2> DEFINE k == s[2]
               first == (k % s[1]) + 2 * k * t
               inc == 2 * k * T
               blocks == Steps(first, n - k, inc)
               ss == [b \in DOMAIN blocks |-> Steps(blocks[b], blocks[b] + k, 1)]
    <2>1. Units(t, s) = FlattenSeq(ss)
        BY <1>1, <1>4 DEF Units, OddEvenUnits
    <2>2. s[1] \in Nat \ {0} /\ k \in Nat \ {0} /\ k \in Int
        BY <1>4 DEF Two, StageKinds, Positive
    <2> HIDE DEF k
    <2>3. first \in Int /\ n - k \in Int /\ inc \in Nat \ {0}
        <3>1. k % s[1] \in 0 .. s[1] - 1
            BY <2>2, DivMod
        <3> QED BY <1>1, <2>2, <3>1
    <2> HIDE DEF first, inc
    <2>4. blocks \in Seq(Int)
        <3> DEFINE limit == n - k
        <3>1. limit \in Int
            BY <2>3
        <3> HIDE DEF limit
        <3>2. Steps(first, limit, inc) \in Seq(Int)
            BY <2>3, <3>1, StepsAreSequences
        <3> QED BY <3>2 DEF limit
    <2> HIDE DEF blocks
    <2>5. ASSUME NEW b \in DOMAIN blocks PROVE ss[b] \in Seq(Int)
        <3>1. blocks[b] \in Int /\ blocks[b] + k \in Int /\ 1 \in Nat \ {0}
            BY <2>2, <2>4
        <3>2. Steps(blocks[b], blocks[b] + k, 1) \in Seq(Int)
            BY <3>1, StepsAreSequences
        <3> QED BY <3>2
    <2>6. ss \in Seq(Seq(Int))
        <3>1. Len(blocks) \in Nat /\ DOMAIN blocks = 1 .. Len(blocks)
            BY <2>4
        <3>2. ss = [b \in 1 .. Len(blocks) |-> ss[b]]
            BY <3>1
        <3>3. \A Q : (\A b \in 1 .. Len(blocks) : ss[b] \in Q)
                         => [b \in 1 .. Len(blocks) |-> ss[b]] \in Seq(Q)
            <4> HIDE DEF ss
            <4> QED BY <3>1
        <3> HIDE DEF ss
        <3> QED BY <2>5, <3>1, <3>2, <3>3
    <2> HIDE DEF ss
    <2> QED BY <2>1, <2>6, FlattenTyped
<1>5. CASE call.kind = "sheared"
    <2>1. Cols \in Nat \ {0} /\ FullRows \in Nat
        BY <1>5, ColumnsTyped DEF Two, Positive
    <2>2. s \in {"rows", "columns", "pairs"}
        BY <1>5 DEF Two, StageKinds
    <2>3. t \in Int /\ FullRows \in Int /\ Cols \in Int
        BY <1>1, <2>1
    <2>4. CASE s = "rows"
        BY <1>1, <1>5, <2>3, <2>4, StepsAreSequences DEF Units, ShearedUnits
    <2>5. CASE s = "columns"
        BY <1>1, <1>5, <2>3, <2>5, StepsAreSequences DEF Units, ShearedUnits
    <2>6. CASE s = "pairs"
        <3>1. /\ (2 * t + 1) * Cols \in Int /\ FullRows * Cols + 1 \in Int
              /\ 2 * Cols * T \in Nat \ {0}
            BY <1>1, <2>1
        <3> QED BY <1>1, <1>5, <2>6, <3>1, StepsAreSequences DEF Units, ShearedUnits
    <2> QED BY <2>2, <2>4, <2>5, <2>6
<1> QED BY <1>2, <1>3, <1>4, <1>5 DEF Two, Parallel

LEMMA TwoAreApart ==
    ASSUME NEW t, NEW u, NEW s, Two(t, u, s)
    PROVE  Apart(t, u, s)
<1>1. call.kind \in {"parallel_merge", "sheared", "bitonic", "odd_even"}
    BY DEF Two, Parallel
<1> QED BY <1>1, MergeApart, BitonicApart, OddEvenApart, ShearedApart

(* The parallel sorts need no lock: while a thread merges two runs, swaps  *)
(* two elements or sorts a row or column, no other thread is about to      *)
(* touch one of the places it reads and writes; for every array, number of *)
(* threads and interleaving.                                               *)
THEOREM NoPlaceIsShared == Spec => []UnitsAreDisjoint
<1>1. IInv => UnitsAreDisjoint
    <2> SUFFICES ASSUME IInv, NEW t \in Threads, NEW u \in Threads,
                        t # u, Working(t), Working(u),
                        NEW i \in unit[t] .. Len(NextUnits(t)),
                        NEW j \in unit[u] .. Len(NextUnits(u))
                 PROVE  Footprint(Stages[stage[t]], NextUnits(t)[i])
                            \cap Footprint(Stages[stage[u]], NextUnits(u)[j]) = {}
        BY DEF UnitsAreDisjoint
    <2> DEFINE s == Stages[stage[t]]
    <2>1. stage[t] = stage[u] /\ stage[t] \in 1 .. Len(Stages)
        BY OneStage
    <2>2. Stages \in Seq(StageKinds)
        BY StagesTyped DEF IInv, PlacesOK, Working
    <2>3. s \in StageKinds
        BY <2>1, <2>2
    <2>4. Two(t, u, s)
        BY <2>3 DEF Two, IInv, PlacesOK, Working
    <2>5. NextUnits(t) = Units(t, s) /\ NextUnits(u) = Units(u, s)
        BY <2>1 DEF NextUnits
    <2> HIDE DEF s
    <2>6. Apart(t, u, s)
        BY <2>4, TwoAreApart
    <2>7. i \in DOMAIN Units(t, s) /\ j \in DOMAIN Units(u, s)
        <3>1. Units(t, s) \in Seq(Int) /\ Units(u, s) \in Seq(Int)
            <4>1. Two(u, t, s)
                BY <2>4 DEF Two
            <4> QED BY <2>4, <4>1, UnitsTyped
        <3>2. unit[t] \in Nat \ {0} /\ unit[u] \in Nat \ {0}
            BY CallTyped DEF IInv, PlacesOK
        <3> QED BY <2>5, <3>1, <3>2
    <2> QED BY <2>1, <2>5, <2>6, <2>7 DEF Apart, s
<1> QED BY <1>1, Inductive, PTL
=============================================================================
