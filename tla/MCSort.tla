------------------------------ MODULE MCSort -------------------------------
(* All arrays up to a length that reaches each branch of the sort.         *)
EXTENDS ParallelSort

CONSTANTS AnyShape   \* also shapes that sort_sheared and sort_bitonic do not sort

Arrays(len, keys) == [0 .. len - 1 -> keys]
Call(kinds, arrays, threads) ==
    {[kind |-> k, items |-> a, threads |-> t, given |-> 0 .. t - 1] :
        k \in kinds, a \in arrays, t \in threads}

Few == {0, 1}

MCCalls ==
    IF AnyShape THEN Call({"sheared"}, Arrays(3, Few), {2})
    ELSE UNION {
        Call(Sequential, UNION {Arrays(len, {k \in Keys : k < 3}) : len \in 0 .. 4}, {1}),
        Call({"quick", "quick_iterative"}, Arrays(5, {0, 1, 2}), {1}),
        Call({"shell"}, Arrays(8, Few), {1}),
        Call({"radix", "radix_less", "radix_greater"}, Arrays(4, Keys), {1}),
        Call({"parallel_merge"}, UNION {Arrays(len, Few) : len \in {0, 3, 6}}, {1, 2, 3}),
        Call({"odd_even"}, UNION {Arrays(len, Few) : len \in {3, 4, 8}}, {2}),
        Call({"odd_even"}, Arrays(8, Few), {3}),
        Call({"bitonic"}, UNION {Arrays(len, Few) : len \in {3, 4, 8}}, {2}),
        Call({"bitonic"}, Arrays(4, Few), {4}),
        Call({"sheared"}, UNION {Arrays(len, Few) : len \in {1, 4, 5, 9}}, {1, 2}),
        {[kind |-> "parallel_merge", items |-> [i \in 0 .. 3 |-> 3 - i], threads |-> 2,
          given |-> g] : g \in {{0}, {1}}}}
=============================================================================
