----------------------------- MODULE MCLibrary -----------------------------
(* Small instances of every part.                                          *)
(*   caches     three places, four keys: the fourth pushes one out of each *)
(*              cache and shares its place in the IndexedCache             *)
(*   ring       up to five slots, of which 3 and 5 do not divide the word  *)
(*   servers    two, with two peers each, at two addresses                 *)
(*   tree       keys of two bits: two of each length of common path, three *)
(*              of them at a time                                          *)
(*   bits       three buckets of two bits                                  *)
(*   wrappers   sizes that fill a block and that do not, room for three    *)
(*   pointers   a list of three objects, two pointers to start from        *)
(*   functions  three, a callable of either size, room for two of the heap *)
(*   arguments  two options, one known by either kind of name or both, of  *)
(*              every kind and number of values                            *)
EXTENDS Library

NamePairs == {<<"a", "">>, <<"", "b">>, <<"c", "b">>}

Setting(n, required, default_value, const_value, type) ==
    [num_required |-> n, required |-> required, default_value |-> default_value,
     const_value |-> const_value, type |-> type]

LeastOne == 1000     \* LEAST_ONE of ArgParser

OptionSettings ==
    {Setting(0, FALSE, <<>>, <<>>, "STRING"),
     Setting(1, TRUE, <<<<"1">>>>, <<>>, "INTEGRAL"),
     Setting(LeastOne, TRUE, <<>>, <<<<"1">>>>, "CHAR"),
     Setting(2, FALSE, <<>>, <<<<"1">>, <<"x">>>>, "INTEGRAL"),
     Setting(2, TRUE, <<>>, <<>>, "REAL")}

LineWords == {<<"-", "-", "a">>, <<"-", "b">>, <<"-", "b", "b">>, <<"1">>, <<"x", "1">>}
=============================================================================
