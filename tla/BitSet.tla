------------------------------- MODULE BitSet -------------------------------
(***************************************************************************)
(* ls::utils::BitSet<ElementType>.  A set is the record of its members;    *)
(* mBits is the array of reserved bits, bucket after bucket, and has no    *)
(* bits when the pointer is null.                                          *)
(*                                                                         *)
(* A new array is not initialised: a bit the code has not written since is *)
(* Unwritten, which stands for either value.  A call whose array cannot be *)
(* allocated changes nothing, but for the copy constructor.                *)
(***************************************************************************)
EXTENDS Integers

CONSTANTS bits_per_bucket, Slack,   \* slack of resize, in buckets
          MaxBits,                  \* bound on the bits callers ask for
          Unwritten

VARIABLES set, meant, spoilt
(* set is the BitSet a behaviour follows: when it is copied or moved from, *)
(* the other object.  History: meant has the bits that the calls set,      *)
(* spoilt says that a call of bit_and or reserve took bits away that it    *)
(* should have left; no call but clear() is followed after it.             *)

Bit == {0, 1}

NoBits == [i \in {} |-> 0]
Cleared == [mBits |-> NoBits, mNumBitsActive |-> 0, mNumBitsReserved |-> 0]

Init == set = Cleared /\ meant = {} /\ spoilt = FALSE

-----------------------------------------------------------------------------
Multiple(n) == (n + bits_per_bucket - 1) \div bits_per_bucket

\* bucket_count() and max_bucket_count()
Active(b) == b.mNumBitsActive \div bits_per_bucket
Reserved(b) == b.mNumBitsReserved \div bits_per_bucket

Below(n) == 0..n - 1

\* An array of n buckets, the first k of them those of b, zeros behind them.
Kept(b, k, n) ==
    [i \in 0..n * bits_per_bucket - 1 |->
        IF i >= k * bits_per_bucket THEN 0
        ELSE IF i \in DOMAIN b.mBits THEN b.mBits[i] ELSE Unwritten]

SetTo(array, active, reserved) ==
    [mBits |-> array, mNumBitsActive |-> active * bits_per_bucket,
     mNumBitsReserved |-> reserved * bits_per_bucket]

\* resize uses the array it has if it has more buckets than are needed.
InPlace(b, n) == Multiple(n) < Reserved(b)
NewSize(b, n) ==
    IF InPlace(b, n) THEN Reserved(b) ELSE ((Multiple(n) + Slack - 1) \div Slack) * Slack

\* Mutant: only as much is zeroed as was in use.
Resized_KeepsTail(b, n) ==
    IF n = b.mNumBitsActive THEN b
    ELSE SetTo(Kept(b, IF InPlace(b, n) THEN Reserved(b) ELSE Active(b), NewSize(b, n)),
               Multiple(n), NewSize(b, n))

\* resize(n), n # 0: the buckets in use move to a new array.  In place, or if
\* there was no array yet, no bucket below the new size is written.
Resized(b, n) ==
    IF n = b.mNumBitsActive THEN b
    ELSE SetTo(Kept(b, IF InPlace(b, n) \/ Reserved(b) = 0 THEN Multiple(n) ELSE Active(b),
                    NewSize(b, n)),
               Multiple(n), NewSize(b, n))

\* resize(n, bits), n # 0: all buckets come from the caller.
Loaded(b, n, bits) ==
    IF n = b.mNumBitsActive THEN b
    ELSE SetTo([i \in 0..NewSize(b, n) * bits_per_bucket - 1 |->
                   IF i < Multiple(n) * bits_per_bucket /\ i \in bits THEN 1 ELSE 0],
               Multiple(n), NewSize(b, n))

\* reserve(n) of fewer bits than are in use keeps of the last bucket the bits
\* below n modulo the size of a bucket, and takes the buckets for the bits.
Lowered(b, n) ==
    [b EXCEPT
        !.mBits = [i \in DOMAIN b.mBits |->
            IF i >= (Multiple(n) - 1) * bits_per_bucket + (n % bits_per_bucket)
               /\ i < Active(b) * bits_per_bucket
            THEN 0 ELSE b.mBits[i]],
        !.mNumBitsActive = Multiple(n)]

\* Any other reserve(n), n # 0
ReservedTo(b, n) ==
    IF Multiple(n) > Reserved(b)
    THEN [b EXCEPT !.mBits = Kept(b, Reserved(b), Multiple(n)),
                   !.mNumBitsReserved = Multiple(n) * bits_per_bucket]
    ELSE b

\* A copy has the buckets in use, in an array as large as the other.
Copied(b) ==
    [b EXCEPT !.mBits = [i \in DOMAIN b.mBits |->
        IF i < Active(b) * bits_per_bucket THEN b.mBits[i] ELSE Unwritten]]

-----------------------------------------------------------------------------
(* The calls *)

\* clear(), resize(0) and reserve(0), and a set that was moved from
Clear == set' = Cleared /\ meant' = {} /\ spoilt' = FALSE

Resize(n) ==
    /\ set' = Resized(set, n)
    /\ meant' = meant \cap Below(Multiple(n) * bits_per_bucket)
    /\ UNCHANGED spoilt

\* A resize to the size it has ignores the bits it is given.
ResizeWith(n, bits) ==
    /\ n # set.mNumBitsActive
    /\ set' = Loaded(set, n, bits)
    /\ meant' = bits \cap Below(Multiple(n) * bits_per_bucket)
    /\ UNCHANGED spoilt

Reserve(n) ==
    /\ IF n < set.mNumBitsActive
       THEN set' = Lowered(set, n) /\ spoilt' = TRUE
       ELSE set' = ReservedTo(set, n) /\ UNCHANGED spoilt
    /\ UNCHANGED meant

Flipped(x) == IF x = Unwritten THEN x ELSE 1 - x

\* set(i, v), and bit_or(i, 1), which is set(i, 1)
SetBit(i, v) ==
    /\ i < set.mNumBitsActive
    /\ set' = [set EXCEPT !.mBits[i] = v]
    /\ meant' = IF v = 1 THEN meant \cup {i} ELSE meant \ {i}
    /\ UNCHANGED spoilt

\* bit_not(i), and bit_xor(i, 1)
FlipBit(i) ==
    /\ i < set.mNumBitsActive
    /\ set' = [set EXCEPT !.mBits[i] = Flipped(@)]
    /\ meant' = IF i \in meant THEN meant \ {i} ELSE meant \cup {i}
    /\ UNCHANGED spoilt

\* bit_and(i, v) clears the whole bucket, but for bit i if v is not 0.
AndBit(i, v) ==
    LET bucket == {j \in DOMAIN set.mBits : j \div bits_per_bucket = i \div bits_per_bucket}
        cleared == bucket \ (IF v = 0 THEN {} ELSE {i})
    IN /\ i < set.mNumBitsActive
       /\ set' = [set EXCEPT !.mBits = [j \in DOMAIN @ |-> IF j \in cleared THEN 0 ELSE @[j]]]
       /\ meant' = IF v = 0 THEN meant \ {i} ELSE meant
       /\ spoilt' = (meant \cap (cleared \ {i}) # {})

\* The copy constructor and operator=(const BitSet&).  A set without buckets in
\* use, or without memory, leaves the copy empty, and an assigned set as it was.
Copy ==
    /\ Active(set) > 0
    /\ set' = Copied(set)
    /\ UNCHANGED <<meant, spoilt>>

\* What the whole-set calls change, and what the calls on one bucket change
InUse == Below(Active(set) * bits_per_bucket)
Bucket(k) == {i \in InUse : i \div bits_per_bucket = k}
Ranges == {InUse} \cup {Bucket(k) : k \in 0..Active(set) - 1}

\* The bits of a range become what Op makes of them and of the caller's.
Combined(range, other, Op(_, _)) ==
    [set EXCEPT !.mBits = [i \in DOMAIN @ |->
        IF i \in range THEN Op(@[i], IF i \in other THEN 1 ELSE 0) ELSE @[i]]]

And(x, y) == IF y = 0 THEN 0 ELSE x
Or(x, y) == IF y = 1 THEN 1 ELSE x
Xor(x, y) == IF y = 1 THEN Flipped(x) ELSE x

\* set_and, set_or and set_xor with a set of the same size; bucket_and, bucket_or
\* and bucket_xor
CombineWith(range, other) ==
    LET bits == other \cap range
    IN /\ \/ set' = Combined(range, bits, And) /\ meant' = meant \ (range \ bits)
          \/ set' = Combined(range, bits, Or) /\ meant' = meant \cup bits
          \/ set' = Combined(range, bits, Xor) /\ meant' = (meant \cup bits) \ (meant \cap bits)
       /\ UNCHANGED spoilt

\* set_not and bucket_not
Invert(range) ==
    /\ set' = Combined(range, range, Xor)
    /\ meant' = (meant \cup range) \ (meant \cap range)
    /\ UNCHANGED spoilt

\* The bits callers load or combine a set with
SomeBits == {Below(1), Below(MaxBits)}

Next ==
    \/ /\ ~spoilt
       /\ \/ \E n \in 1..MaxBits :
               Resize(n) \/ Reserve(n) \/ \E bits \in SomeBits : ResizeWith(n, bits)
          \/ \E i \in Below(MaxBits) : FlipBit(i) \/ \E v \in Bit : SetBit(i, v) \/ AndBit(i, v)
          \/ \E range \in Ranges :
               Invert(range) \/ \E bits \in SomeBits : CombineWith(range, bits)
          \/ Copy
    \/ Clear

-----------------------------------------------------------------------------
(* A set holds the bits its calls set and no others, through growth in     *)
(* place and in new arrays, shrinking, copies and moves, wherever a value  *)
(* was written; what a later growth finds is zero, or was never written.   *)
(* bit_and and a reserve that lowers the size take other bits away.        *)
SetHoldsItsBits ==
    ~spoilt => \A i \in DOMAIN set.mBits :
                 set.mBits[i] \in {Unwritten, IF i \in meant THEN 1 ELSE 0}
=============================================================================
