------------------------------ MODULE MCBTree ------------------------------
(* The trees alone, for what a copy constructed from a tree holds: one key *)
(* pushed and one copy made are enough.                                    *)
EXTENDS BTree

Spec == Init /\ [][Next]_<<tree, map>>
=============================================================================
