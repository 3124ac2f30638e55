------------------------- MODULE MCSynchronisation --------------------------
(* Three threads: two can conflict while the third observes, joins in,     *)
(* barges in between the two steps of an unlock or sleeps beside the       *)
(* second.                                                                 *)
EXTENDS Synchronisation
=============================================================================
