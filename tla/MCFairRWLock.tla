---------------------------- MODULE MCFairRWLock ----------------------------
(* Three threads and three ticket numbers: every ticket can be out at once *)
(* and the counters wrap on every third call.                              *)
EXTENDS FairRWLock
=============================================================================
