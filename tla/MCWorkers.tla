----------------------------- MODULE MCWorkers ------------------------------
(* A WorkerPool: two workers compete for the queue and for being the last  *)
(* one out; four tasks are the fewest with which the ring buffer wraps and *)
(* is run over, in the order the client pushes, flushes and pushes again.  *)
(* A WorkerThread makes the same calls. One clear_pending and one          *)
(* assignment or resize take the queue away at every point. For what is    *)
(* served one worker is enough, without clears or assignments, which the   *)
(* property of the thread excepts; five tasks let the storage grow twice.  *)
EXTENDS Workers
=============================================================================
