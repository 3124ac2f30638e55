------------------------------ MODULE TaskQueue ------------------------------
(***************************************************************************)
(* What is said of the queues of tasks of both worker classes. A queue is  *)
(* a sequence of tasks, what it holds is its ToSet, and a task is the      *)
(* number of the push that brought it: numbers that only grow from front   *)
(* to back are tasks in the order of their pushes, each there once.        *)
(***************************************************************************)
EXTENDS Integers, SequencesExt

TasksInOrder(queue) ==
    \A front, back \in DOMAIN queue : front < back => queue[front] < queue[back]
=============================================================================
