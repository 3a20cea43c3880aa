-------------------------------- MODULE MCHeap --------------------------------
(* A small instance of Heap for TLC. *)
EXTENDS Heap

CONSTANTS t1, t2

TwoTasks == {t1, t2}
=============================================================================
