---------------------------- MODULE MCSpscQueue ----------------------------
(* Four slots and nine pushes: the indexes wrap twice, the queue is full and *)
(* empty, and each thread can be several stores behind the other.            *)
EXTENDS SpscQueue
=============================================================================
