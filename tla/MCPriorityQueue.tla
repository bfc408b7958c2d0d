-------------------------- MODULE MCPriorityQueue --------------------------
(* PriorityQueue on small instances.                                       *)
EXTENDS PriorityQueue, TLC

TaskSymmetry == Permutations(TaskId)
=============================================================================
