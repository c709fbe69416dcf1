------------------------------ MODULE MCOptimizer ------------------------------
(* A small instance of Optimizer. *)
EXTENDS Optimizer

MCScores == {-2, -1}
================================================================================
