----------------------------- MODULE MCJobsQueue -----------------------------
(* Constants for model checking JobsQueue and its refinement.               *)
EXTENDS QueueRefinement, TLC

Symmetry == Permutations(Jobs)
=============================================================================
