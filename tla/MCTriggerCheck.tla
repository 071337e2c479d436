---------------------------- MODULE MCTriggerCheck ----------------------------
(* Constants for model checking TriggerCheck.                              *)
EXTENDS TriggerCheck, TLC

\* Every commit changes the watched files.
MCFileHash == [c \in 1..MaxCommit |-> IF c = 1 THEN "f1" ELSE "f2"]

\* Runs of the task are interchangeable.
RunSymmetry == Permutations(Runs)
=============================================================================
