------------------------------ MODULE MCJobFlow ------------------------------
(* Constants for model checking JobFlow.                                   *)
EXTENDS JobFlow

\* Every commit changes the watched files.
MCFileHash == [c \in 1..MaxCommit |-> IF c = 1 THEN "f1" ELSE "f2"]
=============================================================================
