----------------------------- MODULE MCLeadership -----------------------------
(* Constants for model checking Leadership.                                *)
EXTENDS Leadership
=============================================================================
