-------------------------- MODULE MCScheduleTriggers --------------------------
(* Constants for model checking ScheduleTriggers.                          *)
EXTENDS ScheduleTriggers
=============================================================================
