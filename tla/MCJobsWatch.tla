----------------------------- MODULE MCJobsWatch -----------------------------
(* Constants for model checking JobsWatch.                                 *)
EXTENDS JobsWatch

MCJobSteps == {<<"pending", "active">>, <<"pending", "failed">>,
               <<"active", "succeeded">>, <<"active", "failed">>}
=============================================================================
