----------------------------- MODULE MCStackJobs -----------------------------
(* Two jobs and three calls of collect, each for either job.               *)
EXTENDS StackJobs

CONSTANTS j1, j2, c1, c2, c3
=============================================================================
