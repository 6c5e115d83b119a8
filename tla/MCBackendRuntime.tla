-------------------------- MODULE MCBackendRuntime --------------------------
(* One backend with two lanes of which one may prepare (the argument 0 is  *)
(* raised to 1).  p1 is an agent as well as a preparer: a prepare call     *)
(* rejects the task that its end hands a lane to, when it is refused.      *)
EXTENDS BackendRuntime

CONSTANTS wide, t1, t2, t3, t4, p1, p2, w1

MCHome == [x \in Task \cup Preparers |-> wide]
MCLaneArg == [b \in Backends |-> 2]
MCPrepareArg == [b \in Backends |-> 0]
=============================================================================
