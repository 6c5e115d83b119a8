---------------------------- MODULE MCWorkerPool ----------------------------
(* Two workers and two outside threads; `outer` tasks come from outside,   *)
(* as encode tasks do, `inner1` from the workers, as stage and decode      *)
(* tasks do.                                                               *)
EXTENDS WorkerPool

CONSTANTS w1, w2, c1, c2, outer1, outer2, inner1

MCSubmitters == [t \in Task |-> IF t = inner1 THEN Workers ELSE Outsiders]
=============================================================================
