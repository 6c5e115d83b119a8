---------------------------- MODULE MCJobPipeline ----------------------------
(* Plans of one stage, or of two and none; one backend for all, or one per *)
(* job; one lane per backend.  The lane arguments exercise the clamping of *)
(* register_backend_with_prepare_lanes: 0 lanes are raised to 1, 3 prepare *)
(* lanes lowered to the lane count.                                        *)
EXTENDS JobPipeline, TLC

CONSTANTS w1, w2, j1, j2, p1, b1, b2

OneStage == [j \in Jobs |-> 1]
TwoAndNone == [j \in Jobs |-> IF j = j1 THEN 2 ELSE 0]

TogetherJobs == [j \in Jobs |-> b1]
TogetherPreps == [p \in Preparers |-> b1]
ApartJobs == [j \in Jobs |-> IF j = j1 THEN b1 ELSE b2]

NoLaneArg == [b \in Backends |-> 0]
ThreeArg == [b \in Backends |-> 3]

(* Where all jobs have one plan and one backend.                            *)
Alike == Permutations(Workers) \cup Permutations(Jobs)
=============================================================================
