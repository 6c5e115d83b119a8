---------------------------- MODULE JobLifecycle ----------------------------
(***************************************************************************)
(* What dispatch, poll and cancel of src/src/stack.rs promise about a job, *)
(* without tasks, lanes or threads: it is queued or refused, runs, and     *)
(* ends once, as completed, failed or cancelled; it is cancelled only if   *)
(* somebody asked for it.  JobPipeline implements this specification.      *)
(***************************************************************************)
CONSTANT Jobs

VARIABLES status,  (* JobRecord.state; "refused": dispatch returned an error *)
          cancel   (* JobRecord.cancel                                       *)

vars == <<status, cancel>>

Unfinished == {"queued", "running"}

Init == /\ status = [j \in Jobs |-> "absent"]
        /\ cancel = [j \in Jobs |-> FALSE]

Move(j, from, to) == /\ status[j] \in from
                     /\ status' = [status EXCEPT ![j] = to]
                     /\ UNCHANGED cancel

Dispatch(j) == Move(j, {"absent"}, "queued")
Refuse(j)   == Move(j, {"absent"}, "refused")
Start(j)    == Move(j, {"queued"}, "running")
Complete(j) == Move(j, {"running"}, "completed")
Fail(j)     == Move(j, Unfinished, "failed")
Quit(j)     == cancel[j] /\ Move(j, Unfinished, "cancelled")

Cancel(j) == /\ status[j] \notin {"absent", "refused"}
             /\ cancel' = [cancel EXCEPT ![j] = TRUE]
             /\ UNCHANGED status

Next == \E j \in Jobs : \/ Dispatch(j) \/ Refuse(j) \/ Start(j) \/ Complete(j)
                        \/ Fail(j) \/ Quit(j) \/ Cancel(j)

Spec == Init /\ [][Next]_vars
=============================================================================
