----------------------------- MODULE JobPipeline -----------------------------
(***************************************************************************)
(* An asynchronous job from dispatch to its end: JobExecution of           *)
(* src/src/stack.rs on top of the lanes (BackendRuntime) and the workers   *)
(* (WorkerPool) of src/src/executor.rs.  A job is a chain of boxed tasks:  *)
(* encode, one task per stage, decode; each schedules the next one.        *)
(*                                                                         *)
(* Every action is one step of one thread: it conjoins at most one action  *)
(* of the pool and one of the lanes with what the step does to the job.    *)
(* A thread that may be interrupted between two effects others can see     *)
(* has a label in `at` for the point between them.                         *)
(***************************************************************************)
EXTENDS Naturals, Sequences, FiniteSets

CONSTANTS
  Workers,      (* worker threads                                          *)
  Jobs,         (* each dispatched once, by a thread of the same name      *)
  Preparers,    (* threads that compile a new version once                 *)
  Closer,       (* the thread that calls shutdown                          *)
  Backends,
  Stages,       (* the number of stages of each job's compiled plan        *)
  JobBackend,   (* the backend of each job's stack                         *)
  PrepBackend,  (* the backend of each preparer's stack                    *)
  LaneArg, PrepareArg,
  None

ASSUME StageAssumption == Stages \in [Jobs -> Nat]
ASSUME BackendAssumption == /\ JobBackend \in [Jobs -> Backends]
                            /\ PrepBackend \in [Preparers -> Backends]
ASSUME LaneAssumption == LaneArg \in [Backends -> Nat] /\ PrepareArg \in [Backends -> Nat]

(* Task <<j, 0>> encodes, <<j, k>> runs stage k - 1, the last one decodes. *)
Task == UNION {{<<j, k>> : k \in 0..(Stages[j] + 1)} : j \in Jobs}
IsStage(t) == t[2] \in 1..Stages[t[1]]
IsDecode(t) == t[2] = Stages[t[1]] + 1
StageTask == {t \in Task : IsStage(t)}
Successor(t) == <<t[1], t[2] + 1>>

Home == [x \in StageTask \cup Preparers |->
           IF x \in Preparers THEN PrepBackend[x] ELSE JobBackend[x[1]]]

Outsiders == Jobs \cup Preparers \cup {Closer}
Threads == Workers \cup Outsiders

(* Every thread has one part to play, and a task is not a thread.          *)
ASSUME FiniteAssumption == /\ IsFiniteSet(Workers) /\ Workers # {}
                           /\ IsFiniteSet(Jobs) /\ IsFiniteSet(Preparers)
ASSUME ApartAssumption == /\ Workers \cap Outsiders = {}
                          /\ Jobs \cap Preparers = {}
                          /\ Closer \notin Jobs \cup Preparers
                          /\ Preparers \cap StageTask = {}
                          /\ None \notin Task \cup Threads

(* Encode tasks come from dispatch callers, decode tasks from workers, and *)
(* stage tasks from the worker that ran the previous step or from whoever  *)
(* hands over a lane.                                                      *)
Submitters == [t \in Task |-> IF t[2] = 0 THEN {t[1]}
                              ELSE IF IsDecode(t) THEN Workers
                              ELSE Workers \cup Preparers]

VARIABLES queue, worker, cur, submit, hand, stopping, closer,
          lanes_in_use, prepares_in_use, waiting, wrapped, preparer, owing, closing,
          shutdown,
          status,    (* JobRecord.state of each job                        *)
          cancel,    (* JobRecord.cancel                                   *)
          packet,    (* JobExecution.packet                                *)
          at,        (* where each thread stands                           *)
          handling,  (* the task it is about                               *)
          inbody,    (* workers whose run_caught has not returned          *)
          drained    (* what BackendRuntime::shutdown has still to reject  *)

poolVars == <<queue, worker, cur, submit, hand, stopping, closer>>
laneVars == <<lanes_in_use, prepares_in_use, waiting, wrapped, preparer, owing, closing>>
jobVars  == <<status, cancel, packet>>
vars == <<poolVars, laneVars, shutdown, jobVars, at, handling, inbody, drained>>

Pool == INSTANCE WorkerPool
Lanes == INSTANCE BackendRuntime WITH Task <- StageTask, Agents <- Workers \cup Preparers
Lifecycle == INSTANCE JobLifecycle

Active(j) == status[j] \in {"queued", "running"}

(* Steps that leave the lanes, the pool or the jobs alone.                 *)
PoolOnly == UNCHANGED laneVars
LanesOnly == UNCHANGED poolVars
JobsOnly == UNCHANGED <<poolVars, laneVars, shutdown>>

GoTo(th, where) == at' = [at EXCEPT ![th] = where]
GoToWith(th, where, t) == GoTo(th, where) /\ handling' = [handling EXCEPT ![th] = t]

(* run_caught has returned: BackendWrappedTask::run goes on to finish_lane,*)
(* an encode or decode task is done.                                       *)
EndBody(w) == /\ inbody' = inbody \ {w}
              /\ GoToWith(w, IF IsStage(cur[w]) THEN "release" ELSE "finish", cur[w])

(* Slip: no clean-up.                                                      *)
Kept(j) == packet

(* cleanup_packet; a packet whose mutex a panic poisoned stays behind.     *)
Cleaned(j) == IF packet[j] = "poisoned" THEN packet ELSE [packet EXCEPT ![j] = "none"]

(* cleanup_packet, then finish_failed or finish_cancelled.                 *)
EndJob(j, outcome) == /\ packet' = Cleaned(j)
                      /\ status' = [status EXCEPT ![j] = outcome]
                      /\ UNCHANGED cancel
-----------------------------------------------------------------------------
Init == /\ Pool!Init
        /\ Lanes!Init
        /\ Lifecycle!Init
        /\ packet = [j \in Jobs |-> "none"]
        /\ at = [th \in Threads |-> IF th \in Workers THEN "loop" ELSE "out"]
        /\ handling = [th \in Threads |-> None]
        /\ inbody = {}
        /\ drained = <<>>

(* dispatch: the record enters the table and schedule_encode submits the   *)
(* first task; when submit_boxed refuses, the record is removed again.     *)
Dispatch(j) ==
  /\ at[j] = "out"
  /\ Pool!Admit(j, <<j, 0>>)
  /\ status' = [status EXCEPT ![j] = "queued"]
  /\ GoTo(j, "pushing")
  /\ PoolOnly /\ UNCHANGED <<cancel, packet, handling, inbody, drained>>

DispatchRefused(j) ==
  /\ at[j] = "out"
  /\ Pool!Refuse(j, <<j, 0>>)
  /\ status' = [status EXCEPT ![j] = "refused"]
  /\ GoTo(j, "done")
  /\ PoolOnly /\ UNCHANGED <<cancel, packet, handling, inbody, drained>>

(* cancel: the caller has the id, so dispatch has returned.                *)
Cancel(j) ==
  /\ at[j] = "done" /\ status[j] # "refused"
  /\ cancel' = [cancel EXCEPT ![j] = TRUE]
  /\ JobsOnly /\ UNCHANGED <<status, packet, at, handling, inbody, drained>>

(* ---- submit_ready and submit_boxed, by any thread                ----- *)
(* The thread holds handling[th], wrapped if it is a stage task.           *)
Admit(th) ==
  /\ at[th] = "submit"
  /\ Pool!Admit(th, handling[th])
  /\ GoTo(th, "pushing")
  /\ PoolOnly /\ UNCHANGED <<jobVars, handling, inbody, drained>>

(* Slip: the refused task is dropped, its lane with it.                    *)
RefusedAndDropped(th) ==
  /\ at[th] = "submit"
  /\ Pool!Refuse(th, handling[th])
  /\ GoTo(th, IF th \in Preparers THEN "notify" ELSE "fail")
  /\ PoolOnly /\ UNCHANGED <<jobVars, handling, inbody, drained>>

(* Slip: submit_ready called with reject_on_failure = false.               *)
RefusedAndUncounted(th) ==
  /\ at[th] = "submit"
  /\ Pool!Refuse(th, handling[th])
  /\ GoTo(th, IF th \in Preparers THEN "notify" ELSE "fail")
  /\ IF IsStage(handling[th])
     THEN /\ wrapped' = wrapped \ {handling[th]}
          /\ lanes_in_use' = [lanes_in_use EXCEPT ![Home[handling[th]]] = @ - 1]
     ELSE UNCHANGED <<wrapped, lanes_in_use>>
  /\ UNCHANGED <<prepares_in_use, waiting, preparer, owing, closing, jobVars, handling,
                 inbody, drained>>

(* A refused stage task is rejected by submit_ready; a refused decode task *)
(* is dropped, and its error ends the body that scheduled it.              *)
Refused(th) ==
  /\ at[th] = "submit"
  /\ Pool!Refuse(th, handling[th])
  /\ GoTo(th, IF IsStage(handling[th]) THEN "reject" ELSE "fail")
  /\ PoolOnly /\ UNCHANGED <<jobVars, handling, inbody, drained>>

Push(th) ==
  /\ at[th] = "pushing"
  /\ Pool!Push(th)
  /\ PoolOnly /\ UNCHANGED <<jobVars, at, handling, inbody, drained>>

(* The submission is over: dispatch returns the id, finish_prepare goes on *)
(* to its notify_all, a body returns Ok, and finish_lane is done.          *)
Pushed(th) ==
  /\ at[th] = "pushing"
  /\ Pool!NotifyOne(th)
  /\ \/ th \in Jobs /\ GoTo(th, "done") /\ UNCHANGED <<handling, inbody>>
     \/ th \in Preparers /\ GoTo(th, "notify") /\ UNCHANGED <<handling, inbody>>
     \/ th \in inbody /\ EndBody(th)
     \/ th \in Workers \ inbody /\ GoTo(th, "finish") /\ UNCHANGED <<handling, inbody>>
  /\ PoolOnly /\ UNCHANGED <<jobVars, drained>>

(* Slip: the rejection gives the lane back and forgets the job.            *)
RejectSilently(th) ==
  /\ at[th] = "reject"
  /\ GoTo(th, "release")
  /\ JobsOnly /\ UNCHANGED <<jobVars, handling, inbody, drained>>

(* BackendWrappedTask::reject -> reject_scheduled_task.                    *)
Reject(th) ==
  /\ at[th] = "reject"
  /\ EndJob(handling[th][1], "failed")
  /\ GoTo(th, "release")
  /\ JobsOnly /\ UNCHANGED <<handling, inbody, drained>>

(* finish_lane after a run or a rejection: the head of `waiting` becomes   *)
(* this thread's to submit, or the lane is freed.                          *)
HandLane(th) ==
  /\ at[th] = "release"
  /\ Lanes!HandLane(handling[th])
  /\ GoToWith(th, "submit", Head(waiting[Home[handling[th]]]))
  /\ LanesOnly /\ UNCHANGED <<jobVars, inbody, drained>>

FreeLane(th) ==
  /\ at[th] = "release"
  /\ Lanes!FreeLane(handling[th], th)
  /\ GoTo(th, "notify")
  /\ LanesOnly /\ UNCHANGED <<jobVars, handling, inbody, drained>>

(* prepare_wake.notify_all; a worker still inside a body got there because *)
(* the task it scheduled was refused, and its body now fails.              *)
NotifyPreparers(th) ==
  /\ at[th] = "notify"
  /\ \E b \in Backends : Lanes!NotifyPreparers(th, b)
  /\ \/ th \in Preparers /\ GoTo(th, "done") /\ UNCHANGED handling
     \/ th \in inbody /\ GoToWith(th, "fail", cur[th])
     \/ th \in Workers \ inbody /\ GoTo(th, "finish") /\ UNCHANGED handling
  /\ LanesOnly /\ UNCHANGED <<jobVars, inbody, drained>>

(* ---- worker_loop and the task bodies                             ----- *)
Idle(w) ==
  /\ Pool!Doze(w) \/ Pool!FallAsleep(w) \/ Pool!Exit(w)
  /\ PoolOnly /\ UNCHANGED <<jobVars, at, handling, inbody, drained>>

SpuriousWake(w) ==
  /\ Pool!SpuriousWake(w)
  /\ PoolOnly /\ UNCHANGED <<jobVars, at, handling, inbody, drained>>

Take(w) ==
  /\ Pool!Take(w)
  /\ GoToWith(w, "start", Head(queue))
  /\ inbody' = inbody \cup {w}
  /\ PoolOnly /\ UNCHANGED <<jobVars, drained>>

Finish(w) ==
  /\ at[w] = "finish"
  /\ Pool!Finish(w)
  /\ GoToWith(w, "loop", None)
  /\ PoolOnly /\ UNCHANGED <<jobVars, inbody, drained>>

(* encode_step, stage_step, decode_step: the cancel flag is tested first.  *)
StartCancelled(w) ==
  LET j == cur[w][1]
  IN /\ at[w] = "start"
     /\ cancel[j]
     /\ EndJob(j, "cancelled")
     /\ EndBody(w)
     /\ JobsOnly /\ UNCHANGED drained

(* Slip: the cancel flag is not tested.                                    *)
StartRegardless(w) ==
  LET j == cur[w][1]
  IN /\ at[w] = "start"
     /\ cur[w][2] > 0 => packet[j] = "stored"
     /\ status' = IF cur[w][2] = 0 THEN [status EXCEPT ![j] = "running"] ELSE status
     /\ packet' = IF IsDecode(cur[w]) THEN [packet EXCEPT ![j] = "none"] ELSE packet
     /\ GoTo(w, "work")
     /\ JobsOnly /\ UNCHANGED <<cancel, handling, inbody, drained>>

(* mark_running; a stage locks the packet in place, decode takes it out.   *)
Start(w) ==
  LET j == cur[w][1]
  IN /\ at[w] = "start"
     /\ ~cancel[j]
     /\ cur[w][2] > 0 => packet[j] = "stored"
     /\ status' = IF cur[w][2] = 0 THEN [status EXCEPT ![j] = "running"] ELSE status
     /\ packet' = IF IsDecode(cur[w]) THEN [packet EXCEPT ![j] = "none"] ELSE packet
     /\ GoTo(w, "work")
     /\ JobsOnly /\ UNCHANGED <<cancel, handling, inbody, drained>>

(* encode_packet + store_packet, or run_stage_once, succeeded: on to       *)
(* schedule_stage or schedule_decode.                                      *)
StepDone(w) ==
  LET next == Successor(cur[w])
  IN /\ at[w] = "work" /\ ~IsDecode(cur[w])
     /\ packet' = [packet EXCEPT ![cur[w][1]] = "stored"]
     /\ GoToWith(w, IF IsDecode(next) THEN "submit" ELSE "schedule", next)
     /\ JobsOnly /\ UNCHANGED <<status, cancel, inbody, drained>>

(* decode_packet + finish_completed.                                       *)
DecodeDone(w) ==
  /\ at[w] = "work" /\ IsDecode(cur[w])
  /\ status' = [status EXCEPT ![cur[w][1]] = "completed"]
  /\ EndBody(w)
  /\ JobsOnly /\ UNCHANGED <<cancel, packet, drained>>

(* Slip: every error is taken for a cancellation.                          *)
StepFailsCancelled(w) ==
  /\ at[w] = "work"
  /\ EndJob(cur[w][1], "cancelled")
  /\ EndBody(w)
  /\ JobsOnly /\ UNCHANGED drained

(* A step returned an error, or encode or decode panicked.                 *)
StepFails(w) ==
  /\ at[w] = "work"
  /\ EndJob(cur[w][1], "failed")
  /\ EndBody(w)
  /\ JobsOnly /\ UNCHANGED drained

(* Slip: the packet mutex stays locked.                                    *)
StagePanicsLocked(w) ==
  /\ at[w] = "work" /\ IsStage(cur[w])
  /\ packet' = [packet EXCEPT ![cur[w][1]] = "locked"]
  /\ status' = [status EXCEPT ![cur[w][1]] = "failed"]
  /\ EndBody(w)
  /\ JobsOnly /\ UNCHANGED <<cancel, drained>>

(* A stage panicked with the packet locked: the mutex is poisoned and      *)
(* cleanup_packet cannot take the packet out.                              *)
StagePanics(w) ==
  /\ at[w] = "work" /\ IsStage(cur[w])
  /\ packet' = [packet EXCEPT ![cur[w][1]] = "poisoned"]
  /\ status' = [status EXCEPT ![cur[w][1]] = "failed"]
  /\ EndBody(w)
  /\ JobsOnly /\ UNCHANGED <<cancel, drained>>

(* A backend that polls the cancel flag returned Err(Cancelled).           *)
StageCancelled(w) ==
  LET j == cur[w][1]
  IN /\ at[w] = "work" /\ IsStage(cur[w])
     /\ cancel[j]
     /\ EndJob(j, "cancelled")
     /\ EndBody(w)
     /\ JobsOnly /\ UNCHANGED drained

(* BackendRuntime::schedule of the next stage.                             *)
ScheduleNow(w) ==
  /\ at[w] = "schedule"
  /\ Lanes!Grant(handling[w])
  /\ GoTo(w, "submit")
  /\ LanesOnly /\ UNCHANGED <<jobVars, handling, inbody, drained>>

ScheduleLater(w) ==
  /\ at[w] = "schedule"
  /\ Lanes!Enqueue(handling[w])
  /\ EndBody(w)
  /\ LanesOnly /\ UNCHANGED <<jobVars, drained>>

(* The error arm of run_caught after a refused submission.                 *)
BodyFails(w) ==
  /\ at[w] = "fail"
  /\ EndJob(cur[w][1], "failed")
  /\ EndBody(w)
  /\ JobsOnly /\ UNCHANGED drained

(* ---- prepare_blocking                                            ----- *)
CallPrepare(p) ==
  /\ at[p] = "out"
  /\ Lanes!CallPrepare(p)
  /\ GoTo(p, "acquire")
  /\ LanesOnly /\ UNCHANGED <<jobVars, handling, inbody, drained>>

AcquirePrepare(p) ==
  /\ at[p] = "acquire"
  /\ \/ Lanes!RefusePrepare(p) /\ GoTo(p, "done")
     \/ Lanes!HoldPrepare(p) /\ GoTo(p, "hold")
     \/ Lanes!SleepPrepare(p) /\ UNCHANGED at
  /\ LanesOnly /\ UNCHANGED <<jobVars, handling, inbody, drained>>

SpuriousPrepare(p) ==
  /\ Lanes!SpuriousWake(p)
  /\ LanesOnly /\ UNCHANGED <<jobVars, at, handling, inbody, drained>>

(* Slip: the task that is popped is not submitted.                         *)
FinishPrepareDrops(p) ==
  /\ at[p] = "hold"
  /\ Lanes!FinishPrepare(p)
  /\ GoTo(p, "notify")
  /\ LanesOnly /\ UNCHANGED <<jobVars, handling, inbody, drained>>

FinishPrepare(p) ==
  LET b == PrepBackend[p]
  IN /\ at[p] = "hold"
     /\ Lanes!FinishPrepare(p)
     /\ \/ waiting[b] = <<>> /\ GoTo(p, "notify") /\ UNCHANGED handling
        \/ waiting[b] # <<>> /\ GoToWith(p, "submit", Head(waiting[b]))
     /\ LanesOnly /\ UNCHANGED <<jobVars, inbody, drained>>

(* ---- BraidExecutor::shutdown                                     ----- *)
BeginShutdown ==
  /\ at[Closer] = "out"
  /\ Pool!BeginShutdown(Closer)
  /\ Lanes!SetShutdown
  /\ GoTo(Closer, "closing")
  /\ UNCHANGED <<jobVars, handling, inbody, drained>>

Drain(b) ==
  /\ at[Closer] = "closing"
  /\ Lanes!Drain(b)
  /\ drained' = waiting[b]
  /\ GoTo(Closer, "rejecting")
  /\ LanesOnly /\ UNCHANGED <<jobVars, handling, inbody>>

(* A drained task was never wrapped: only reject_scheduled_task runs.      *)
RejectDrained ==
  /\ at[Closer] = "rejecting"
  /\ drained # <<>>
  /\ EndJob(Head(drained)[1], "failed")
  /\ drained' = Tail(drained)
  /\ JobsOnly /\ UNCHANGED <<at, handling, inbody>>

CloseBackend(b) ==
  /\ at[Closer] = "rejecting"
  /\ drained = <<>>
  /\ Lanes!CloseBackend(b)
  /\ GoTo(Closer, "closing")
  /\ LanesOnly /\ UNCHANGED <<jobVars, handling, inbody, drained>>

NotifyAll ==
  /\ at[Closer] = "closing"
  /\ \A b \in Backends : closing[b] = "closed"
  /\ Pool!NotifyAll
  /\ GoTo(Closer, "joining")
  /\ PoolOnly /\ UNCHANGED <<jobVars, handling, inbody, drained>>

Join ==
  /\ at[Closer] = "joining"
  /\ Pool!Join
  /\ GoTo(Closer, "done")
  /\ PoolOnly /\ UNCHANGED <<jobVars, handling, inbody, drained>>

Submission(th) == \/ Admit(th) \/ Refused(th) \/ Push(th) \/ Pushed(th)
                  \/ Reject(th) \/ HandLane(th) \/ FreeLane(th) \/ NotifyPreparers(th)
Body(w) == \/ StartCancelled(w) \/ Start(w) \/ StepDone(w) \/ DecodeDone(w) \/ StepFails(w)
           \/ StagePanics(w) \/ StageCancelled(w) \/ ScheduleNow(w) \/ ScheduleLater(w)
           \/ BodyFails(w)
WorkerStep(w) == Idle(w) \/ Take(w) \/ Finish(w) \/ Body(w) \/ Submission(w)
PrepareStep(p) == AcquirePrepare(p) \/ FinishPrepare(p) \/ Submission(p)
CloseStep == \/ \E b \in Backends : Drain(b) \/ CloseBackend(b)
             \/ RejectDrained \/ NotifyAll \/ Join

Next == \/ \E j \in Jobs : Dispatch(j) \/ DispatchRefused(j) \/ Cancel(j) \/ Submission(j)
        \/ \E w \in Workers : WorkerStep(w) \/ SpuriousWake(w)
        \/ \E p \in Preparers : CallPrepare(p) \/ PrepareStep(p) \/ SpuriousPrepare(p)
        \/ BeginShutdown \/ CloseStep

Spec == Init /\ [][Next]_vars

(* Threads that can run do, and one that asks for the queue lock for ever  *)
(* gets it.  A caller need not dispatch, cancel, prepare or shut down, and *)
(* a step of a planner or backend returns.                                 *)
Fairness == /\ \A j \in Jobs : SF_vars(Submission(j))
            /\ \A w \in Workers : SF_vars(WorkerStep(w))
            /\ \A p \in Preparers : SF_vars(PrepareStep(p))
            /\ WF_vars(CloseStep)

FairSpec == Spec /\ Fairness
-----------------------------------------------------------------------------
TypeOK ==
  /\ status \in [Jobs -> {"absent", "refused", "queued", "running", "completed",
                          "failed", "cancelled"}]
  /\ cancel \in [Jobs -> BOOLEAN]
  /\ packet \in [Jobs -> {"none", "stored", "poisoned"}]
  /\ at \in [Threads -> {"out", "loop", "start", "work", "schedule", "submit", "pushing",
                         "reject", "release", "notify", "fail", "finish", "acquire", "hold",
                         "closing", "rejecting", "joining", "done"}]
  /\ handling \in [Threads -> Task \cup {None}]
  /\ inbody \subseteq Workers
  /\ drained \in Seq(StageTask)

(* Where a job's continuation is: a queued, submitted, parked or drained   *)
(* box, or a thread that runs its body or holds its next task.             *)
Carriers(j) ==
  {<<"queued", i>> : i \in {i \in DOMAIN queue : queue[i][1] = j}}
    \cup {<<"hand", th>> : th \in {th \in Threads : hand[th] # None /\ hand[th][1] = j}}
    \cup {<<"parked", i>> : i \in {i \in DOMAIN waiting[JobBackend[j]] :
                                     waiting[JobBackend[j]][i][1] = j}}
    \cup {<<"drained", i>> : i \in {i \in DOMAIN drained : drained[i][1] = j}}
    \cup {<<"thread", th>> : th \in {th \in Threads :
            /\ at[th] \in {"start", "work", "schedule", "submit", "reject", "fail"}
            /\ handling[th][1] = j}}

(* A job that has not ended has exactly one continuation: no path of       *)
(* schedule, hand-over, refusal, rejection or shutdown drops it or starts  *)
(* it twice.  A job that has ended has none, but for the worker whose body *)
(* is about to report the failure again.                                   *)
OneContinuation == \A j \in Jobs :
  /\ Active(j) => Cardinality(Carriers(j)) = 1
  /\ ~Active(j) => \A c \in Carriers(j) : c[1] = "thread" /\ at[c[2]] = "fail"

(* The tasks of the job that have not started yet.                         *)
Pending(t) == \/ \E i \in DOMAIN queue : queue[i] = t
              \/ \E th \in Threads : hand[th] = t
              \/ \E i \in DOMAIN drained : drained[i] = t
              \/ \E th \in Threads : at[th] \in {"start", "schedule", "submit", "reject"}
                                     /\ handling[th] = t
              \/ IsStage(t) /\ \E i \in DOMAIN waiting[Home[t]] : waiting[Home[t]][i] = t

(* A stage or decode task that is pending finds its packet: "missing job   *)
(* packet" and "job packet already stored" cannot happen.                  *)
PacketAtHand == \A t \in Task :
  Pending(t) /\ Active(t[1]) => packet[t[1]] = IF t[2] = 0 THEN "none" ELSE "stored"

(* A job that has ended keeps no packet from the pool, save one that a     *)
(* panicking stage poisoned.                                               *)
PacketGivenBack == \A j \in Jobs :
  status[j] \in {"completed", "failed", "cancelled"} => packet[j] \in {"none", "poisoned"}

(* A job's packet is wherever its next step looks for it, and afterwards   *)
(* back in the pool (stack.rs:955-1032).                                   *)
PacketFollowsJob == PacketAtHand /\ PacketGivenBack

(* Stages and prepares in progress on a backend stay within its lanes,     *)
(* counted at the threads that run them.                                   *)
StagesWithinLanes == \A b \in Backends :
  Cardinality({w \in Workers : at[w] \in {"start", "work"} /\ IsStage(cur[w])
                               /\ JobBackend[cur[w][1]] = b})
    + Cardinality({p \in Preparers : at[p] = "hold" /\ PrepBackend[p] = b})
    <= Lanes!LaneCount(b)

(* Every lane held by a wrapped task has somebody who will give it back: a *)
(* queued box, or a thread on its way to finish_lane.                      *)
LanesHaveOwners == \A t \in wrapped :
  \/ \E i \in DOMAIN queue : queue[i] = t
  \/ \E th \in Threads : hand[th] = t
  \/ \E th \in Threads : handling[th] = t /\ at[th] \in {"submit", "reject", "release"}
  \/ \E w \in inbody : cur[w] = t

(* Lanes are used by the threads that hold them and by no more, and none   *)
(* is left without a holder (executor.rs:288-366).                         *)
LanesHeld == StagesWithinLanes /\ LanesHaveOwners

(* A job cancelled before its decode step has started never completes.     *)
DecodeStarted(j) == \/ status[j] = "completed"
                    \/ \E w \in Workers : at[w] = "work" /\ cur[w] = <<j, Stages[j] + 1>>
CancelInTime == \A j \in Jobs :
  [](cancel[j] /\ ~DecodeStarted(j) => [](status[j] # "completed"))

(* Jobs go through the states that dispatch, poll and cancel promise.      *)
ImplementsLifecycle == Lifecycle!Spec

(* What is proved of the lanes and of the pool alone holds here too: the   *)
(* jobs use both only in the ways that their own specifications allow      *)
(* (stack.rs:884-1038, executor.rs:267-284).                               *)
ImplementsLanesAndPool == Lanes!Spec /\ Pool!Spec

(* Left behind: no worker is there to take the job's next task.            *)
Stranded(j) == /\ \A w \in Workers : worker[w] = "exited"
               /\ \E c \in Carriers(j) : c[1] \in {"queued", "parked"}

(* An accepted job ends, or is left behind when the executor shuts down.   *)
JobsEndOrStrand == \A j \in Jobs : Active(j) ~> (~Active(j) \/ Stranded(j))

(* A prepare call gets its lane, or the refusal of a shut-down executor.   *)
PrepareReturns == \A p \in Preparers : at[p] = "acquire" ~> at[p] # "acquire"

(* "Wait for a dispatched job and return decoded planner results": a job   *)
(* that dispatch accepted ends, so that collect returns.                   *)
AcceptedJobsEnd == \A j \in Jobs : Active(j) ~> ~Active(j)
=============================================================================
