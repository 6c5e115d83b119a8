------------------------------ MODULE StackJobs ------------------------------
(***************************************************************************)
(* The job table of a stack (src/src/stack.rs): dispatch, cancel and       *)
(* collect of many callers against the worker that moves a job through     *)
(* its life.  What happens to a job in between is JobLifecycle, which      *)
(* JobPipeline implements; here a job is its record, and the questions are *)
(* who gets its outcome and who is woken for it.                           *)
(*                                                                         *)
(* A collect looks the record up under the lock of the table, waits and    *)
(* takes the outcome under the lock of the record, and removes the record  *)
(* under the lock of the table again.  poll reads and changes nothing.     *)
(***************************************************************************)
EXTENDS Naturals, FiniteSets

CONSTANTS
  Jobs,        (* each dispatched once                                     *)
  Collectors,  (* calls of collect                                         *)
  None         (* no job                                                   *)

ASSUME NoneAssumption == None \notin Jobs
ASSUME CollectorAssumption == IsFiniteSet(Collectors)

VARIABLES
  status,   (* JobRecord.state; "absent": its first task is not accepted   *)
  cancel,   (* JobRecord.cancel                                            *)
  payload,  (* the Option in Completed and Failed is Some                  *)
  twice,    (* jobs that a rejection failed and their body fails again     *)
  at,       (* where the dispatch of each job stands                       *)
  table,    (* StackInner.jobs                                             *)
  call,     (* where each collect stands                                   *)
  target,   (* the job it asks for                                         *)
  got       (* what it returns                                             *)

vars == <<status, cancel, payload, twice, at, table, call, target, got>>
jobVars == <<status, cancel, payload, twice>>
callVars == <<call, target, got>>

Lifecycle == INSTANCE JobLifecycle

Unfinished == Lifecycle!Unfinished
Ended == {"completed", "failed", "cancelled"}

(* Slip: the collectors are not notified.                                  *)
NobodyAwake(j) == call

(* record.wake.notify_all                                                  *)
Awake(j) == [c \in Collectors |-> IF call[c] = "asleep" /\ target[c] = j
                                  THEN "found" ELSE call[c]]

(* Slip: the values are cloned.                                            *)
LeftBehind(j) == payload

(* The Option is taken out of Completed and Failed.                        *)
TakenFrom(j) == [payload EXCEPT ![j] = FALSE]

(* Slip: unwrap.                                                           *)
OutcomeUnwrapped(j) == CASE ~payload[j] /\ status[j] # "cancelled" -> "panic"
                         [] status[j] = "completed" -> "values"
                         [] status[j] = "failed"    -> "error"
                         [] status[j] = "cancelled" -> "cancelled"

(* What collect makes of the record; an Option already taken becomes an    *)
(* empty list of values, or the error "job failed".                        *)
Outcome(j) == CASE status[j] = "completed" -> IF payload[j] THEN "values" ELSE "empty"
                [] status[j] = "failed"    -> IF payload[j] THEN "error" ELSE "job failed"
                [] status[j] = "cancelled" -> "cancelled"
-----------------------------------------------------------------------------
Init == /\ Lifecycle!Init
        /\ payload = [j \in Jobs |-> FALSE]
        /\ twice = {}
        /\ at = [j \in Jobs |-> "out"]
        /\ table = {}
        /\ call = [c \in Collectors |-> "out"]
        /\ target = [c \in Collectors |-> None]
        /\ got = [c \in Collectors |-> "nothing"]

(* dispatch: the record enters the table before the task is submitted ...  *)
Insert(j) ==
  /\ at[j] = "out"
  /\ at' = [at EXCEPT ![j] = "inserted"]
  /\ table' = table \cup {j}
  /\ UNCHANGED <<jobVars, callVars>>

(* ... which is accepted, from when on workers move the job ...            *)
Accept(j) ==
  /\ at[j] = "inserted"
  /\ Lifecycle!Dispatch(j)
  /\ at' = [at EXCEPT ![j] = "accepted"]
  /\ UNCHANGED <<payload, twice, table, callVars>>

(* ... and its id handed to the caller ...                                 *)
Return(j) ==
  /\ at[j] = "accepted"
  /\ at' = [at EXCEPT ![j] = "returned"]
  /\ UNCHANGED <<jobVars, table, callVars>>

(* Slip: the record of a refused job stays.                                *)
RefuseAndKeep(j) ==
  /\ at[j] = "inserted"
  /\ Lifecycle!Refuse(j)
  /\ at' = [at EXCEPT ![j] = "refused"]
  /\ UNCHANGED <<payload, twice, table, callVars>>

(* ... or refused, and the record removed.                                 *)
Refuse(j) ==
  /\ at[j] = "inserted"
  /\ Lifecycle!Refuse(j)
  /\ at' = [at EXCEPT ![j] = "refused"]
  /\ table' = table \ {j}
  /\ UNCHANGED <<payload, twice, callVars>>

(* cancel finds no record once the job has been collected.                 *)
Cancel(j) ==
  /\ at[j] = "returned"
  /\ j \in table
  /\ Lifecycle!Cancel(j)
  /\ UNCHANGED <<payload, twice, at, table, callVars>>

(* ---- workers                                                     ----- *)
MarkRunning(j) ==
  /\ Lifecycle!Start(j)
  /\ call' = Awake(j)
  /\ UNCHANGED <<payload, twice, at, table, target, got>>

FinishCompleted(j) ==
  /\ Lifecycle!Complete(j)
  /\ payload' = [payload EXCEPT ![j] = TRUE]
  /\ call' = Awake(j)
  /\ UNCHANGED <<twice, at, table, target, got>>

FinishFailed(j) ==
  /\ Lifecycle!Fail(j)
  /\ payload' = [payload EXCEPT ![j] = TRUE]
  /\ twice' \in {twice, twice \cup {j}}
  /\ call' = Awake(j)
  /\ UNCHANGED <<at, table, target, got>>

(* The job was rejected when its next stage was scheduled; the body that   *)
(* scheduled it gets the error, too, and fails the job once more.          *)
FinishFailedAgain(j) ==
  /\ j \in twice
  /\ twice' = twice \ {j}
  /\ payload' = [payload EXCEPT ![j] = TRUE]
  /\ call' = Awake(j)
  /\ UNCHANGED <<status, cancel, at, table, target, got>>

FinishCancelled(j) ==
  /\ Lifecycle!Quit(j)
  /\ call' = Awake(j)
  /\ UNCHANGED <<payload, twice, at, table, target, got>>

(* ---- collect                                                     ----- *)
Find(c, j) ==
  /\ call[c] = "out"
  /\ at[j] = "returned"
  /\ j \in table
  /\ call' = [call EXCEPT ![c] = "found"]
  /\ target' = [target EXCEPT ![c] = j]
  /\ UNCHANGED <<jobVars, at, table, got>>

FindNothing(c, j) ==
  /\ call[c] = "out"
  /\ at[j] = "returned"
  /\ j \notin table
  /\ call' = [call EXCEPT ![c] = "done"]
  /\ target' = [target EXCEPT ![c] = j]
  /\ got' = [got EXCEPT ![c] = "unknown"]
  /\ UNCHANGED <<jobVars, at, table>>

Wait(c) ==
  /\ call[c] = "found"
  /\ status[target[c]] \in Unfinished
  /\ call' = [call EXCEPT ![c] = "asleep"]
  /\ UNCHANGED <<jobVars, at, table, target, got>>

SpuriousWake(c) ==
  /\ call[c] = "asleep"
  /\ call' = [call EXCEPT ![c] = "found"]
  /\ UNCHANGED <<jobVars, at, table, target, got>>

Take(c) ==
  /\ call[c] = "found"
  /\ status[target[c]] \in Ended
  /\ call' = [call EXCEPT ![c] = "taken"]
  /\ got' = [got EXCEPT ![c] = Outcome(target[c])]
  /\ payload' = TakenFrom(target[c])
  /\ UNCHANGED <<status, cancel, twice, at, table, target>>

Remove(c) ==
  /\ call[c] = "taken"
  /\ call' = [call EXCEPT ![c] = "done"]
  /\ table' = table \ {target[c]}
  /\ UNCHANGED <<jobVars, at, target, got>>

DispatchStep(j) == Insert(j) \/ Accept(j) \/ Return(j) \/ Refuse(j)
WorkerStep(j) == \/ MarkRunning(j) \/ FinishCompleted(j) \/ FinishFailed(j)
                 \/ FinishFailedAgain(j) \/ FinishCancelled(j)
CollectStep(c) == Wait(c) \/ Take(c) \/ Remove(c)

Next == \/ \E j \in Jobs : DispatchStep(j) \/ Cancel(j) \/ WorkerStep(j)
        \/ \E c \in Collectors, j \in Jobs : Find(c, j) \/ FindNothing(c, j)
        \/ \E c \in Collectors : CollectStep(c) \/ SpuriousWake(c)

Spec == Init /\ [][Next]_vars

(* A collect goes on while it can, and the workers do not leave a job      *)
(* unfinished (which JobPipeline shows, but for the jobs that a shutdown   *)
(* strands).                                                               *)
Fairness == /\ \A c \in Collectors : WF_vars(CollectStep(c))
            /\ \A j \in Jobs : WF_vars(WorkerStep(j))

FairSpec == Spec /\ Fairness
-----------------------------------------------------------------------------
TypeOK == /\ status \in [Jobs -> {"absent", "refused"} \cup Unfinished \cup Ended]
          /\ cancel \in [Jobs -> BOOLEAN]
          /\ payload \in [Jobs -> BOOLEAN]
          /\ twice \subseteq Jobs
          /\ at \in [Jobs -> {"out", "inserted", "accepted", "returned", "refused"}]
          /\ table \subseteq Jobs
          /\ call \in [Collectors -> {"out", "found", "asleep", "taken", "done"}]
          /\ target \in [Collectors -> Jobs \cup {None}]
          /\ got \in [Collectors -> {"nothing", "unknown", "values", "empty", "error",
                                     "job failed", "cancelled"}]

(* No lost wakeup: nobody sleeps in collect on a job that has ended.       *)
NoSleepOnEnded == \A c \in Collectors :
  call[c] = "asleep" => status[target[c]] \in Unfinished

(* The values of a completed job are in the record or with one collector,  *)
(* neither lost nor handed out twice.                                      *)
Receivers(j) == {c \in Collectors : target[c] = j /\ got[c] = "values"}
ValuesOnce == \A j \in Jobs :
  IF status[j] = "completed" /\ ~payload[j]
  THEN \E c \in Collectors : Receivers(j) = {c}
  ELSE Receivers(j) = {}

(* A job is in the table from its dispatch until somebody has collected    *)
(* it: no record is lost to a race of collects, and none stays.            *)
Collected(j) == \E c \in Collectors :
  target[c] = j /\ call[c] = "done" /\ got[c] # "unknown"
TableIsUncollected ==
  table = {j \in Jobs : at[j] \notin {"out", "refused"} /\ ~Collected(j)}

(* A collect that has found its job returns.                               *)
CollectReturns == \A c \in Collectors : call[c] = "found" ~> call[c] = "done"

(* "Return decoded planner results": a collect that returns Ok hands over  *)
(* the results of its job.                                                 *)
CollectedValues == \A c \in Collectors : got[c] # "empty"
=============================================================================
