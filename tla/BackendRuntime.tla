--------------------------- MODULE BackendRuntime ---------------------------
(***************************************************************************)
(* The lane accounting of src/src/executor.rs: one BackendRuntime per      *)
(* registered backend.  Stage tasks and prepare calls share one budget of  *)
(* lanes; a stage task that finds no lane is parked in `waiting`, a        *)
(* prepare call that finds none sleeps on the condition variable           *)
(* prepare_wake.                                                           *)
(*                                                                         *)
(* Every action is one critical section of BackendRuntime.state (or one    *)
(* notify_all outside it), and constrains the variables of this module     *)
(* only, so that JobPipeline can conjoin it with what the same thread does *)
(* to the worker queue and to the job.                                     *)
(***************************************************************************)
EXTENDS Naturals, Sequences, FiniteSets

CONSTANTS
  Backends,    (* the registered backends                                  *)
  Task,        (* boxed stage tasks handed to BackendRuntime::schedule     *)
  Preparers,   (* threads that call prepare_blocking                       *)
  Agents,      (* threads that run or reject a wrapped task                *)
  Home,        (* the backend of each task and of each preparer            *)
  LaneArg,     (* register_backend_with_prepare_lanes: lane_count          *)
  PrepareArg   (* register_backend_with_prepare_lanes: prepare_lane_count  *)

ASSUME HomeAssumption == Home \in [Task \cup Preparers -> Backends]
ASSUME LaneAssumption == /\ LaneArg \in [Backends -> Nat]
                         /\ PrepareArg \in [Backends -> Nat]
ASSUME ThreadAssumption == IsFiniteSet(Preparers)

VARIABLES
  lanes_in_use,     (* BackendQueueState.lanes_in_use, per backend         *)
  prepares_in_use,  (* BackendQueueState.prepares_in_use                   *)
  waiting,          (* BackendQueueState.waiting                           *)
  wrapped,          (* tasks owned by a live BackendWrappedTask            *)
  preparer,         (* where each prepare call stands                      *)
  owing,            (* threads out of the lock, notify_all still to call   *)
  shutdown,         (* ExecutorInner.shutdown                              *)
  closing           (* BackendRuntime::shutdown on each backend            *)

vars == <<lanes_in_use, prepares_in_use, waiting, wrapped, preparer, owing,
          shutdown, closing>>

AtLeastOne(n) == IF n = 0 THEN 1 ELSE n
LaneCount(b) == AtLeastOne(LaneArg[b])
PrepareLaneCount(b) == IF AtLeastOne(PrepareArg[b]) <= LaneCount(b)
                       THEN AtLeastOne(PrepareArg[b])
                       ELSE LaneCount(b)

SaturatingDec(n) == IF n = 0 THEN 0 ELSE n - 1

Waiting(b) == {waiting[b][i] : i \in DOMAIN waiting[b]}
Wrapped(b) == {t \in wrapped : Home[t] = b}
Holders(b) == {p \in Preparers : preparer[p] = "holding" /\ Home[p] = b}

(* The condition acquire_prepare tests before it takes a lane.             *)
MayPrepare(b) == /\ waiting[b] = <<>>
                 /\ lanes_in_use[b] < LaneCount(b)
                 /\ prepares_in_use[b] < PrepareLaneCount(b)

(* Slip: the notification is forgotten.                                    *)
WakeNobody(b) == preparer

Wake(b) == [p \in Preparers |-> IF preparer[p] = "asleep" /\ Home[p] = b
                                THEN "trying" ELSE preparer[p]]
-----------------------------------------------------------------------------
Init == /\ lanes_in_use = [b \in Backends |-> 0]
        /\ prepares_in_use = [b \in Backends |-> 0]
        /\ waiting = [b \in Backends |-> <<>>]
        /\ wrapped = {}
        /\ preparer = [p \in Preparers |-> "out"]
        /\ owing = [b \in Backends |-> {}]
        /\ shutdown = FALSE
        /\ closing = [b \in Backends |-> "open"]

(* Slip: one lane too many.                                                *)
GrantOneTooMany(t) ==
  /\ t \notin wrapped \cup Waiting(Home[t])
  /\ lanes_in_use[Home[t]] <= LaneCount(Home[t])
  /\ lanes_in_use' = [lanes_in_use EXCEPT ![Home[t]] = @ + 1]
  /\ wrapped' = wrapped \cup {t}
  /\ UNCHANGED <<prepares_in_use, waiting, preparer, owing, shutdown, closing>>

(* schedule: a lane is free, the task is wrapped and goes to submit_ready. *)
Grant(t) ==
  /\ t \notin wrapped \cup Waiting(Home[t])
  /\ lanes_in_use[Home[t]] < LaneCount(Home[t])
  /\ lanes_in_use' = [lanes_in_use EXCEPT ![Home[t]] = @ + 1]
  /\ wrapped' = wrapped \cup {t}
  /\ UNCHANGED <<prepares_in_use, waiting, preparer, owing, shutdown, closing>>

(* schedule: no lane is free, the task is parked.                          *)
Enqueue(t) ==
  /\ t \notin wrapped \cup Waiting(Home[t])
  /\ lanes_in_use[Home[t]] >= LaneCount(Home[t])
  /\ waiting' = [waiting EXCEPT ![Home[t]] = Append(@, t)]
  /\ UNCHANGED <<lanes_in_use, prepares_in_use, wrapped, preparer, owing,
                 shutdown, closing>>

(* Slip: pop_back for pop_front.                                           *)
HandLaneToLast(t) ==
  /\ t \in wrapped
  /\ waiting[Home[t]] # <<>>
  /\ wrapped' = (wrapped \ {t}) \cup {waiting[Home[t]][Len(waiting[Home[t]])]}
  /\ waiting' = [waiting EXCEPT ![Home[t]] = SubSeq(@, 1, Len(@) - 1)]
  /\ UNCHANGED <<lanes_in_use, prepares_in_use, preparer, owing, shutdown,
                 closing>>

(* finish_lane: the lane of t passes to the head of `waiting`.             *)
HandLane(t) ==
  /\ t \in wrapped
  /\ waiting[Home[t]] # <<>>
  /\ wrapped' = (wrapped \ {t}) \cup {Head(waiting[Home[t]])}
  /\ waiting' = [waiting EXCEPT ![Home[t]] = Tail(@)]
  /\ UNCHANGED <<lanes_in_use, prepares_in_use, preparer, owing, shutdown,
                 closing>>

(* Slip: only finish_prepare notifies.                                     *)
FreeLaneSilently(t, a) ==
  /\ t \in wrapped
  /\ waiting[Home[t]] = <<>>
  /\ wrapped' = wrapped \ {t}
  /\ lanes_in_use' = [lanes_in_use EXCEPT ![Home[t]] = SaturatingDec(@)]
  /\ UNCHANGED <<prepares_in_use, waiting, preparer, owing, shutdown, closing>>

(* Slip: a box that was run before is run again, and the count wraps.      *)
FreeLaneAgain(t, a) ==
  /\ waiting[Home[t]] = <<>>
  /\ wrapped' = wrapped \ {t}
  /\ lanes_in_use' = [lanes_in_use EXCEPT ![Home[t]] = @ - 1]
  /\ owing' = [owing EXCEPT ![Home[t]] = @ \cup {a}]
  /\ UNCHANGED <<prepares_in_use, waiting, preparer, shutdown, closing>>

(* finish_lane: nobody waits, the lane is freed; agent a has left the lock *)
(* and still has to notify the preparers.                                  *)
FreeLane(t, a) ==
  /\ t \in wrapped
  /\ waiting[Home[t]] = <<>>
  /\ wrapped' = wrapped \ {t}
  /\ lanes_in_use' = [lanes_in_use EXCEPT ![Home[t]] = SaturatingDec(@)]
  /\ owing' = [owing EXCEPT ![Home[t]] = @ \cup {a}]
  /\ UNCHANGED <<prepares_in_use, waiting, preparer, shutdown, closing>>

(* acquire_prepare is entered.                                             *)
CallPrepare(p) ==
  /\ preparer[p] = "out"
  /\ preparer' = [preparer EXCEPT ![p] = "trying"]
  /\ UNCHANGED <<lanes_in_use, prepares_in_use, waiting, wrapped, owing,
                 shutdown, closing>>

(* One turn of the loop of acquire_prepare, the lock held: refused on      *)
(* shutdown, a permit, or asleep until the next notification.              *)
RefusePrepare(p) ==
  /\ preparer[p] = "trying"
  /\ shutdown
  /\ preparer' = [preparer EXCEPT ![p] = "out"]
  /\ UNCHANGED <<lanes_in_use, prepares_in_use, waiting, wrapped, owing,
                 shutdown, closing>>

HoldPrepare(p) ==
  /\ preparer[p] = "trying"
  /\ ~shutdown
  /\ MayPrepare(Home[p])
  /\ lanes_in_use' = [lanes_in_use EXCEPT ![Home[p]] = @ + 1]
  /\ prepares_in_use' = [prepares_in_use EXCEPT ![Home[p]] = @ + 1]
  /\ preparer' = [preparer EXCEPT ![p] = "holding"]
  /\ UNCHANGED <<waiting, wrapped, owing, shutdown, closing>>

SleepPrepare(p) ==
  /\ preparer[p] = "trying"
  /\ ~shutdown
  /\ ~MayPrepare(Home[p])
  /\ preparer' = [preparer EXCEPT ![p] = "asleep"]
  /\ UNCHANGED <<lanes_in_use, prepares_in_use, waiting, wrapped, owing,
                 shutdown, closing>>

(* Slip: the lane that is handed over is not counted again.                *)
FinishPrepareUncounted(p) ==
  LET b == Home[p]
      next == IF waiting[b] = <<>> THEN {} ELSE {Head(waiting[b])}
  IN /\ preparer[p] = "holding"
     /\ preparer' = [preparer EXCEPT ![p] = "out"]
     /\ prepares_in_use' = [prepares_in_use EXCEPT ![b] = SaturatingDec(@)]
     /\ lanes_in_use' = [lanes_in_use EXCEPT ![b] = SaturatingDec(@)]
     /\ waiting' = [waiting EXCEPT ![b] = IF @ = <<>> THEN @ ELSE Tail(@)]
     /\ wrapped' = wrapped \cup next
     /\ owing' = [owing EXCEPT ![b] = @ \cup {p}]
     /\ UNCHANGED <<shutdown, closing>>

(* Slip: the lane is freed whoever waits.                                  *)
FinishPrepareFrees(p) ==
  LET b == Home[p]
  IN /\ preparer[p] = "holding"
     /\ preparer' = [preparer EXCEPT ![p] = "out"]
     /\ prepares_in_use' = [prepares_in_use EXCEPT ![b] = SaturatingDec(@)]
     /\ lanes_in_use' = [lanes_in_use EXCEPT ![b] = SaturatingDec(@)]
     /\ owing' = [owing EXCEPT ![b] = @ \cup {p}]
     /\ UNCHANGED <<waiting, wrapped, shutdown, closing>>

(* PreparePermit::drop -> finish_prepare: both counts go down and, when a  *)
(* task waits, its head gets the lane.  notify_all follows in either case. *)
FinishPrepare(p) ==
  LET b == Home[p]
      next == IF waiting[b] = <<>> THEN {} ELSE {Head(waiting[b])}
  IN /\ preparer[p] = "holding"
     /\ preparer' = [preparer EXCEPT ![p] = "out"]
     /\ prepares_in_use' = [prepares_in_use EXCEPT ![b] = SaturatingDec(@)]
     /\ lanes_in_use' = [lanes_in_use EXCEPT ![b] =
                           SaturatingDec(@) + (IF next = {} THEN 0 ELSE 1)]
     /\ waiting' = [waiting EXCEPT ![b] = IF @ = <<>> THEN @ ELSE Tail(@)]
     /\ wrapped' = wrapped \cup next
     /\ owing' = [owing EXCEPT ![b] = @ \cup {p}]
     /\ UNCHANGED <<shutdown, closing>>

(* prepare_wake.notify_all by a thread that has freed something.           *)
NotifyPreparers(a, b) ==
  /\ a \in owing[b]
  /\ owing' = [owing EXCEPT ![b] = @ \ {a}]
  /\ preparer' = Wake(b)
  /\ UNCHANGED <<lanes_in_use, prepares_in_use, waiting, wrapped, shutdown,
                 closing>>

(* A condition variable may wake without a notification; the notify_all    *)
(* calls that finish_lane and finish_prepare repeat after a refused        *)
(* submission are no more than this.                                       *)
SpuriousWake(p) ==
  /\ preparer[p] = "asleep"
  /\ preparer' = [preparer EXCEPT ![p] = "trying"]
  /\ UNCHANGED <<lanes_in_use, prepares_in_use, waiting, wrapped, owing,
                 shutdown, closing>>

(* BraidExecutor::shutdown: the flag, then BackendRuntime::shutdown of     *)
(* each backend, which drains `waiting` under the lock and notifies after  *)
(* it has rejected what it drained.                                        *)
SetShutdown ==
  /\ ~shutdown
  /\ shutdown' = TRUE
  /\ UNCHANGED <<lanes_in_use, prepares_in_use, waiting, wrapped, preparer,
                 owing, closing>>

Drain(b) ==
  /\ shutdown
  /\ closing[b] = "open"
  /\ closing' = [closing EXCEPT ![b] = "drained"]
  /\ waiting' = [waiting EXCEPT ![b] = <<>>]
  /\ UNCHANGED <<lanes_in_use, prepares_in_use, wrapped, preparer, owing,
                 shutdown>>

CloseBackend(b) ==
  /\ closing[b] = "drained"
  /\ closing' = [closing EXCEPT ![b] = "closed"]
  /\ preparer' = Wake(b)
  /\ UNCHANGED <<lanes_in_use, prepares_in_use, waiting, wrapped, owing,
                 shutdown>>

FinishLane(t, a) == HandLane(t) \/ FreeLane(t, a)
AcquirePrepare(p) == RefusePrepare(p) \/ HoldPrepare(p) \/ SleepPrepare(p)

(* A worker notifies before it frees another lane.  A preparer may not     *)
(* have: it rejects the task its finish_prepare handed over, when the      *)
(* submission is refused, before it notifies.                              *)
MayFinish(a, b) == a \in Preparers \/ a \notin owing[b]

Next == \/ \E t \in Task : Grant(t) \/ Enqueue(t)
        \/ \E t \in Task, a \in Agents : MayFinish(a, Home[t]) /\ FinishLane(t, a)
        \/ \E p \in Preparers : \/ CallPrepare(p) \/ AcquirePrepare(p)
                                \/ FinishPrepare(p) \/ SpuriousWake(p)
        \/ \E b \in Backends, a \in Agents \cup Preparers : NotifyPreparers(a, b)
        \/ SetShutdown
        \/ \E b \in Backends : Drain(b) \/ CloseBackend(b)

Spec == Init /\ [][Next]_vars

(* What is assumed of the rest of the system: a wrapped task is eventually *)
(* run or rejected, a prepare call eventually returns, and a thread that   *)
(* left the lock gets to its notification.  Nothing makes a caller call.   *)
Fairness ==
  /\ \A t \in Task : WF_vars(\E a \in Agents : MayFinish(a, Home[t]) /\ FinishLane(t, a))
  /\ \A p \in Preparers : WF_vars(AcquirePrepare(p)) /\ WF_vars(FinishPrepare(p))
  /\ \A b \in Backends : /\ \A a \in Agents \cup Preparers : WF_vars(NotifyPreparers(a, b))
                         /\ WF_vars(Drain(b)) /\ WF_vars(CloseBackend(b))

FairSpec == Spec /\ Fairness
-----------------------------------------------------------------------------
TypeOK == /\ lanes_in_use \in [Backends -> Nat]
          /\ prepares_in_use \in [Backends -> Nat]
          /\ waiting \in [Backends -> Seq(Task)]
          /\ wrapped \in SUBSET Task
          /\ preparer \in [Preparers -> {"out", "trying", "asleep", "holding"}]
          /\ owing \in [Backends -> SUBSET (Agents \cup Preparers)]
          /\ shutdown \in BOOLEAN
          /\ closing \in [Backends -> {"open", "drained", "closed"}]

(* The two counters say exactly who holds a lane: every live wrapped task  *)
(* and every prepare permit, so that no path of schedule, finish_lane,     *)
(* finish_prepare, rejection or shutdown leaks or double-frees a lane (and *)
(* saturating_sub never hides one).                                        *)
LanesAccounted == \A b \in Backends :
  /\ lanes_in_use[b] = Cardinality(Wrapped(b)) + Cardinality(Holders(b))
  /\ prepares_in_use[b] = Cardinality(Holders(b))

(* A backend never carries more stage tasks and prepares at once than its  *)
(* lane count, nor more prepares than its prepare-lane count.              *)
LaneBudget == \A b \in Backends :
  /\ Cardinality(Wrapped(b)) + Cardinality(Holders(b)) <= LaneCount(b)
  /\ Cardinality(Holders(b)) <= PrepareLaneCount(b)

(* A task waits only while every lane is taken: a lane is handed over, not *)
(* freed, when somebody waits.                                             *)
WorkConserving == \A b \in Backends :
  waiting[b] # <<>> => lanes_in_use[b] = LaneCount(b)

(* No lost wakeup for prepares: if a sleeping prepare call could be        *)
(* granted, a thread is on its way to notify it.                           *)
NoMissedPrepare == \A p \in Preparers :
  preparer[p] = "asleep" /\ MayPrepare(Home[p]) => owing[Home[p]] # {}

(* Once a backend's shutdown has returned, no prepare call sleeps on it    *)
(* and none can: each finds the flag.                                      *)
ShutdownWakesPreparers == \A p \in Preparers :
  closing[Home[p]] = "closed" => preparer[p] # "asleep"

(* No prepare call sleeps through the moment it could go on: neither a     *)
(* grant nor the end of the backend passes unnoticed (executor.rs:358-366, *)
(* 384-390, 432-436).                                                      *)
PreparersAwake == NoMissedPrepare /\ ShutdownWakesPreparers

(* First come, first served: a task gets a lane either from the head of    *)
(* its backend's `waiting` or when nobody waits there; schedule never      *)
(* overtakes.                                                              *)
NoOvertaking == [][\A t \in wrapped' \ wrapped :
                     \/ waiting[Home[t]] = <<>>
                     \/ t = Head(waiting[Home[t]])]_vars

(* A parked task is eventually given a lane or drained by shutdown.        *)
WaitingIsServed == \A t \in Task : t \in Waiting(Home[t]) ~> t \notin Waiting(Home[t])
=============================================================================
