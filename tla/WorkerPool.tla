----------------------------- MODULE WorkerPool -----------------------------
(***************************************************************************)
(* The worker threads of src/src/executor.rs: the task queue and condition *)
(* variable of ExecutorInner, submit_boxed, worker_loop and the part of    *)
(* BraidExecutor::shutdown that stops the workers.                         *)
(*                                                                         *)
(* The queue mutex is modelled where it matters: a worker that found the   *)
(* queue empty and the shutdown flag unset ("dozing") keeps the mutex      *)
(* until the condition variable puts it to sleep, and shutdown stores the  *)
(* flag and calls notify_all without taking that mutex.                    *)
(***************************************************************************)
EXTENDS Naturals, Sequences, FiniteSets

CONSTANTS
  Workers,     (* the threads of BraidExecutor.workers                     *)
  Outsiders,   (* other threads that submit or shut down                   *)
  Task,        (* boxed tasks                                              *)
  Submitters,  (* the threads that may submit each task                    *)
  None         (* no task, no thread                                       *)

Threads == Workers \cup Outsiders

ASSUME WorkerAssumption == IsFiniteSet(Workers) /\ Workers # {}
ASSUME OutsiderAssumption == IsFiniteSet(Outsiders) /\ Workers \cap Outsiders = {}
ASSUME SubmitAssumption == Submitters \in [Task -> SUBSET Threads]
ASSUME NoneAssumption == None \notin Task /\ None \notin Threads

VARIABLES
  queue,     (* ExecutorInner.queue                                        *)
  shutdown,  (* ExecutorInner.shutdown                                     *)
  worker,    (* where each worker stands in worker_loop                    *)
  cur,       (* the task each worker has popped and not dropped            *)
  submit,    (* where each thread stands in submit_boxed                   *)
  hand,      (* the task each thread is submitting                         *)
  stopping,  (* where BraidExecutor::shutdown stands                       *)
  closer     (* the thread that runs it                                    *)

vars == <<queue, shutdown, worker, cur, submit, hand, stopping, closer>>

Idle     == {w \in Workers : worker[w] = "idle"}
Notified == {th \in Threads : submit[th] = "pushed"}
Queued   == {queue[i] : i \in DOMAIN queue}

QueueLockFree == \A w \in Workers : worker[w] # "dozing"

(* A thread that can submit: a worker while it runs a task, or an outsider.*)
Active(th) == th \in Workers => worker[th] = "busy"

(* A task box has one owner.                                               *)
Unowned(t) == /\ t \notin Queued
              /\ \A th \in Threads : hand[th] # t
              /\ \A w \in Workers : cur[w] # t
-----------------------------------------------------------------------------
Init == /\ queue = <<>>
        /\ shutdown = FALSE
        /\ worker = [w \in Workers |-> "idle"]
        /\ cur = [w \in Workers |-> None]
        /\ submit = [th \in Threads |-> "out"]
        /\ hand = [th \in Threads |-> None]
        /\ stopping = "open"
        /\ closer = None

(* submit_boxed: the flag is read and not set; the push comes later.       *)
Admit(th, t) ==
  /\ Active(th)
  /\ submit[th] = "out"
  /\ Unowned(t)
  /\ ~shutdown
  /\ submit' = [submit EXCEPT ![th] = "admitted"]
  /\ hand' = [hand EXCEPT ![th] = t]
  /\ UNCHANGED <<queue, shutdown, worker, cur, stopping, closer>>

(* submit_boxed: the flag is set, the task goes back to the caller.        *)
Refuse(th, t) ==
  /\ Active(th)
  /\ submit[th] = "out"
  /\ shutdown
  /\ UNCHANGED vars

(* Slip: the push is retried after it has succeeded.                       *)
PushAgain(th) ==
  /\ submit[th] = "admitted"
  /\ QueueLockFree
  /\ queue' = Append(queue, hand[th])
  /\ hand' = [hand EXCEPT ![th] = None]
  /\ UNCHANGED <<shutdown, worker, cur, submit, stopping, closer>>

(* submit_boxed: push_back under the lock.                                 *)
Push(th) ==
  /\ submit[th] = "admitted"
  /\ QueueLockFree
  /\ queue' = Append(queue, hand[th])
  /\ submit' = [submit EXCEPT ![th] = "pushed"]
  /\ hand' = [hand EXCEPT ![th] = None]
  /\ UNCHANGED <<shutdown, worker, cur, stopping, closer>>

(* Slip: the submitter leaves without notifying.                           *)
NotifyNobody(th) ==
  /\ submit[th] = "pushed"
  /\ submit' = [submit EXCEPT ![th] = "out"]
  /\ UNCHANGED <<queue, shutdown, worker, cur, hand, stopping, closer>>

(* submit_boxed: notify_one, the lock released.                            *)
NotifyOne(th) ==
  /\ submit[th] = "pushed"
  /\ submit' = [submit EXCEPT ![th] = "out"]
  /\ \/ \E w \in Workers : /\ worker[w] = "asleep"
                           /\ worker' = [worker EXCEPT ![w] = "idle"]
     \/ /\ \A w \in Workers : worker[w] # "asleep"
        /\ UNCHANGED worker
  /\ UNCHANGED <<queue, shutdown, cur, hand, stopping, closer>>

(* Slip: front for pop_front.                                              *)
TakeAndLeave(w) ==
  /\ worker[w] = "idle"
  /\ QueueLockFree
  /\ queue # <<>>
  /\ cur' = [cur EXCEPT ![w] = Head(queue)]
  /\ worker' = [worker EXCEPT ![w] = "busy"]
  /\ UNCHANGED <<queue, shutdown, submit, hand, stopping, closer>>

(* worker_loop: the head of the queue is popped and run.                   *)
Take(w) ==
  /\ worker[w] = "idle"
  /\ QueueLockFree
  /\ queue # <<>>
  /\ queue' = Tail(queue)
  /\ cur' = [cur EXCEPT ![w] = Head(queue)]
  /\ worker' = [worker EXCEPT ![w] = "busy"]
  /\ UNCHANGED <<shutdown, submit, hand, stopping, closer>>

(* worker_loop: the queue is empty and the flag not set; the worker holds  *)
(* the lock on its way into Condvar::wait ...                              *)
Doze(w) ==
  /\ worker[w] = "idle"
  /\ QueueLockFree
  /\ queue = <<>>
  /\ ~shutdown
  /\ worker' = [worker EXCEPT ![w] = "dozing"]
  /\ UNCHANGED <<queue, shutdown, cur, submit, hand, stopping, closer>>

(* ... which releases the lock and sleeps.                                 *)
FallAsleep(w) ==
  /\ worker[w] = "dozing"
  /\ worker' = [worker EXCEPT ![w] = "asleep"]
  /\ UNCHANGED <<queue, shutdown, cur, submit, hand, stopping, closer>>

(* Slip: the flag is tested before the queue.                              *)
ExitAtOnce(w) ==
  /\ worker[w] = "idle"
  /\ QueueLockFree
  /\ shutdown
  /\ worker' = [worker EXCEPT ![w] = "exited"]
  /\ UNCHANGED <<queue, shutdown, cur, submit, hand, stopping, closer>>

(* worker_loop: the queue is empty and the flag is set.                    *)
Exit(w) ==
  /\ worker[w] = "idle"
  /\ QueueLockFree
  /\ queue = <<>>
  /\ shutdown
  /\ worker' = [worker EXCEPT ![w] = "exited"]
  /\ UNCHANGED <<queue, shutdown, cur, submit, hand, stopping, closer>>

(* Condvar::wait may return without a notification.                        *)
SpuriousWake(w) ==
  /\ worker[w] = "asleep"
  /\ worker' = [worker EXCEPT ![w] = "idle"]
  /\ UNCHANGED <<queue, shutdown, cur, submit, hand, stopping, closer>>

(* task.run() has returned.                                                *)
Finish(w) ==
  /\ worker[w] = "busy"
  /\ submit[w] = "out"
  /\ w = closer => stopping = "joined"
  /\ worker' = [worker EXCEPT ![w] = "idle"]
  /\ cur' = [cur EXCEPT ![w] = None]
  /\ UNCHANGED <<queue, shutdown, submit, hand, stopping, closer>>

(* shutdown(): the flag is swapped in without the queue lock.  A worker    *)
(* calls it only by dropping the last reference to the executor, which     *)
(* every task holds too, so nothing else is then queued, run or submitted. *)
LastOwner(w) == /\ worker[w] = "busy" /\ submit[w] = "out"
                /\ queue = <<>>
                /\ \A v \in Workers \ {w} : worker[v] # "busy"
                /\ \A th \in Outsiders : submit[th] = "out"

BeginShutdown(th) ==
  /\ ~shutdown
  /\ th \in Workers => LastOwner(th)
  /\ th \in Outsiders => submit[th] = "out"
  /\ shutdown' = TRUE
  /\ stopping' = "flagged"
  /\ closer' = th
  /\ UNCHANGED <<queue, worker, cur, submit, hand>>

(* Slip: notify_one for notify_all.                                        *)
NotifyAllButFew ==
  /\ stopping = "flagged"
  /\ stopping' = "notified"
  /\ \/ \E w \in Workers : /\ worker[w] = "asleep"
                           /\ worker' = [worker EXCEPT ![w] = "idle"]
     \/ (\A w \in Workers : worker[w] # "asleep") /\ UNCHANGED worker
  /\ UNCHANGED <<queue, shutdown, cur, submit, hand, closer>>

(* wake.notify_all, again without the queue lock.                          *)
NotifyAll ==
  /\ stopping = "flagged"
  /\ stopping' = "notified"
  /\ worker' = [w \in Workers |-> IF worker[w] = "asleep" THEN "idle" ELSE worker[w]]
  /\ UNCHANGED <<queue, shutdown, cur, submit, hand, closer>>

(* Every worker but the calling thread is joined.                          *)
Join ==
  /\ stopping = "notified"
  /\ \A w \in Workers \ {closer} : worker[w] = "exited"
  /\ stopping' = "joined"
  /\ UNCHANGED <<queue, shutdown, worker, cur, submit, hand, closer>>

Loop(w) == Take(w) \/ Doze(w) \/ FallAsleep(w) \/ Exit(w) \/ Finish(w)

Next == \/ \E t \in Task : \E th \in Submitters[t] : Admit(th, t) \/ Refuse(th, t)
        \/ \E th \in Threads : Push(th) \/ NotifyOne(th) \/ BeginShutdown(th)
        \/ \E w \in Workers : Loop(w) \/ SpuriousWake(w)
        \/ NotifyAll
        \/ Join

Spec == Init /\ [][Next]_vars

(* The operating system runs every thread that can run, and a thread that  *)
(* asks for the queue lock while it is taken and freed again and again     *)
(* gets it one day: strong fairness of the steps that take it.  Nothing    *)
(* makes anyone submit, shut down or wake spuriously.                      *)
Fairness == /\ \A w \in Workers : SF_vars(Loop(w))
            /\ \A th \in Threads : SF_vars(Push(th)) /\ WF_vars(NotifyOne(th))
            /\ WF_vars(NotifyAll) /\ WF_vars(Join)

FairSpec == Spec /\ Fairness
-----------------------------------------------------------------------------
TypeOK ==
  /\ queue \in Seq(Task)
  /\ shutdown \in BOOLEAN
  /\ worker \in [Workers -> {"idle", "dozing", "asleep", "busy", "exited"}]
  /\ cur \in [Workers -> Task \cup {None}]
  /\ submit \in [Threads -> {"out", "admitted", "pushed"}]
  /\ hand \in [Threads -> Task \cup {None}]
  /\ stopping \in {"open", "flagged", "notified", "joined"}
  /\ closer \in Threads \cup {None}

(* No lost wakeup on the submit path: while some worker sleeps (or is on   *)
(* its way to sleep), every queued task has an awake worker on its way to  *)
(* the queue or a submitter that has still to notify one.                  *)
NoSleepOnWork ==
  (\E w \in Workers : worker[w] \in {"dozing", "asleep"})
    => Len(queue) <= Cardinality(Idle) + Cardinality(Notified)

(* The queue mutex: at most one worker is inside the critical section that *)
(* ends in Condvar::wait, and the queue is empty as long as it is.         *)
DozingAlone == \A w \in Workers : worker[w] = "dozing" =>
  queue = <<>> /\ \A v \in Workers : worker[v] = "dozing" => v = w

(* A box is in one place: queued once, in one submitter's hand, or popped  *)
(* by one worker.  No task is run twice.                                   *)
QueuedOnce == \A i, j \in DOMAIN queue : queue[i] = queue[j] => i = j
QueueApart == \A t \in Queued : /\ \A th \in Threads : hand[th] # t
                                /\ \A w \in Workers : cur[w] # t
HandsApart == \A th \in Threads : hand[th] # None =>
  /\ \A u \in Threads \ {th} : hand[u] # hand[th]
  /\ \A w \in Workers : cur[w] # hand[th]
RunApart == \A v, w \in Workers : cur[v] # None /\ v # w => cur[v] # cur[w]

OneOwner == QueuedOnce /\ QueueApart /\ HandsApart /\ RunApart

(* When shutdown returns no worker but the caller runs anything, and what  *)
(* the workers themselves had submitted has been run: a task that is left  *)
(* in the queue came from outside.                                         *)
StoppedMeansDrained ==
  stopping = "joined" =>
    /\ \A w \in Workers \ {closer} : worker[w] = "exited"
    /\ \A t \in Queued : Submitters[t] \cap Outsiders # {}

(* A queued task is popped by a worker unless the executor shuts down.     *)
QueuedIsRun == \A t \in Task : t \in Queued ~> (t \notin Queued \/ shutdown)

(* Shutdown returns whenever no worker was between reading the flag and    *)
(* sleeping at the moment the flag was set.                                *)
StopsUnlessCaughtDozing == stopping = "flagged" /\ QueueLockFree ~> stopping = "joined"

(* "Stop worker threads": a shutdown that has begun returns.               *)
ShutdownReturns == stopping = "flagged" ~> stopping = "joined"
=============================================================================
