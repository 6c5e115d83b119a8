-------------------------- MODULE JobPipeline_proofs --------------------------
(***************************************************************************)
(* Proofs about JobPipeline, for any number of workers, jobs, stages,      *)
(* backends and lanes.  What the pool and the lanes guarantee is not       *)
(* proved again: a step of the pipeline is a step of each or leaves it     *)
(* alone, so that the invariants of WorkerPool_proofs and of               *)
(* BackendRuntime_proofs carry over.  That a step of the pipeline is one   *)
(* of theirs rests in turn on the invariant of the pipeline: a task that   *)
(* is submitted or scheduled has no other owner.                           *)
(*                                                                         *)
(* The invariant of the pipeline is about where the boxes of the jobs are. *)
(* Every job that has not ended is in one place: a box that waits (Boxes)  *)
(* or a thread (Held); whatever was run before lies behind it (Past).      *)
(***************************************************************************)
EXTENDS JobPipeline, FiniteSetTheorems, SequenceTheorems, TLAPS

LanesP == INSTANCE BackendRuntime_proofs WITH Task <- StageTask, Agents <- Workers \cup Preparers
PoolP == INSTANCE WorkerPool_proofs

(* The task a thread is about, from the moment it has it until it has      *)
(* pushed it, parked it or ended its job.                                  *)
Carrying == {"start", "work", "schedule", "submit", "reject", "fail"}
Held == [th \in Threads |-> IF at[th] \in Carrying THEN handling[th] ELSE hand[th]]

QueuedTasks == {queue[i] : i \in DOMAIN queue}
ParkedAt(b) == {waiting[b][i] : i \in DOMAIN waiting[b]}
ParkedTasks == UNION {ParkedAt(b) : b \in Backends}
DrainedTasks == {drained[i] : i \in DOMAIN drained}
Boxes == QueuedTasks \cup ParkedTasks \cup DrainedTasks

Live == {j \in Jobs : Active(j)}

(* What has been run or rejected: popped and past its start, or on its way *)
(* through finish_lane.                                                    *)
Past == {t \in Task : \/ \E w \in Workers : cur[w] = t /\ at[w] \notin {"start", "work"}
                      \/ \E th \in Threads : at[th] = "release" /\ handling[th] = t}

(* Of boxes, of what each thread holds, and of the live jobs: every live   *)
(* job is in one place.                                                    *)
OnePlace(boxes, held, live) ==
  /\ \A t \in boxes : t[1] \in live
  /\ \A t, u \in boxes : t[1] = u[1] => t = u
  /\ \A th \in Threads : held[th] # None /\ held[th][1] \in live =>
       /\ \A t \in boxes : t[1] # held[th][1]
       /\ \A u \in Threads : held[u] # None /\ held[u][1] = held[th][1] => u = th
  /\ \A j \in live : \/ \E t \in boxes : t[1] = j
                     \/ \E th \in Threads : held[th] # None /\ held[th][1] = j

Behind(t, boxes, held, live) ==
  /\ \A u \in boxes : u[1] = t[1] => t[2] < u[2]
  /\ \A th \in Threads : held[th] # None /\ held[th][1] = t[1] /\ t[1] \in live
                           => t[2] < held[th][2]

Order(boxes, held, live, past) ==
  /\ OnePlace(boxes, held, live)
  /\ \A t \in past : Behind(t, boxes, held, live)

(* Where the threads can stand.                                            *)
Places ==
  /\ \A j \in Jobs : /\ at[j] \in {"out", "pushing", "done"}
                     /\ at[j] = "out" <=> status[j] = "absent"
                     /\ status[j] = "refused" => at[j] = "done"
  /\ \A p \in Preparers : /\ at[p] \in {"out", "acquire", "hold", "submit", "pushing", "reject",
                                        "release", "notify", "done"}
                          /\ preparer[p] = "holding" <=> at[p] = "hold"
                          /\ preparer[p] \in {"trying", "asleep"} <=> at[p] = "acquire"
  /\ at[Closer] \in {"out", "closing", "rejecting", "joining", "done"}
  /\ drained # <<>> => at[Closer] = "rejecting"
  /\ \A w \in Workers : /\ at[w] \in {"loop", "start", "work", "schedule", "submit", "pushing",
                                      "reject", "release", "notify", "fail", "finish"}
                        /\ at[w] = "loop" <=> worker[w] # "busy"
                        /\ at[w] = "loop" <=> cur[w] = None
  /\ \A th \in Threads : at[th] = "pushing" <=> submit[th] # "out"
  /\ \A a \in Workers \cup Preparers : at[a] \in {"submit", "reject", "release"} =>
                                         handling[a] \in Task

(* What a worker has in hand inside and outside of a body.  After a        *)
(* refusal the thread may go round once more with a task of another job    *)
(* that finish_lane handed to it; its own job has failed by then.          *)
Bodies == \A w \in Workers :
  /\ at[w] \in {"start", "work", "schedule", "fail"} => w \in inbody
  /\ at[w] \in {"loop", "finish"} => w \notin inbody
  /\ at[w] \in {"start", "work"} => handling[w] = cur[w]
  /\ at[w] = "schedule" => handling[w] \in StageTask /\ handling[w][1] = cur[w][1]
  /\ at[w] = "fail" => handling[w] \in Task /\ handling[w][1] = cur[w][1]
  /\ at[w] \in {"submit", "reject"} /\ w \in inbody =>
       handling[w][1] = cur[w][1] \/ (status[cur[w][1]] = "failed" /\ handling[w] \in StageTask)
  /\ at[w] = "submit" => handling[w][2] > 0
  /\ at[w] \in {"release", "notify"} /\ w \in inbody => status[cur[w][1]] = "failed"

StageWork == \A a \in Workers \cup Preparers :
  \/ at[a] \in {"reject", "release"}
  \/ at[a] = "submit" /\ a \notin inbody
  => handling[a] \in StageTask

(* A task that has not started finds its job as the step before left it.   *)
Ready(t, st, pk) == IF t[2] = 0 THEN st[t[1]] = "queued" /\ pk[t[1]] = "none"
                                ELSE st[t[1]] = "running" /\ pk[t[1]] = "stored"

HeldReady(place, t, st, pk) ==
  \/ place # "work" /\ Ready(t, st, pk)
  \/ place = "work" /\ st[t[1]] = "running" /\ pk[t[1]] = IF IsStage(t) THEN "stored" ELSE "none"
  \/ place = "fail" /\ st[t[1]] = "failed"

PacketsPut == \A j \in Jobs :
  /\ status[j] # "running" => packet[j] \in {"none", "poisoned"}
  /\ status[j] \in {"absent", "refused"} => packet[j] = "none"

Readiness ==
  /\ \A t \in Boxes : Ready(t, status, packet)
  /\ \A th \in Threads : Held[th] # None => HeldReady(at[th], Held[th], status, packet)
  /\ PacketsPut

Begun == \A w \in Workers : cur[w] # None => status[cur[w][1]] \notin {"absent", "refused"}
Released == \A th \in Threads : at[th] = "release" => 
               status[handling[th][1]] \notin {"absent", "refused"}

(* A task whose lane is being passed on is nobody else's.                  *)
ReleasedOnce == \A th \in Threads : at[th] = "release" =>
  /\ \A u \in Threads : at[u] = "release" /\ handling[u] = handling[th] => u = th
  /\ \A w \in Workers : cur[w] = handling[th] => w = th /\ w \notin inbody

LaneOwner(t) == \/ t \in QueuedTasks
                \/ \E th \in Threads : hand[th] = t
                \/ \E th \in Threads : handling[th] = t /\ at[th] \in {"submit", "reject", "release"}
                \/ \E w \in inbody : cur[w] = t

WrappedOwned == \A t \in StageTask : t \in wrapped <=> LaneOwner(t)

(* A worker owes one notification at most, and gives it before it goes on. *)
OwingOnce == \A w \in Workers, b \in Backends : w \in owing[b] =>
  at[w] = "notify" /\ \A c \in Backends : w \in owing[c] => c = b

DrainedApart ==
  /\ \A i, k \in DOMAIN drained : drained[i] = drained[k] => i = k
  /\ DrainedTasks \cap (wrapped \cup ParkedTasks) = {}

JInv == /\ TypeOK
        /\ LanesP!Inv
        /\ PoolP!Inv
        /\ Places /\ Bodies /\ StageWork
        /\ Order(Boxes, Held, Live, Past)
        /\ Readiness
        /\ Begun /\ Released
        /\ ReleasedOnce
        /\ WrappedOwned
        /\ OwingOnce
        /\ DrainedApart

(* ---------------------------------------------------------------------- *)
(* Tasks, and the assumptions under which the proofs of the lanes and of   *)
(* the pool are used.                                                      *)
LEMMA Tasks ==
  /\ \A t \in Task : /\ t = <<t[1], t[2]>> /\ t[1] \in Jobs
                     /\ t[2] \in Nat /\ t[2] <= Stages[t[1]] + 1
                     /\ Stages[t[1]] \in Nat
                     /\ t # None
  /\ \A j \in Jobs, k \in Nat : k <= Stages[j] + 1 => <<j, k>> \in Task
  /\ \A t \in Task : ~IsDecode(t) => Successor(t) \in Task
  /\ \A t \in StageTask : t \in Task /\ ~IsDecode(t) /\ t[2] > 0
  /\ \A t \in Task : t[2] > 0 /\ ~IsDecode(t) => t \in StageTask
  <1>1. \A t \in Task : \E j \in Jobs : \E k \in 0..(Stages[j] + 1) : t = <<j, k>>
    BY DEF Task
  <1>2. \A j \in Jobs : Stages[j] \in Nat
    BY StageAssumption
  <1>3. \A j \in Jobs : \A k \in 0..(Stages[j] + 1) : <<j, k>> \in Task
    BY DEF Task
  <1>4. \A t \in Task : /\ t = <<t[1], t[2]>> /\ t[1] \in Jobs
                        /\ t[2] \in 0..(Stages[t[1]] + 1)
    BY <1>1
  <1>5. \A t \in Task : t # None
    BY ApartAssumption
  <1>6. \A j \in Jobs, k \in Nat : k <= Stages[j] + 1 => k \in 0..(Stages[j] + 1)
    BY <1>2
  <1>7. \A t \in Task : ~IsDecode(t) => t[2] + 1 \in 0..(Stages[t[1]] + 1)
    BY <1>2, <1>4 DEF IsDecode
  <1>8. \A t \in Task : ~IsDecode(t) => Successor(t) \in Task
    BY <1>3, <1>4, <1>7 DEF Successor
  <1>9. \A t \in StageTask : t \in Task /\ ~IsDecode(t) /\ t[2] > 0
    BY <1>2, <1>4 DEF StageTask, IsStage, IsDecode
  <1>10. \A t \in Task : t[2] > 0 /\ ~IsDecode(t) => t \in StageTask
    BY <1>2, <1>4 DEF StageTask, IsStage, IsDecode
  <1> QED BY <1>2, <1>3, <1>4, <1>5, <1>6, <1>8, <1>9, <1>10

(* The threads, each with one part to play.                                *)
LEMMA ThreadSets ==
  /\ Workers \subseteq Threads /\ Jobs \subseteq Threads /\ Preparers \subseteq Threads
  /\ Closer \in Threads /\ Closer \notin Workers
  /\ Workers \cap Jobs = {} /\ Workers \cap Preparers = {} /\ Jobs \cap Preparers = {}
  /\ Closer \notin Jobs /\ Closer \notin Preparers
  /\ \A th \in Threads : th # None
  /\ \A th \in Threads : th \in Workers \/ th \in Jobs \/ th \in Preparers \/ th = Closer
  BY ApartAssumption DEF Threads, Outsiders

(* What BackendRuntime assumes of its constants holds of stage tasks.      *)
LEMMA LanesApply == LanesP!HomeAssumption /\ LanesP!LaneAssumption /\ LanesP!ThreadAssumption
  <1>1. \A t \in StageTask : JobBackend[t[1]] \in Backends
    BY Tasks, BackendAssumption
  <1>2. LanesP!HomeAssumption
    BY <1>1, BackendAssumption DEF LanesP!HomeAssumption, Home
  <1>3. LanesP!LaneAssumption
    BY LaneAssumption DEF LanesP!LaneAssumption
  <1>4. LanesP!ThreadAssumption
    BY FiniteAssumption DEF LanesP!ThreadAssumption, LanesP!IsFiniteSet, IsFiniteSet
  <1> QED BY <1>2, <1>3, <1>4

(* What WorkerPool assumes of its constants holds of all tasks.            *)
LEMMA PoolApplies ==
  PoolP!WorkerAssumption /\ PoolP!OutsiderAssumption /\ PoolP!SubmitAssumption
    /\ PoolP!NoneAssumption
  <1>1. PoolP!WorkerAssumption
    BY FiniteAssumption DEF PoolP!WorkerAssumption, PoolP!IsFiniteSet, IsFiniteSet
  <1>2. IsFiniteSet(Outsiders)
    BY FiniteAssumption, FS_Union, FS_AddElement DEF Outsiders
  <1>3. PoolP!OutsiderAssumption
    BY <1>2, ApartAssumption DEF PoolP!OutsiderAssumption, PoolP!IsFiniteSet, IsFiniteSet
  <1>4. PoolP!SubmitAssumption
    BY Tasks, ThreadSets DEF PoolP!SubmitAssumption, Submitters, PoolP!Threads, Threads
  <1>5. PoolP!NoneAssumption
    BY ApartAssumption DEF PoolP!NoneAssumption, PoolP!Threads, Threads
  <1> QED BY <1>1, <1>3, <1>4, <1>5

(* ---------------------------------------------------------------------- *)
(* What a step may do to the places of the jobs.                           *)
TokenTypes(boxes, held, live, past) == /\ boxes \subseteq Task
                                       /\ held \in [Threads -> Task \cup {None}]
                                       /\ live \subseteq Jobs
                                       /\ past \subseteq Task

(* submit_boxed pushes, schedule parks: what was held becomes a box.       *)
LEMMA PutDown ==
  ASSUME NEW B, NEW H, NEW A, NEW P, TokenTypes(B, H, A, P), Order(B, H, A, P),
         NEW th \in Threads, H[th] # None, H[th][1] \in A
  PROVE  Order(B \cup {H[th]}, [H EXCEPT ![th] = None], A, P)
  <1> DEFINE C == B \cup {H[th]}
             G == [H EXCEPT ![th] = None]
  <1>1. /\ G[th] = None
        /\ \A u \in Threads : u # th => G[u] = H[u]
        /\ H[th] \in Task
    BY DEF TokenTypes
  <1>2. \A t \in C : t \in B \/ t = H[th]
    OBVIOUS
  <1> HIDE DEF G, C
  <1>3. OnePlace(C, G, A)
    BY <1>1, <1>2 DEF OnePlace, Order, C
  <1>4. \A t \in P : Behind(t, C, G, A)
    BY <1>1, <1>2 DEF Behind, Order, OnePlace
  <1> QED BY <1>3, <1>4 DEF Order, G, C

(* worker_loop pops, finish_lane hands over: a box is held.                *)
LEMMA PickUp ==
  ASSUME NEW B, NEW H, NEW A, NEW P, TokenTypes(B, H, A, P), Order(B, H, A, P),
         NEW th \in Threads, H[th] = None, NEW t \in B
  PROVE  Order(B \ {t}, [H EXCEPT ![th] = t], A, P)
  <1> DEFINE C == B \ {t}
             G == [H EXCEPT ![th] = t]
  <1>1. /\ G[th] = t
        /\ \A u \in Threads : u # th => G[u] = H[u]
        /\ t \in Task /\ t # None
    BY Tasks DEF TokenTypes
  <1>2. \A u \in C : u \in B /\ u # t
    OBVIOUS
  <1>5. \A u \in B : u \in C \/ u = t
    OBVIOUS
  <1> HIDE DEF G, C
  <1>3. OnePlace(C, G, A)
    BY <1>1, <1>2, <1>5 DEF OnePlace, Order
  <1>4. \A u \in P : Behind(u, C, G, A)
    BY <1>1, <1>2 DEF Behind, Order, OnePlace
  <1> QED BY <1>3, <1>4 DEF Order, G, C

(* The step of a job is done and the next one is held instead.             *)
LEMMA Advance ==
  ASSUME NEW B, NEW H, NEW A, NEW P, TokenTypes(B, H, A, P), Order(B, H, A, P),
         NEW th \in Threads, H[th] # None, H[th][1] \in A, Successor(H[th]) \in Task
  PROVE  Order(B, [H EXCEPT ![th] = Successor(H[th])], A, P \cup {H[th]})
  <1> DEFINE G == [H EXCEPT ![th] = Successor(H[th])]
             n == Successor(H[th])
  <1>1. /\ G[th] = n
        /\ \A u \in Threads : u # th => G[u] = H[u]
        /\ H[th] \in Task /\ n # None
        /\ n[1] = H[th][1] /\ n[2] = H[th][2] + 1 /\ H[th][2] \in Nat
    BY Tasks DEF TokenTypes, Successor
  <1>2. \A u \in P : u[2] \in Nat
    BY Tasks DEF TokenTypes
  <1> HIDE DEF G, n
  <1>3. OnePlace(B, G, A)
    BY <1>1 DEF OnePlace, Order
  <1>4. \A t \in P : Behind(t, B, G, A)
    <2> SUFFICES ASSUME NEW t \in P
                 PROVE  Behind(t, B, G, A)
      OBVIOUS
    <2>1. \A u \in Threads : H[u] # None /\ H[u][1] = t[1] /\ t[1] \in A => t[2] < H[u][2]
      BY DEF Order, Behind
    <2>2. \A u \in Threads : G[u] # None /\ G[u][1] = t[1] /\ t[1] \in A => t[2] < G[u][2]
      BY <1>1, <1>2, <2>1
    <2> QED BY <2>2 DEF Order, Behind
  <1>5. Behind(H[th], B, G, A)
    BY <1>1 DEF Behind, Order, OnePlace
  <1> QED BY <1>3, <1>4, <1>5 DEF Order, G, n

(* finish_failed, finish_cancelled, finish_completed: the job of what is   *)
(* held ends, whatever of it has been run is past.                         *)
LEMMA EndHeld ==
  ASSUME NEW B, NEW H, NEW A, NEW P, TokenTypes(B, H, A, P), Order(B, H, A, P),
         NEW th \in Threads, H[th] # None, NEW t \in Task, t[1] = H[th][1]
  PROVE  Order(B, [H EXCEPT ![th] = None], A \ {t[1]}, P \cup {t})
  <1> DEFINE G == [H EXCEPT ![th] = None]
             L == A \ {t[1]}
  <1>1. /\ G[th] = None
        /\ \A u \in Threads : u # th => G[u] = H[u]
    BY DEF TokenTypes
  <1>2. \A u \in B : u[1] # t[1]
    BY DEF Order, OnePlace
  <1>6. \A u \in Threads : H[u] # None /\ H[u][1] \in L => u # th
    OBVIOUS
  <1>7. \A j \in L : j \in A /\ j # t[1]
    OBVIOUS
  <1>8. t[1] \notin L
    OBVIOUS
  <1>9. \A u \in B : u[1] \in L
    BY <1>2 DEF Order, OnePlace
  <1> HIDE DEF G, L
  <1>3. OnePlace(B, G, L)
    BY <1>1, <1>6, <1>7, <1>9 DEF OnePlace, Order
  <1>4. \A u \in P : Behind(u, B, G, L)
    BY <1>1, <1>7 DEF Behind, Order
  <1>5. Behind(t, B, G, L)
    BY <1>2, <1>8 DEF Behind
  <1> QED BY <1>3, <1>4, <1>5 DEF Order, G, L

(* reject_scheduled_task of a drained task: the job ends with its box.     *)
LEMMA EndBox ==
  ASSUME NEW B, NEW H, NEW A, NEW P, TokenTypes(B, H, A, P), Order(B, H, A, P),
         NEW t \in B
  PROVE  Order(B \ {t}, H, A \ {t[1]}, P)
  <1> DEFINE C == B \ {t}
             L == A \ {t[1]}
  <1>1. \A u \in C : u \in B /\ u # t
    OBVIOUS
  <1>2. \A u \in B : u \in C \/ u = t
    OBVIOUS
  <1>3. \A j \in L : j \in A /\ j # t[1]
    OBVIOUS
  <1>4. \A u \in C : u[1] \in L
    BY DEF Order, OnePlace
  <1> HIDE DEF C, L
  <1>5. OnePlace(C, H, L)
    BY <1>1, <1>2, <1>3, <1>4 DEF OnePlace, Order
  <1>6. \A u \in P : Behind(u, C, H, L)
    BY <1>1, <1>3 DEF Behind, Order
  <1> QED BY <1>5, <1>6 DEF Order, C, L

(* dispatch: a new job is held by the thread that submits its first task.  *)
LEMMA Enter ==
  ASSUME NEW B, NEW H, NEW A, NEW P, TokenTypes(B, H, A, P), Order(B, H, A, P),
         NEW th \in Threads, H[th] = None, NEW t \in Task, t[1] \notin A,
         \A u \in P : u[1] # t[1],
         \A u \in Threads : H[u] # None => H[u][1] # t[1]
  PROVE  Order(B, [H EXCEPT ![th] = t], A \cup {t[1]}, P)
  <1> DEFINE G == [H EXCEPT ![th] = t]
             L == A \cup {t[1]}
  <1>1. /\ G[th] = t
        /\ \A u \in Threads : u # th => G[u] = H[u]
        /\ t # None
    BY Tasks DEF TokenTypes
  <1>2. \A j \in L : j \in A \/ j = t[1]
    OBVIOUS
  <1>3. \A u \in B : u[1] \in L /\ u[1] # t[1]
    BY DEF Order, OnePlace
  <1> HIDE DEF G, L
  <1>4. OnePlace(B, G, L)
    BY <1>1, <1>2, <1>3 DEF OnePlace, Order
  <1>5. \A u \in P : Behind(u, B, G, L)
    BY <1>1, <1>2 DEF Behind, Order
  <1> QED BY <1>4, <1>5 DEF Order, G, L

(* A body that fails after its job has ended is about the job again.       *)
LEMMA Return ==
  ASSUME NEW B, NEW H, NEW A, NEW P, TokenTypes(B, H, A, P), Order(B, H, A, P),
         NEW th \in Threads, H[th] = None, NEW t \in Task, t[1] \notin A
  PROVE  Order(B, [H EXCEPT ![th] = t], A, P)
  <1> DEFINE G == [H EXCEPT ![th] = t]
  <1>1. /\ G[th] = t
        /\ \A u \in Threads : u # th => G[u] = H[u]
    BY DEF TokenTypes
  <1> HIDE DEF G
  <1>2. OnePlace(B, G, A)
    BY <1>1 DEF OnePlace, Order
  <1>3. \A u \in P : Behind(u, B, G, A)
    BY <1>1 DEF Behind, Order
  <1> QED BY <1>2, <1>3 DEF Order, G

(* Whoever forgets what is past knows the rest still.                      *)
LEMMA Forget ==
  ASSUME NEW B, NEW H, NEW A, NEW P, Order(B, H, A, P), NEW Q, Q \subseteq P
  PROVE  Order(B, H, A, Q)
  BY DEF Order

(* ---------------------------------------------------------------------- *)
(* Every step of the pipeline is a step of the pool and of the lanes, or   *)
(* leaves them alone.                                                      *)
LEMMA NextCases ==
  ASSUME Next
  PROVE  \/ \E j \in Jobs : Dispatch(j) \/ DispatchRefused(j) \/ Cancel(j)
         \/ \E th \in Threads : Submission(th)
         \/ \E w \in Workers : Idle(w) \/ SpuriousWake(w) \/ Take(w) \/ Finish(w) \/ Body(w)
         \/ \E p \in Preparers : \/ CallPrepare(p) \/ AcquirePrepare(p) \/ SpuriousPrepare(p)
                                 \/ FinishPrepare(p)
         \/ BeginShutdown \/ RejectDrained \/ NotifyAll \/ Join
         \/ \E b \in Backends : Drain(b) \/ CloseBackend(b)
  BY ThreadSets DEF Next, WorkerStep, PrepareStep, CloseStep

(* Only workers and preparers submit other tasks than a first one.         *)
LEMMA SubmittersAre ==
  ASSUME JInv, NEW th \in Threads, at[th] \in {"submit", "reject", "release"}
  PROVE  /\ th \in Workers \cup Preparers
         /\ handling[th] \in Task
         /\ at[th] = "submit" => th \in Submitters[handling[th]]
         /\ at[th] # "submit" => handling[th] \in StageTask
  <1>1. th \in Workers \cup Preparers
    BY ThreadSets DEF JInv, Places
  <1>2. handling[th] \in Task
    BY <1>1 DEF JInv, Places
  <1>3. at[th] # "submit" => handling[th] \in StageTask
    BY <1>1 DEF JInv, StageWork
  <1>4. CASE th \in Workers
    <2>1. at[th] = "submit" => handling[th][2] > 0
      BY <1>4 DEF JInv, Bodies
    <2> QED BY <1>1, <1>2, <1>3, <1>4, <2>1 DEF Submitters
  <1>5. CASE th \in Preparers
    <2>1. th \notin inbody
      BY <1>5, ThreadSets DEF JInv, TypeOK
    <2>2. handling[th] \in StageTask
      BY <1>5, <2>1, <1>3 DEF JInv, StageWork
    <2> QED BY <1>1, <1>2, <1>5, <2>2, Tasks DEF Submitters
  <1> QED BY <1>1, <1>4, <1>5

LEMMA PoolStep == ASSUME JInv, [Next]_vars PROVE [Pool!Next]_(Pool!vars)
  <1> USE DEF Pool!Threads, Threads
  <1>1. ASSUME NEW j \in Jobs, Dispatch(j) \/ DispatchRefused(j) \/ Cancel(j)
        PROVE  [Pool!Next]_(Pool!vars)
    <2>1. <<j, 0>> \in Task /\ Submitters[<<j, 0>>] = {j}
      BY Tasks, StageAssumption DEF Submitters
    <2>2. CASE Cancel(j)
      BY <2>2 DEF Cancel, JobsOnly, poolVars, Pool!vars
    <2> QED BY <1>1, <2>1, <2>2 DEF Dispatch, DispatchRefused, Pool!Next
  <1>2. ASSUME NEW th \in Threads, Submission(th) PROVE [Pool!Next]_(Pool!vars)
    <2>1. CASE Admit(th) \/ Refused(th)
      <3>1. handling[th] \in Task /\ th \in Submitters[handling[th]]
        BY <2>1, SubmittersAre DEF Admit, Refused
      <3> QED BY <2>1, <3>1 DEF Admit, Refused, Pool!Next
    <2>2. CASE Push(th) \/ Pushed(th)
      BY <2>2 DEF Push, Pushed, Pool!Next
    <2>3. CASE Reject(th)
      BY <2>3 DEF Reject, JobsOnly, poolVars, Pool!vars
    <2>4. CASE HandLane(th) \/ FreeLane(th) \/ NotifyPreparers(th)
      BY <2>4 DEF HandLane, FreeLane, NotifyPreparers, LanesOnly, poolVars, Pool!vars,
                  Lanes!HandLane, Lanes!FreeLane, Lanes!NotifyPreparers
    <2> QED BY <1>2, <2>1, <2>2, <2>3, <2>4 DEF Submission
  <1>3. ASSUME NEW w \in Workers, Idle(w) \/ SpuriousWake(w) \/ Take(w) \/ Finish(w)
        PROVE  [Pool!Next]_(Pool!vars)
    BY <1>3 DEF Idle, SpuriousWake, Take, Finish, Pool!Next, Pool!Loop
  <1>4. ASSUME NEW w \in Workers, Body(w) PROVE [Pool!Next]_(Pool!vars)
    <2>1. CASE ScheduleNow(w) \/ ScheduleLater(w)
      BY <2>1 DEF ScheduleNow, ScheduleLater, LanesOnly, poolVars, Pool!vars,
                  Lanes!Grant, Lanes!Enqueue
    <2>2. CASE JobsOnly
      BY <2>2 DEF JobsOnly, poolVars, Pool!vars
    <2> QED BY <1>4, <2>1, <2>2
            DEF Body, StartCancelled, Start, StepDone, DecodeDone, StepFails, StagePanics,
                StageCancelled, BodyFails
  <1>5. ASSUME NEW p \in Preparers, \/ CallPrepare(p) \/ AcquirePrepare(p)
                                    \/ SpuriousPrepare(p) \/ FinishPrepare(p)
        PROVE  [Pool!Next]_(Pool!vars)
    BY <1>5 DEF CallPrepare, AcquirePrepare, SpuriousPrepare, FinishPrepare, LanesOnly, poolVars,
                Pool!vars, Lanes!CallPrepare, Lanes!RefusePrepare, Lanes!HoldPrepare,
                Lanes!SleepPrepare, Lanes!SpuriousWake, Lanes!FinishPrepare
  <1>6. CASE BeginShutdown \/ NotifyAll \/ Join
    BY <1>6, ThreadSets DEF BeginShutdown, NotifyAll, Join, Pool!Next
  <1>7. CASE RejectDrained
    BY <1>7 DEF RejectDrained, JobsOnly, poolVars, Pool!vars
  <1>8. ASSUME NEW b \in Backends, Drain(b) \/ CloseBackend(b) PROVE [Pool!Next]_(Pool!vars)
    BY <1>8 DEF Drain, CloseBackend, LanesOnly, poolVars, Pool!vars, Lanes!Drain,
                Lanes!CloseBackend
  <1>9. CASE UNCHANGED vars
    BY <1>9 DEF vars, poolVars, Pool!vars
  <1> QED BY <1>1, <1>2, <1>3, <1>4, <1>5, <1>6, <1>7, <1>8, <1>9, NextCases

LEMMA LaneStep == ASSUME JInv, [Next]_vars PROVE [Lanes!Next]_(Lanes!vars)
  <1>1. ASSUME NEW j \in Jobs, Dispatch(j) \/ DispatchRefused(j) \/ Cancel(j)
        PROVE  UNCHANGED Lanes!vars
    BY <1>1 DEF Dispatch, DispatchRefused, Cancel, PoolOnly, JobsOnly, laneVars, Lanes!vars,
                Pool!Admit, Pool!Refuse, Pool!vars
  <1>2. ASSUME NEW th \in Threads, Submission(th) PROVE [Lanes!Next]_(Lanes!vars)
    <2>1. CASE Admit(th) \/ Refused(th) \/ Push(th) \/ Pushed(th)
      BY <2>1 DEF Admit, Refused, Push, Pushed, PoolOnly, laneVars, Lanes!vars,
                  Pool!Admit, Pool!Refuse, Pool!Push, Pool!NotifyOne, Pool!vars
    <2>2. CASE Reject(th)
      BY <2>2 DEF Reject, JobsOnly, laneVars, Lanes!vars
    <2>3. CASE HandLane(th) \/ FreeLane(th)
      <3>1. /\ at[th] = "release"
            /\ Lanes!FinishLane(handling[th], th)
        BY <2>3 DEF HandLane, FreeLane, Lanes!FinishLane
      <3>2. th \in Workers \cup Preparers /\ handling[th] \in StageTask
        BY <3>1, SubmittersAre
      <3>3. Home[handling[th]] \in Backends
        BY <3>2, LanesApply DEF LanesP!HomeAssumption
      <3>4. Lanes!MayFinish(th, Home[handling[th]])
        BY <3>1, <3>2, <3>3 DEF Lanes!MayFinish, JInv, OwingOnce
      <3> QED BY <3>1, <3>2, <3>4 DEF Lanes!Next
    <2>4. CASE NotifyPreparers(th)
      <3>1. PICK b \in Backends : Lanes!NotifyPreparers(th, b)
        BY <2>4 DEF NotifyPreparers
      <3>2. th \in Workers \cup Preparers
        <4>1. th \in owing[b]
          BY <3>1 DEF Lanes!NotifyPreparers
        <4> QED BY <4>1 DEF JInv, LanesP!Inv, LanesP!TypeOK
      <3> QED BY <3>1, <3>2 DEF Lanes!Next
    <2> QED BY <1>2, <2>1, <2>2, <2>3, <2>4 DEF Submission
  <1>3. ASSUME NEW w \in Workers, Idle(w) \/ SpuriousWake(w) \/ Take(w) \/ Finish(w)
        PROVE  UNCHANGED Lanes!vars
    BY <1>3 DEF Idle, SpuriousWake, Take, Finish, PoolOnly, laneVars, Lanes!vars, Pool!Doze,
                Pool!FallAsleep, Pool!Exit, Pool!SpuriousWake, Pool!Take, Pool!Finish
  <1>4. ASSUME NEW w \in Workers, Body(w) PROVE [Lanes!Next]_(Lanes!vars)
    <2>1. CASE ScheduleNow(w) \/ ScheduleLater(w)
      <3>1. handling[w] \in StageTask
        BY <2>1 DEF ScheduleNow, ScheduleLater, JInv, Bodies
      <3> QED BY <2>1, <3>1 DEF ScheduleNow, ScheduleLater, Lanes!Next
    <2>2. CASE JobsOnly
      BY <2>2 DEF JobsOnly, laneVars, Lanes!vars
    <2> QED BY <1>4, <2>1, <2>2
            DEF Body, StartCancelled, Start, StepDone, DecodeDone, StepFails, StagePanics,
                StageCancelled, BodyFails
  <1>5. ASSUME NEW p \in Preparers, \/ CallPrepare(p) \/ AcquirePrepare(p)
                                    \/ SpuriousPrepare(p) \/ FinishPrepare(p)
        PROVE  [Lanes!Next]_(Lanes!vars)
    BY <1>5 DEF CallPrepare, AcquirePrepare, SpuriousPrepare, FinishPrepare, Lanes!Next,
                Lanes!AcquirePrepare
  <1>6. CASE BeginShutdown
    BY <1>6 DEF BeginShutdown, Lanes!Next
  <1>7. CASE NotifyAll \/ Join \/ RejectDrained
    BY <1>7 DEF NotifyAll, Join, RejectDrained, JobsOnly, PoolOnly, laneVars, Lanes!vars,
                Pool!NotifyAll, Pool!Join
  <1>8. ASSUME NEW b \in Backends, Drain(b) \/ CloseBackend(b) PROVE [Lanes!Next]_(Lanes!vars)
    BY <1>8 DEF Drain, CloseBackend, Lanes!Next
  <1>9. CASE UNCHANGED vars
    BY <1>9 DEF vars, laneVars, Lanes!vars
  <1> QED BY <1>1, <1>2, <1>3, <1>4, <1>5, <1>6, <1>7, <1>8, <1>9, NextCases

(* The modules of the proofs define the same steps.                        *)
LEMMA SamePool == [Pool!Next]_(Pool!vars) => [PoolP!Next]_(PoolP!vars)
  <1>1. Pool!vars = PoolP!vars /\ Pool!vars' = PoolP!vars'
    BY DEF Pool!vars, PoolP!vars
  <1>2. \A t \in Task : \A th \in Submitters[t] :
          Pool!Admit(th, t) \/ Pool!Refuse(th, t) => PoolP!Admit(th, t) \/ PoolP!Refuse(th, t)
    BY DEF Pool!Admit, PoolP!Admit, Pool!Refuse, PoolP!Refuse, Pool!Active, PoolP!Active,
           Pool!Unowned, PoolP!Unowned, Pool!Queued, PoolP!Queued, Pool!Threads, PoolP!Threads,
           Pool!vars, PoolP!vars
  <1>3. \A th \in Pool!Threads :
          /\ th \in PoolP!Threads
          /\ Pool!Push(th) => PoolP!Push(th)
          /\ Pool!NotifyOne(th) => PoolP!NotifyOne(th)
          /\ Pool!BeginShutdown(th) => PoolP!BeginShutdown(th)
    BY DEF Pool!Push, PoolP!Push, Pool!NotifyOne, PoolP!NotifyOne, Pool!BeginShutdown,
           PoolP!BeginShutdown, Pool!LastOwner, PoolP!LastOwner, Pool!QueueLockFree,
           PoolP!QueueLockFree, Pool!Threads, PoolP!Threads
  <1>4. \A w \in Workers : Pool!Loop(w) \/ Pool!SpuriousWake(w)
                             => PoolP!Loop(w) \/ PoolP!SpuriousWake(w)
    BY DEF Pool!Loop, PoolP!Loop, Pool!Take, PoolP!Take, Pool!Doze, PoolP!Doze,
           Pool!FallAsleep, PoolP!FallAsleep, Pool!Exit, PoolP!Exit, Pool!Finish, PoolP!Finish,
           Pool!SpuriousWake, PoolP!SpuriousWake, Pool!QueueLockFree, PoolP!QueueLockFree
  <1>5. (Pool!NotifyAll => PoolP!NotifyAll) /\ (Pool!Join => PoolP!Join)
    BY DEF Pool!NotifyAll, PoolP!NotifyAll, Pool!Join, PoolP!Join
  <1>6. Pool!Next => PoolP!Next
    BY <1>2, <1>3, <1>4, <1>5 DEF Pool!Next, PoolP!Next
  <1> QED BY <1>1, <1>6

LEMMA SameLanes == [Lanes!Next]_(Lanes!vars) => [LanesP!Next]_(LanesP!vars)
  <1>1. Lanes!vars = LanesP!vars /\ Lanes!vars' = LanesP!vars'
    BY DEF Lanes!vars, LanesP!vars
  <1>2. \A b \in Backends : /\ Lanes!LaneCount(b) = LanesP!LaneCount(b)
                            /\ Lanes!PrepareLaneCount(b) = LanesP!PrepareLaneCount(b)
                            /\ Lanes!MayPrepare(b) = LanesP!MayPrepare(b)
                            /\ Lanes!Wake(b) = LanesP!Wake(b)
    BY DEF Lanes!LaneCount, LanesP!LaneCount, Lanes!PrepareLaneCount, LanesP!PrepareLaneCount,
           Lanes!AtLeastOne, LanesP!AtLeastOne, Lanes!MayPrepare, LanesP!MayPrepare, Lanes!Wake,
           LanesP!Wake
  <1>3. \A x \in StageTask \cup Preparers : Home[x] \in Backends
    BY LanesApply DEF LanesP!HomeAssumption
  <1>4. \A t \in StageTask : Lanes!Grant(t) \/ Lanes!Enqueue(t)
                               => LanesP!Grant(t) \/ LanesP!Enqueue(t)
    BY <1>2, <1>3 DEF Lanes!Grant, LanesP!Grant, Lanes!Enqueue, LanesP!Enqueue, Lanes!Waiting,
                      LanesP!Waiting
  <1>5. \A t \in StageTask, a \in Workers \cup Preparers :
          Lanes!MayFinish(a, Home[t]) /\ Lanes!FinishLane(t, a)
            => LanesP!MayFinish(a, Home[t]) /\ LanesP!FinishLane(t, a)
    BY DEF Lanes!MayFinish, LanesP!MayFinish, Lanes!FinishLane, LanesP!FinishLane,
           Lanes!HandLane, LanesP!HandLane, Lanes!FreeLane, LanesP!FreeLane,
           Lanes!SaturatingDec, LanesP!SaturatingDec
  <1>6. \A p \in Preparers :
          Lanes!CallPrepare(p) \/ Lanes!AcquirePrepare(p) \/ Lanes!SpuriousWake(p)
            => LanesP!CallPrepare(p) \/ LanesP!AcquirePrepare(p) \/ LanesP!SpuriousWake(p)
    BY <1>2, <1>3 DEF Lanes!CallPrepare, LanesP!CallPrepare, Lanes!AcquirePrepare,
           LanesP!AcquirePrepare, Lanes!RefusePrepare, LanesP!RefusePrepare, Lanes!HoldPrepare,
           LanesP!HoldPrepare, Lanes!SleepPrepare, LanesP!SleepPrepare, Lanes!SpuriousWake,
           LanesP!SpuriousWake
  <1>7. \A p \in Preparers : Lanes!FinishPrepare(p) => LanesP!FinishPrepare(p)
    BY DEF Lanes!FinishPrepare, LanesP!FinishPrepare, Lanes!SaturatingDec, LanesP!SaturatingDec
  <1>8. \A b \in Backends :
          /\ \A a \in (Workers \cup Preparers) \cup Preparers :
               Lanes!NotifyPreparers(a, b) => LanesP!NotifyPreparers(a, b)
          /\ Lanes!Drain(b) => LanesP!Drain(b)
          /\ Lanes!CloseBackend(b) => LanesP!CloseBackend(b)
    BY <1>2 DEF Lanes!NotifyPreparers, LanesP!NotifyPreparers, Lanes!Drain, LanesP!Drain,
                Lanes!CloseBackend, LanesP!CloseBackend
  <1>9. Lanes!SetShutdown => LanesP!SetShutdown
    BY DEF Lanes!SetShutdown, LanesP!SetShutdown
  <1>10. Lanes!Next => LanesP!Next
    BY <1>4, <1>5, <1>6, <1>7, <1>8, <1>9 DEF Lanes!Next, LanesP!Next
  <1> QED BY <1>1, <1>10

LEMMA PartsInv == ASSUME JInv, [Next]_vars PROVE PoolP!Inv' /\ LanesP!Inv'
  <1>1. PoolP!Inv'
    BY PoolStep, SamePool, PoolApplies, PoolP!StepInv DEF JInv
  <1>2. LanesP!Inv'
    BY LaneStep, SameLanes, LanesApply, LanesP!StepInv DEF JInv
  <1> QED BY <1>1, <1>2

(* ---------------------------------------------------------------------- *)
(* The boxes in a queue: push_back adds one, pop_front takes one away.     *)
Distinct(s) == \A i, k \in DOMAIN s : s[i] = s[k] => i = k
Boxed(s) == {s[i] : i \in DOMAIN s}

LEMMA Pushed_back ==
  ASSUME NEW S, NEW s \in Seq(S), NEW t \in S
  PROVE  /\ Boxed(Append(s, t)) = Boxed(s) \cup {t}
         /\ Distinct(s) /\ t \notin Boxed(s) => Distinct(Append(s, t))
  <1> DEFINE q == Append(s, t)
             n == Len(s)
  <1>1. /\ q \in Seq(S) /\ Len(q) = n + 1 /\ n \in Nat
        /\ \A i \in 1..n : q[i] = s[i]
        /\ q[n + 1] = t
    BY AppendProperties, LenProperties
  <1>2. DOMAIN q = 1..(n + 1) /\ DOMAIN s = 1..n
    BY <1>1, LenProperties
  <1> HIDE DEF q, n
  <1>3. \A i \in DOMAIN q : i \in DOMAIN s \/ i = n + 1
    BY <1>1, <1>2
  <1>4. \A i \in DOMAIN s : i \in DOMAIN q /\ q[i] = s[i] /\ s[i] \in Boxed(s)
    BY <1>1, <1>2 DEF Boxed
  <1>5. n + 1 \in DOMAIN q
    BY <1>1, <1>2
  <1>6. Boxed(q) = Boxed(s) \cup {t}
    BY <1>1, <1>3, <1>4, <1>5 DEF Boxed
  <1>7. Distinct(s) /\ t \notin Boxed(s) => Distinct(q)
    BY <1>1, <1>3, <1>4 DEF Distinct
  <1> QED BY <1>6, <1>7 DEF q

LEMMA Popped_front ==
  ASSUME NEW S, NEW s \in Seq(S), s # <<>>, Distinct(s)
  PROVE  /\ Head(s) \in S /\ Head(s) \in Boxed(s) /\ Tail(s) \in Seq(S)
         /\ Boxed(Tail(s)) = Boxed(s) \ {Head(s)}
         /\ Distinct(Tail(s))
  <1> DEFINE r == Tail(s)
             h == Head(s)
             n == Len(s)
  <1>1. n \in Nat /\ n >= 1 /\ DOMAIN s = 1..n
    BY EmptySeq, LenProperties
  <1>2. /\ h = s[1] /\ h \in S
        /\ r \in Seq(S)
        /\ Len(r) = n - 1
        /\ \A i \in 1..Len(r) : r[i] = s[i + 1]
    BY <1>1, HeadTailProperties
  <1>3. DOMAIN r = 1..(n - 1)
    BY <1>2, LenProperties
  <1> HIDE DEF r, h, n
  <1>4. \A i \in DOMAIN r : i + 1 \in DOMAIN s /\ i + 1 # 1 /\ r[i] = s[i + 1]
    BY <1>1, <1>2, <1>3
  <1>5. \A i \in DOMAIN s : i = 1 \/ (i - 1 \in DOMAIN r /\ s[i] = r[i - 1])
    BY <1>1, <1>2, <1>3
  <1>6. 1 \in DOMAIN s
    BY <1>1
  <1>7. Boxed(r) \subseteq Boxed(s) \ {h}
    BY <1>2, <1>4, <1>6 DEF Boxed, Distinct
  <1>8. Boxed(s) \ {h} \subseteq Boxed(r)
    BY <1>2, <1>5 DEF Boxed
  <1>9. Distinct(r)
    BY <1>3, <1>4 DEF Distinct
  <1>10. h \in Boxed(s)
    BY <1>2, <1>6 DEF Boxed
  <1> QED BY <1>2, <1>7, <1>8, <1>9, <1>10 DEF r, h

(* What the invariants of the pool and of the lanes say here.              *)
LEMMA PoolFacts ==
  ASSUME PoolP!Inv
  PROVE  /\ queue \in Seq(Task) /\ Distinct(queue) /\ QueuedTasks = Boxed(queue)
         /\ worker \in [Workers -> {"idle", "dozing", "asleep", "busy", "exited"}]
         /\ cur \in [Workers -> Task \cup {None}]
         /\ submit \in [Threads -> {"out", "admitted", "pushed"}]
         /\ hand \in [Threads -> Task \cup {None}]
         /\ \A th \in Threads : submit[th] # "admitted" <=> hand[th] = None
         /\ \A t \in QueuedTasks : /\ t \in Task
                                   /\ \A th \in Threads : hand[th] # t
                                   /\ \A w \in Workers : cur[w] # t
         /\ \A th \in Threads : hand[th] # None =>
              /\ \A u \in Threads : hand[u] = hand[th] => u = th
              /\ \A w \in Workers : cur[w] # hand[th]
         /\ \A v, w \in Workers : cur[v] # None /\ cur[v] = cur[w] => v = w
  <1>1. queue \in Seq(Task) /\ Distinct(queue) /\ QueuedTasks = Boxed(queue)
    BY DEF PoolP!Inv, PoolP!TypeOK, PoolP!OneOwner, PoolP!QueuedOnce, Distinct, QueuedTasks, Boxed
  <1>2. /\ worker \in [Workers -> {"idle", "dozing", "asleep", "busy", "exited"}]
        /\ cur \in [Workers -> Task \cup {None}]
        /\ submit \in [Threads -> {"out", "admitted", "pushed"}]
        /\ hand \in [Threads -> Task \cup {None}]
    BY DEF PoolP!Inv, PoolP!TypeOK, PoolP!Threads, Threads
  <1>3. \A th \in Threads : submit[th] # "admitted" <=> hand[th] = None
    BY Tasks DEF PoolP!Inv, PoolP!Submitting, PoolP!Threads, Threads
  <1>4. \A t \in QueuedTasks : t \in Task
    BY <1>1, LenProperties DEF QueuedTasks
  <1>5. \A t \in QueuedTasks : /\ \A th \in Threads : hand[th] # t
                               /\ \A w \in Workers : cur[w] # t
    BY DEF PoolP!Inv, PoolP!OneOwner, PoolP!QueueApart, PoolP!Queued, QueuedTasks,
           PoolP!Threads, Threads
  <1>6. \A th \in Threads : hand[th] # None =>
          /\ \A u \in Threads : hand[u] = hand[th] => u = th
          /\ \A w \in Workers : cur[w] # hand[th]
    BY DEF PoolP!Inv, PoolP!OneOwner, PoolP!HandsApart, PoolP!Threads, Threads
  <1>7. \A v, w \in Workers : cur[v] # None /\ cur[v] = cur[w] => v = w
    BY DEF PoolP!Inv, PoolP!OneOwner, PoolP!RunApart
  <1> QED BY <1>1, <1>2, <1>3, <1>4, <1>5, <1>6, <1>7

LEMMA LaneFacts ==
  ASSUME LanesP!Inv
  PROVE  /\ waiting \in [Backends -> Seq(StageTask)]
         /\ wrapped \subseteq StageTask
         /\ preparer \in [Preparers -> {"out", "trying", "asleep", "holding"}]
         /\ owing \in [Backends -> SUBSET (Workers \cup Preparers)]
         /\ \A b \in Backends : /\ ParkedAt(b) = Boxed(waiting[b])
                                /\ Distinct(waiting[b])
                                /\ \A t \in ParkedAt(b) : /\ t \in StageTask
                                                          /\ Home[t] = b
                                                          /\ t \notin wrapped
         /\ ParkedTasks \subseteq StageTask
  <1>1. /\ waiting \in [Backends -> Seq(StageTask)]
        /\ wrapped \subseteq StageTask
        /\ preparer \in [Preparers -> {"out", "trying", "asleep", "holding"}]
        /\ owing \in [Backends -> SUBSET (Workers \cup Preparers)]
    BY DEF LanesP!Inv, LanesP!TypeOK
  <1>2. \A b \in Backends : waiting[b] \in Seq(StageTask) /\ DOMAIN waiting[b] = 1..Len(waiting[b])
    BY <1>1, LenProperties
  <1>3. \A b \in Backends : /\ ParkedAt(b) = Boxed(waiting[b])
                            /\ Distinct(waiting[b])
                            /\ \A t \in ParkedAt(b) : Home[t] = b /\ t \notin wrapped
    BY <1>2 DEF LanesP!Inv, LanesP!Parked, ParkedAt, Boxed, Distinct
  <1>4. \A b \in Backends : \A t \in ParkedAt(b) : t \in StageTask
    BY <1>2, LenProperties DEF ParkedAt
  <1> QED BY <1>1, <1>3, <1>4 DEF ParkedTasks

(* What each thread holds.                                                 *)
LEMMA HeldFacts ==
  ASSUME JInv
  PROVE  /\ Held \in [Threads -> Task \cup {None}]
         /\ \A th \in Threads : at[th] \in Carrying =>
              /\ th \in Workers \cup Preparers
              /\ handling[th] \in Task /\ handling[th] # None
              /\ Held[th] = handling[th] /\ hand[th] = None /\ submit[th] = "out"
         /\ \A th \in Threads : at[th] \notin Carrying => Held[th] = hand[th]
         /\ \A th \in Threads : at[th] \notin Carrying \cup {"pushing"} =>
              Held[th] = None /\ hand[th] = None /\ submit[th] = "out"
  <1>1. \A th \in Threads : at[th] \in Carrying =>
          th \in Workers \cup Preparers /\ handling[th] \in Task
    <2> SUFFICES ASSUME NEW th \in Threads, at[th] \in Carrying
                 PROVE  th \in Workers \cup Preparers /\ handling[th] \in Task
      OBVIOUS
    <2>1. th \in Workers \cup Preparers
      BY ThreadSets DEF Carrying, JInv, Places
    <2>2. CASE at[th] \in {"submit", "reject"}
      BY <2>1, <2>2 DEF JInv, Places
    <2>3. CASE at[th] \in {"start", "work", "schedule", "fail"}
      <3>1. th \in Workers
        BY <2>1, <2>3 DEF JInv, Places
      <3>2. cur[th] \in Task
        BY <3>1, <2>3, PoolFacts DEF JInv, Places
      <3> QED BY <3>1, <3>2, <2>3, Tasks DEF JInv, Bodies
    <2> QED BY <2>1, <2>2, <2>3 DEF Carrying
  <1>2. \A th \in Threads : at[th] # "pushing" => submit[th] = "out" /\ hand[th] = None
    BY PoolFacts DEF JInv, Places
  <1>3. \A th \in Threads : Held[th] = IF at[th] \in Carrying THEN handling[th] ELSE hand[th]
    BY DEF Held
  <1>4. Held \in [Threads -> Task \cup {None}]
    BY <1>1, PoolFacts DEF Held, JInv
  <1> QED BY <1>1, <1>2, <1>3, <1>4, Tasks DEF Carrying

LEMMA Tokens == ASSUME JInv PROVE TokenTypes(Boxes, Held, Live, Past)
  <1>1. DrainedTasks \subseteq StageTask
    BY LenProperties DEF JInv, TypeOK, DrainedTasks
  <1>2. Boxes \subseteq Task
    BY <1>1, PoolFacts, LaneFacts, Tasks DEF JInv, Boxes
  <1> QED BY <1>2, HeldFacts DEF TokenTypes, Live, Past

(* What is held is of a live job, except that a body may be about to       *)
(* report again that its job has failed.                                   *)
LEMMA HeldLive ==
  ASSUME JInv, NEW th \in Threads, Held[th] # None
  PROVE  \/ Held[th][1] \in Live
         \/ at[th] = "fail" /\ status[Held[th][1]] = "failed"
  <1>1. Held[th][1] \in Jobs
    BY HeldFacts, Tasks
  <1> QED BY <1>1 DEF JInv, Readiness, HeldReady, Ready, Live, Active

LEMMA BoxLive ==
  ASSUME JInv, NEW t \in Boxes
  PROVE  t \in Task /\ t[1] \in Live /\ Active(t[1]) /\ Ready(t, status, packet)
  BY Tokens DEF JInv, Order, OnePlace, TokenTypes, Readiness, Live

(* One box of one job: nothing else is about it.                           *)
LEMMA BoxAlone ==
  ASSUME JInv, NEW t \in Boxes, NEW th \in Threads
  PROVE  Held[th] # None => Held[th][1] # t[1]
  <1>1. t[1] \in Live
    BY BoxLive
  <1> QED BY <1>1 DEF JInv, Order, OnePlace

LEMMA HeldAlone ==
  ASSUME JInv, NEW th \in Threads, Held[th] # None, Held[th][1] \in Live
  PROVE  /\ \A t \in Boxes : t[1] # Held[th][1]
         /\ \A u \in Threads : Held[u] # None /\ Held[u][1] = Held[th][1] => u = th
  BY DEF JInv, Order, OnePlace

(* What the steps do to the sets the invariant is about.                   *)
LEMMA HeldMoves ==
  ASSUME NEW th \in Threads, NEW x,
         \A u \in Threads \ {th} : /\ at'[u] = at[u] /\ hand'[u] = hand[u]
                                   /\ handling'[u] = handling[u],
         x = IF at'[th] \in Carrying THEN handling'[th] ELSE hand'[th]
  PROVE  Held' = [Held EXCEPT ![th] = x]
  <1>1. \A u \in Threads : Held'[u] = IF u = th THEN x ELSE Held[u]
    BY DEF Held
  <1>2. DOMAIN Held' = Threads /\ DOMAIN Held = Threads
    BY DEF Held
  <1>3. Held' = [u \in Threads |-> Held'[u]]
    BY DEF Held
  <1> QED BY <1>1, <1>2, <1>3

LEMMA PastGrows ==
  ASSUME NEW th \in Threads, NEW Q,
         \A u \in Threads \ {th} : /\ at'[u] = at[u]
                                   /\ handling'[u] = handling[u],
         \A w \in Workers \ {th} : cur'[w] = cur[w],
         th \in Workers /\ at'[th] \notin {"start", "work"} /\ cur'[th] \in Task =>
           cur'[th] \in Past \cup Q,
         at'[th] = "release" /\ handling'[th] \in Task => handling'[th] \in Past \cup Q
  PROVE  Past' \subseteq Past \cup Q
  <1> SUFFICES ASSUME NEW t \in Past' PROVE t \in Past \cup Q
    OBVIOUS
  <1>1. /\ t \in Task
        /\ \/ \E w \in Workers : cur'[w] = t /\ at'[w] \notin {"start", "work"}
           \/ \E u \in Threads : at'[u] = "release" /\ handling'[u] = t
    BY DEF Past
  <1>2. CASE \E w \in Workers : cur'[w] = t /\ at'[w] \notin {"start", "work"}
    <2>1. PICK w \in Workers : cur'[w] = t /\ at'[w] \notin {"start", "work"}
      BY <1>2
    <2>2. CASE w = th
      BY <1>1, <2>1, <2>2
    <2>3. CASE w # th
      BY <1>1, <2>1, <2>3, ThreadSets DEF Past
    <2> QED BY <2>2, <2>3
  <1>3. CASE \E u \in Threads : at'[u] = "release" /\ handling'[u] = t
    <2>1. PICK u \in Threads : at'[u] = "release" /\ handling'[u] = t
      BY <1>3
    <2> QED BY <1>1, <2>1 DEF Past
  <1> QED BY <1>1, <1>2, <1>3

LEMMA SameLive == ASSUME UNCHANGED status PROVE Live' = Live
  BY DEF Live, Active

LEMMA JobEnds ==
  ASSUME TypeOK, NEW j \in Jobs, NEW s, s \notin {"queued", "running"},
         status' = [status EXCEPT ![j] = s]
  PROVE  Live' = Live \ {j}
  BY DEF Live, Active, TypeOK

LEMMA JobRuns ==
  ASSUME TypeOK, NEW j \in Jobs, NEW s, s \in {"queued", "running"},
         status' = [status EXCEPT ![j] = s]
  PROVE  Live' = Live \cup {j}
  BY DEF Live, Active, TypeOK

LEMMA BoxSets ==
  /\ UNCHANGED queue => QueuedTasks' = QueuedTasks
  /\ UNCHANGED waiting => ParkedTasks' = ParkedTasks
  /\ UNCHANGED drained => DrainedTasks' = DrainedTasks
  /\ UNCHANGED <<queue, waiting, drained>> => Boxes' = Boxes
  BY DEF Boxes, QueuedTasks, ParkedTasks, ParkedAt, DrainedTasks

(* schedule parks a task.                                                  *)
LEMMA Parks ==
  ASSUME LanesP!Inv, NEW t \in StageTask, waiting' = [waiting EXCEPT ![Home[t]] = Append(@, t)]
  PROVE  ParkedTasks' = ParkedTasks \cup {t}
  <1> DEFINE b == Home[t]
  <1>0. b \in Backends
    BY LanesApply DEF LanesP!HomeAssumption
  <1>1. \A c \in Backends : waiting'[c] = IF c = b THEN Append(waiting[b], t) ELSE waiting[c]
    BY <1>0, LaneFacts
  <1>2. ParkedAt(b)' = ParkedAt(b) \cup {t}
    <2>1. ParkedAt(b)' = Boxed(Append(waiting[b], t))
      BY <1>0, <1>1 DEF ParkedAt, Boxed
    <2> QED BY <1>0, <2>1, LaneFacts, Pushed_back
  <1>3. \A c \in Backends : c # b => ParkedAt(c)' = ParkedAt(c)
    BY <1>1 DEF ParkedAt
  <1>4. ParkedTasks' = UNION {ParkedAt(c)' : c \in Backends}
    BY DEF ParkedTasks
  <1> HIDE DEF b
  <1> QED BY <1>0, <1>2, <1>3, <1>4 DEF ParkedTasks

(* finish_lane and finish_prepare take the head of `waiting`.              *)
LEMMA Unparks ==
  ASSUME LanesP!Inv, NEW b \in Backends, waiting[b] # <<>>,
         waiting' = [waiting EXCEPT ![b] = Tail(@)]
  PROVE  LET h == Head(waiting[b])
         IN /\ h \in StageTask /\ h \in ParkedTasks /\ h \notin wrapped /\ Home[h] = b
            /\ ParkedTasks' = ParkedTasks \ {h}
  <1> DEFINE h == Head(waiting[b])
  <1>1. \A c \in Backends : waiting'[c] = IF c = b THEN Tail(waiting[b]) ELSE waiting[c]
    BY LaneFacts
  <1>2. ParkedAt(b)' = ParkedAt(b) \ {h} /\ h \in ParkedAt(b)
    <2>1. ParkedAt(b)' = Boxed(Tail(waiting[b]))
      BY <1>1 DEF ParkedAt, Boxed
    <2> QED BY <2>1, LaneFacts, Popped_front
  <1>3. \A c \in Backends : c # b => ParkedAt(c)' = ParkedAt(c)
    BY <1>1 DEF ParkedAt
  <1>4. ParkedTasks' = UNION {ParkedAt(c)' : c \in Backends}
    BY DEF ParkedTasks
  <1>5. h \in StageTask /\ Home[h] = b /\ h \notin wrapped
    BY <1>2, LaneFacts
  <1>6. \A c \in Backends : c # b => h \notin ParkedAt(c)
    BY <1>5, LaneFacts
  <1> HIDE DEF h
  <1>7. ParkedTasks' = ParkedTasks \ {h} /\ h \in ParkedTasks
    BY <1>2, <1>3, <1>4, <1>6 DEF ParkedTasks
  <1> QED BY <1>5, <1>7 DEF h

(* ---------------------------------------------------------------------- *)
(* The initial state.                                                      *)
LEMMA PartsInit == ASSUME Init PROVE PoolP!Inv /\ LanesP!Inv
  <1>1. PoolP!Init
    BY DEF Init, Pool!Init, PoolP!Init, Pool!Threads, PoolP!Threads
  <1>2. LanesP!Init
    BY DEF Init, Lanes!Init, LanesP!Init
  <1> QED BY <1>1, <1>2, PoolApplies, PoolP!InitInv, LanesApply, LanesP!InitInv

LEMMA InitInv == ASSUME Init PROVE JInv
  <1>0. /\ queue = <<>> /\ drained = <<>> /\ wrapped = {} /\ inbody = {}
        /\ waiting = [b \in Backends |-> <<>>] /\ owing = [b \in Backends |-> {}]
        /\ worker = [w \in Workers |-> "idle"] /\ cur = [w \in Workers |-> None]
        /\ submit = [th \in Threads |-> "out"] /\ hand = [th \in Threads |-> None]
        /\ preparer = [p \in Preparers |-> "out"]
        /\ status = [j \in Jobs |-> "absent"] /\ cancel = [j \in Jobs |-> FALSE]
        /\ packet = [j \in Jobs |-> "none"]
        /\ at = [th \in Threads |-> IF th \in Workers THEN "loop" ELSE "out"]
        /\ handling = [th \in Threads |-> None]
    BY DEF Init, Pool!Init, Pool!Threads, Threads, Lanes!Init, Lifecycle!Init
  <1>1. TypeOK
    BY <1>0, EmptySeq DEF TypeOK
  <1>2. Places /\ Bodies /\ StageWork
    BY <1>0, ThreadSets DEF Places, Bodies, StageWork
  <1>3. Boxes = {} /\ QueuedTasks = {} /\ DrainedTasks = {}
    BY <1>0 DEF Boxes, QueuedTasks, ParkedTasks, ParkedAt, DrainedTasks
  <1>4. \A th \in Threads : Held[th] = None
    BY <1>0 DEF Held, Carrying
  <1>5. Live = {} /\ Past = {}
    BY <1>0, Tasks, ThreadSets DEF Live, Active, Past
  <1>6. Order(Boxes, Held, Live, Past)
    BY <1>3, <1>4, <1>5 DEF Order, OnePlace
  <1>7. Readiness
    BY <1>0, <1>3, <1>4 DEF Readiness, PacketsPut
  <1>8. Begun /\ Released /\ ReleasedOnce /\ OwingOnce
    BY <1>0, ThreadSets DEF Begun, Released, ReleasedOnce, OwingOnce
  <1>9. WrappedOwned
    BY <1>0, <1>3, Tasks DEF WrappedOwned, LaneOwner
  <1>10. DrainedApart
    BY <1>0, <1>3 DEF DrainedApart
  <1> QED BY PartsInit, <1>1, <1>2, <1>6, <1>7, <1>8, <1>9, <1>10 DEF JInv

(* ---------------------------------------------------------------------- *)
(* Steps that move no task.                                                *)
LEMMA QuietInv ==
  ASSUME JInv, [Next]_vars, TypeOK', Places',
         UNCHANGED <<status, packet, queue, hand, cur, waiting, wrapped, handling, inbody,
                     drained>>,
         \A th \in Threads : \/ at'[th] = at[th]
                             \/ /\ th \notin Workers
                                /\ at[th] \notin Carrying \cup {"pushing", "release"}
                                /\ at'[th] \notin Carrying \cup {"pushing", "release"},
         \A w \in Workers, b \in Backends : w \in owing'[b] => w \in owing[b]
  PROVE  JInv'
  <1>1. Boxes' = Boxes /\ QueuedTasks' = QueuedTasks /\ ParkedTasks' = ParkedTasks
        /\ DrainedTasks' = DrainedTasks
    BY BoxSets
  <1>2. Held' = Held
    BY DEF Held
  <1>3. Live' = Live
    BY SameLive
  <1>4. Past' = Past
    BY ThreadSets DEF Past
  <1>5. Order(Boxes, Held, Live, Past)'
    BY <1>1, <1>2, <1>3, <1>4 DEF JInv
  <1>6. Bodies' /\ StageWork'
    BY ThreadSets DEF JInv, Bodies, StageWork, Carrying
  <1>7. Readiness'
    BY <1>1, <1>2, HeldFacts DEF JInv, Readiness, HeldReady, Ready, PacketsPut, Carrying
  <1>8. Begun' /\ Released' /\ ReleasedOnce' /\ OwingOnce'
    BY ThreadSets DEF JInv, Begun, Released, ReleasedOnce, OwingOnce
  <1>9. WrappedOwned'
    BY <1>1 DEF JInv, WrappedOwned, LaneOwner, Carrying
  <1>10. DrainedApart'
    BY <1>1 DEF JInv, DrainedApart
  <1> QED BY PartsInv, <1>5, <1>6, <1>7, <1>8, <1>9, <1>10 DEF JInv

LEMMA CancelInv == ASSUME JInv, [Next]_vars, NEW j \in Jobs, Cancel(j) PROVE JInv'
  <1>0. /\ cancel' = [cancel EXCEPT ![j] = TRUE]
        /\ UNCHANGED <<queue, worker, cur, submit, hand, waiting, wrapped, preparer, owing, status,
                       packet, at, handling, inbody, drained>>
    BY DEF Cancel, JobsOnly, poolVars, laneVars
  <1>1. TypeOK' /\ Places'
    BY <1>0 DEF JInv, TypeOK, Places
  <1> QED BY <1>0, <1>1, QuietInv

(* worker_loop around the pop: the worker stays at "loop".                 *)
LEMMA IdleInv ==
  ASSUME JInv, [Next]_vars, NEW w \in Workers, Idle(w) \/ SpuriousWake(w)
  PROVE  JInv'
  <1>0. /\ worker[w] # "busy"
        /\ \E s \in {"dozing", "asleep", "exited", "idle"} : worker' = [worker EXCEPT ![w] = s]
        /\ UNCHANGED <<queue, cur, submit, hand, waiting, wrapped, preparer, owing, status, cancel,
                       packet, at, handling, inbody, drained>>
    BY DEF Idle, SpuriousWake, PoolOnly, laneVars, jobVars, Pool!Doze, Pool!FallAsleep, Pool!Exit,
           Pool!SpuriousWake
  <1>1. TypeOK'
    BY <1>0 DEF JInv, TypeOK
  <1>2. \A v \in Workers : worker'[v] # "busy" <=> worker[v] # "busy"
    BY <1>0, PoolFacts DEF JInv
  <1>3. Places'
    BY <1>0, <1>2 DEF JInv, Places
  <1> QED BY <1>0, <1>1, <1>3, QuietInv

(* prepare_blocking up to the permit.                                      *)
LEMMA PrepareInv ==
  ASSUME JInv, [Next]_vars, NEW p \in Preparers,
         CallPrepare(p) \/ AcquirePrepare(p) \/ SpuriousPrepare(p)
  PROVE  JInv'
  <1>0. /\ UNCHANGED <<queue, worker, cur, submit, hand, waiting, wrapped, owing, status, cancel,
                       packet, handling, inbody, drained>>
        /\ \E s \in {"out", "trying", "asleep", "holding"}, a \in {"acquire", "done", "hold"} :
             /\ preparer' = [preparer EXCEPT ![p] = s]
             /\ at' = [at EXCEPT ![p] = a]
             /\ s = "holding" <=> a = "hold"
             /\ s \in {"trying", "asleep"} <=> a = "acquire"
        /\ at[p] \in {"out", "acquire"}
    <2>1. at[p] \in {"out", "acquire"} /\ (SpuriousPrepare(p) => at[p] = "acquire")
      BY DEF CallPrepare, AcquirePrepare, SpuriousPrepare, Lanes!SpuriousWake, JInv, Places
    <2>2. at \in [Threads -> {at[th] : th \in Threads}]
      BY DEF JInv, TypeOK
    <2>3. UNCHANGED at => at' = [at EXCEPT ![p] = at[p]]
      BY <2>2, ThreadSets
    <2> QED BY <2>1, <2>3 DEF CallPrepare, AcquirePrepare, SpuriousPrepare, GoTo, LanesOnly,
              poolVars, jobVars, Lanes!CallPrepare, Lanes!RefusePrepare, Lanes!HoldPrepare,
              Lanes!SleepPrepare, Lanes!SpuriousWake
  <1>1. PICK s \in {"out", "trying", "asleep", "holding"}, a \in {"acquire", "done", "hold"} :
             /\ preparer' = [preparer EXCEPT ![p] = s]
             /\ at' = [at EXCEPT ![p] = a]
             /\ s = "holding" <=> a = "hold"
             /\ s \in {"trying", "asleep"} <=> a = "acquire"
    BY <1>0
  <1>2. /\ \A th \in Threads : at'[th] = IF th = p THEN a ELSE at[th]
        /\ \A q \in Preparers : preparer'[q] = IF q = p THEN s ELSE preparer[q]
    BY <1>1, LaneFacts DEF JInv, TypeOK
  <1>3. TypeOK'
    BY <1>0, <1>1 DEF JInv, TypeOK
  <1>4. Places'
    BY <1>0, <1>1, <1>2, ThreadSets, HeldFacts DEF JInv, Places, Carrying
  <1>5. \A th \in Threads : \/ at'[th] = at[th]
                            \/ /\ th \notin Workers
                               /\ at[th] \notin Carrying \cup {"pushing", "release"}
                               /\ at'[th] \notin Carrying \cup {"pushing", "release"}
    BY <1>0, <1>2, ThreadSets DEF Carrying
  <1> QED BY <1>0, <1>3, <1>4, <1>5, QuietInv

(* BraidExecutor::shutdown, except for what it drains and rejects.         *)
LEMMA CloserInv ==
  ASSUME JInv, [Next]_vars,
         BeginShutdown \/ NotifyAll \/ Join \/ \E b \in Backends : CloseBackend(b)
  PROVE  JInv'
  <1>0. /\ UNCHANGED <<queue, cur, submit, hand, waiting, wrapped, owing, status, cancel,
                       packet, handling, inbody, drained>>
        /\ \E a \in {"closing", "joining", "done"} : at' = [at EXCEPT ![Closer] = a]
        /\ at[Closer] \in {"out", "closing", "joining", "rejecting"}
        /\ drained = <<>>
        /\ \A w \in Workers : worker'[w] = "busy" <=> worker[w] = "busy"
        /\ \A p \in Preparers : /\ preparer'[p] = "holding" <=> preparer[p] = "holding"
                                /\ preparer'[p] \in {"trying", "asleep"}
                                     <=> preparer[p] \in {"trying", "asleep"}
    <2>1. CASE BeginShutdown
      BY <2>1 DEF BeginShutdown, GoTo, jobVars, Pool!BeginShutdown, Lanes!SetShutdown, JInv, Places
    <2>2. CASE NotifyAll
      BY <2>2 DEF NotifyAll, GoTo, PoolOnly, jobVars, laneVars, Pool!NotifyAll, JInv, Places
    <2>3. CASE Join
      BY <2>3 DEF Join, GoTo, PoolOnly, jobVars, laneVars, Pool!Join, JInv, Places
    <2>4. ASSUME NEW b \in Backends, CloseBackend(b)
          PROVE  /\ UNCHANGED <<queue, cur, submit, hand, waiting, wrapped, owing, status, cancel,
                                packet, handling, inbody, drained, worker>>
                 /\ at' = [at EXCEPT ![Closer] = "closing"]
                 /\ at[Closer] = "rejecting"
                 /\ drained = <<>>
                 /\ preparer' = Lanes!Wake(b)
      BY <2>4 DEF CloseBackend, GoTo, LanesOnly, jobVars, poolVars, Lanes!CloseBackend
    <2> QED BY <2>1, <2>2, <2>3, <2>4 DEF Lanes!Wake
  <1>1. PICK a \in {"closing", "joining", "done"} : at' = [at EXCEPT ![Closer] = a]
    BY <1>0
  <1>2. \A th \in Threads : at'[th] = IF th = Closer THEN a ELSE at[th]
    BY <1>1 DEF JInv, TypeOK
  <1>3. TypeOK'
    BY <1>0, <1>1 DEF JInv, TypeOK
  <1>4. Places'
    BY <1>0, <1>2, ThreadSets DEF JInv, Places
  <1>5. \A th \in Threads : \/ at'[th] = at[th]
                            \/ /\ th \notin Workers
                               /\ at[th] \notin Carrying \cup {"pushing", "release"}
                               /\ at'[th] \notin Carrying \cup {"pushing", "release"}
    BY <1>0, <1>2, ThreadSets DEF Carrying
  <1> QED BY <1>0, <1>3, <1>4, <1>5, QuietInv

LEMMA StutterInv == ASSUME JInv, UNCHANGED vars PROVE JInv'
  <1>0. UNCHANGED <<queue, worker, cur, submit, hand, waiting, wrapped, preparer, owing, status,
                    cancel, packet, at, handling, inbody, drained>>
    BY DEF vars, poolVars, laneVars, jobVars
  <1>1. TypeOK' /\ Places'
    BY <1>0 DEF JInv, TypeOK, Places
  <1> QED BY <1>0, <1>1, QuietInv

(* ---------------------------------------------------------------------- *)
(* A step of one thread about one job leaves the others ready.             *)
LEMMA OtherJobs ==
  ASSUME NEW j \in Jobs, \A i \in Jobs \ {j} : status'[i] = status[i] /\ packet'[i] = packet[i],
         NEW t \in Task, t[1] # j, NEW place
  PROVE  /\ Ready(t, status', packet') <=> Ready(t, status, packet)
         /\ HeldReady(place, t, status', packet') <=> HeldReady(place, t, status, packet)
  BY Tasks DEF Ready, HeldReady

LEMMA StaysReady ==
  ASSUME JInv, NEW j \in Jobs, NEW th \in Threads,
         \A i \in Jobs \ {j} : status'[i] = status[i] /\ packet'[i] = packet[i],
         \A t \in Boxes' : (t \in Boxes /\ t[1] # j) \/ Ready(t, status', packet'),
         \A u \in Threads \ {th} :
           /\ at'[u] = at[u] /\ Held'[u] = Held[u]
           /\ Held[u] # None => Held[u][1] # j \/ HeldReady(at[u], Held[u], status', packet'),
         Held'[th] # None => HeldReady(at'[th], Held'[th], status', packet'),
         PacketsPut'
  PROVE  Readiness'
  <1>1. \A t \in Boxes' : Ready(t, status', packet')
    BY OtherJobs, BoxLive
  <1>2. \A u \in Threads \ {th} : Held[u] # None => HeldReady(at[u], Held[u], status', packet')
    BY OtherJobs, HeldFacts DEF JInv, Readiness
  <1> QED BY <1>1, <1>2 DEF Readiness

LEMMA StaysBegun ==
  ASSUME JInv,
         \A j \in Jobs : status[j] \notin {"absent", "refused"}
                           => status'[j] \notin {"absent", "refused"},
         \A w \in Workers : cur'[w] \in {cur[w], None}
                            \/ status'[cur'[w][1]] \notin {"absent", "refused"},
         \A th \in Threads : at'[th] = "release" =>
           \/ at[th] = "release" /\ handling'[th] = handling[th]
           \/ status'[handling'[th][1]] \notin {"absent", "refused"}
  PROVE  Begun' /\ Released'
  <1>1. \A w \in Workers : cur[w] # None => cur[w][1] \in Jobs
    BY PoolFacts, Tasks DEF JInv
  <1>2. \A th \in Threads : at[th] = "release" => handling[th][1] \in Jobs
    BY SubmittersAre, Tasks
  <1>3. Begun'
    BY <1>1 DEF JInv, Begun
  <1>4. Released'
    BY <1>2 DEF JInv, Released
  <1> QED BY <1>3, <1>4

LEMMA StaysReadyIdly ==
  ASSUME JInv, NEW th \in Threads, UNCHANGED <<status, packet>>,
         \A t \in Boxes' : t \in Boxes \/ Ready(t, status, packet),
         \A u \in Threads \ {th} : at'[u] = at[u] /\ Held'[u] = Held[u],
         Held'[th] # None => HeldReady(at'[th], Held'[th], status, packet)
  PROVE  Readiness'
  <1>1. PacketsPut'
    BY DEF JInv, Readiness, PacketsPut
  <1> QED BY <1>1 DEF JInv, Readiness

(* ---------------------------------------------------------------------- *)
(* dispatch: nothing is about a job before its record is in the table.     *)
LEMMA NotYetThere ==
  ASSUME JInv, NEW j \in Jobs, status[j] = "absent"
  PROVE  /\ j \notin Live
         /\ \A t \in Boxes : t[1] # j
         /\ \A th \in Threads : Held[th] # None => Held[th][1] # j
         /\ \A t \in Past : t[1] # j
         /\ \A w \in Workers : cur[w] # None => cur[w][1] # j
         /\ packet[j] = "none"
  <1>1. j \notin Live
    BY DEF Live, Active
  <1>2. \A t \in Boxes : t[1] # j
    BY <1>1, BoxLive
  <1>3. \A th \in Threads : Held[th] # None => Held[th][1] # j
    BY <1>1, HeldLive
  <1>4. \A w \in Workers : cur[w] # None => cur[w][1] # j
    BY DEF JInv, Begun
  <1>5. \A t \in Past : t[1] # j
    BY <1>4, Tasks DEF Past, JInv, Released
  <1>6. packet[j] = "none"
    BY DEF JInv, Readiness, PacketsPut
  <1> QED BY <1>1, <1>2, <1>3, <1>4, <1>5, <1>6

LEMMA DispatchInv == ASSUME JInv, [Next]_vars, NEW j \in Jobs, Dispatch(j) PROVE JInv'
  <1> DEFINE t == <<j, 0>>
  <1>0. /\ at[j] = "out" /\ status[j] = "absent" /\ submit[j] = "out"
        /\ submit' = [submit EXCEPT ![j] = "admitted"]
        /\ hand' = [hand EXCEPT ![j] = t]
        /\ status' = [status EXCEPT ![j] = "queued"]
        /\ at' = [at EXCEPT ![j] = "pushing"]
        /\ UNCHANGED <<queue, worker, cur, waiting, wrapped, preparer, owing, cancel, packet,
                       handling, inbody, drained>>
    BY DEF Dispatch, Pool!Admit, GoTo, PoolOnly, laneVars, JInv, Places
  <1>1. /\ t \in Task /\ t # None /\ t[1] = j /\ t[2] = 0 /\ j \in Threads
        /\ t \notin StageTask
    BY Tasks, ThreadSets, StageAssumption
  <1>2. /\ \A th \in Threads : /\ at'[th] = IF th = j THEN "pushing" ELSE at[th]
                               /\ submit'[th] = IF th = j THEN "admitted" ELSE submit[th]
                               /\ hand'[th] = IF th = j THEN t ELSE hand[th]
        /\ \A i \in Jobs : status'[i] = IF i = j THEN "queued" ELSE status[i]
    BY <1>0, PoolFacts DEF JInv, TypeOK
  <1> HIDE DEF t
  <1>3. TypeOK'
    BY <1>0 DEF JInv, TypeOK
  <1>4. Places'
    BY <1>0, <1>1, <1>2, ThreadSets DEF JInv, Places
  <1>5. Bodies' /\ StageWork'
    <2>1. \A a \in Workers \cup Preparers : at'[a] = at[a]
      BY <1>1, <1>2, ThreadSets
    <2>2. \A w \in Workers : status'[cur[w][1]] = "failed" <=> status[cur[w][1]] = "failed"
      BY <1>0 DEF JInv, TypeOK
    <2> QED BY <1>0, <2>1, <2>2 DEF JInv, Bodies, StageWork
  <1>6. Boxes' = Boxes /\ QueuedTasks' = QueuedTasks /\ ParkedTasks' = ParkedTasks
        /\ DrainedTasks' = DrainedTasks
    BY <1>0, BoxSets
  <1>7. Held' = [Held EXCEPT ![j] = t] /\ Held[j] = None
    BY <1>0, <1>1, <1>2, HeldMoves, HeldFacts DEF Carrying
  <1>8. Live' = Live \cup {j}
    BY <1>0, JobRuns DEF JInv
  <1>9. Past' = Past
    BY <1>0, <1>1, <1>2, ThreadSets DEF Past
  <1>10. Order(Boxes, Held, Live, Past)'
    BY <1>0, <1>1, <1>6, <1>7, <1>8, <1>9, NotYetThere, Tokens, Enter DEF JInv
  <1>11. Readiness'
    <2>1. \A th \in Threads : Held'[th] = IF th = j THEN t ELSE Held[th]
      BY <1>7, HeldFacts
    <2>2. Ready(t, status', packet')
      BY <1>0, <1>1, <1>2, NotYetThere DEF Ready
    <2>3. HeldReady(at'[j], Held'[j], status', packet')
      BY <1>1, <1>2, <2>1, <2>2 DEF HeldReady
    <2>4. PacketsPut'
      BY <1>0, <1>2 DEF JInv, Readiness, PacketsPut
    <2>5. \A i \in Jobs \ {j} : status'[i] = status[i] /\ packet'[i] = packet[i]
      BY <1>0, <1>2
    <2>6. \A u \in Boxes' : (u \in Boxes /\ u[1] # j) \/ Ready(u, status', packet')
      BY <1>0, <1>6, NotYetThere
    <2>7. \A u \in Threads \ {j} :
            /\ at'[u] = at[u] /\ Held'[u] = Held[u]
            /\ Held[u] # None => Held[u][1] # j \/ HeldReady(at[u], Held[u], status', packet')
      BY <1>0, <1>2, <2>1, NotYetThere
    <2> QED BY <1>1, <2>3, <2>4, <2>5, <2>6, <2>7, StaysReady
  <1>12. Begun' /\ Released'
    BY <1>0, <1>1, <1>2, StaysBegun
  <1>13. ReleasedOnce' /\ OwingOnce'
    BY <1>0, <1>1, <1>2, ThreadSets DEF JInv, ReleasedOnce, OwingOnce
  <1>14. WrappedOwned'
    BY <1>0, <1>1, <1>2, <1>6, HeldFacts, Tasks DEF JInv, WrappedOwned, LaneOwner, Carrying
  <1>15. DrainedApart'
    BY <1>0, <1>6 DEF JInv, DrainedApart
  <1> QED BY PartsInv, <1>3, <1>4, <1>5, <1>10, <1>11, <1>12, <1>13, <1>14, <1>15 DEF JInv

LEMMA DispatchRefusedInv ==
  ASSUME JInv, [Next]_vars, NEW j \in Jobs, DispatchRefused(j)
  PROVE  JInv'
  <1>0. /\ at[j] = "out" /\ status[j] = "absent"
        /\ status' = [status EXCEPT ![j] = "refused"]
        /\ at' = [at EXCEPT ![j] = "done"]
        /\ UNCHANGED <<queue, worker, cur, submit, hand, waiting, wrapped, preparer, owing, cancel,
                       packet, handling, inbody, drained>>
    BY DEF DispatchRefused, Pool!Refuse, Pool!vars, GoTo, PoolOnly, laneVars, JInv, Places
  <1>2. /\ \A th \in Threads : at'[th] = IF th = j THEN "done" ELSE at[th]
        /\ \A i \in Jobs : status'[i] = IF i = j THEN "refused" ELSE status[i]
    BY <1>0 DEF JInv, TypeOK
  <1>3. TypeOK'
    BY <1>0 DEF JInv, TypeOK
  <1>4. Places'
    BY <1>0, <1>2, ThreadSets DEF JInv, Places
  <1>5. Bodies' /\ StageWork'
    <2>1. \A a \in Workers \cup Preparers : at'[a] = at[a]
      BY <1>2, ThreadSets
    <2>2. \A w \in Workers : status[cur[w][1]] = "failed" => status'[cur[w][1]] = "failed"
      BY <1>0 DEF JInv, TypeOK
    <2> QED BY <1>0, <2>1, <2>2 DEF JInv, Bodies, StageWork
  <1>6. Boxes' = Boxes /\ QueuedTasks' = QueuedTasks /\ ParkedTasks' = ParkedTasks
        /\ DrainedTasks' = DrainedTasks
    BY <1>0, BoxSets
  <1>7. Held' = Held /\ Held[j] = None
    <2>1. Held[j] = None /\ hand[j] = None
      BY <1>0, ThreadSets, HeldFacts DEF Carrying
    <2>2. \A th \in Threads : Held'[th] = Held[th]
      BY <1>0, <1>2, <2>1 DEF Held, Carrying
    <2> QED BY <2>1, <2>2 DEF Held
  <1>8. Live' = Live
    BY <1>0, JobEnds, NotYetThere DEF JInv
  <1>9. Past' = Past
    BY <1>0, <1>2, ThreadSets DEF Past
  <1>10. Order(Boxes, Held, Live, Past)'
    BY <1>6, <1>7, <1>8, <1>9 DEF JInv
  <1>11. Readiness'
    <2>1. \A i \in Jobs \ {j} : status'[i] = status[i] /\ packet'[i] = packet[i]
      BY <1>0, <1>2
    <2>2. PacketsPut'
      BY <1>0, <1>2, NotYetThere DEF JInv, Readiness, PacketsPut
    <2>3. \A u \in Boxes' : (u \in Boxes /\ u[1] # j) \/ Ready(u, status', packet')
      BY <1>0, <1>6, NotYetThere
    <2>4. \A u \in Threads \ {j} :
            /\ at'[u] = at[u] /\ Held'[u] = Held[u]
            /\ Held[u] # None => Held[u][1] # j \/ HeldReady(at[u], Held[u], status', packet')
      BY <1>0, <1>2, <1>7, NotYetThere
    <2> QED BY <1>7, <2>1, <2>2, <2>3, <2>4, ThreadSets, StaysReady
  <1>12. Begun' /\ Released'
    <2>1. \A w \in Workers : cur[w] # None => status'[cur[w][1]] = status[cur[w][1]]
      BY <1>0, <1>2, NotYetThere, PoolFacts, Tasks DEF JInv
    <2>2. \A th \in Threads : at[th] = "release" =>
            status'[handling[th][1]] = status[handling[th][1]]
      BY <1>0, <1>2, SubmittersAre, Tasks DEF JInv, Released
    <2> QED BY <1>0, <1>2, <2>1, <2>2 DEF JInv, Begun, Released
  <1>13. ReleasedOnce' /\ OwingOnce'
    BY <1>0, <1>2, ThreadSets DEF JInv, ReleasedOnce, OwingOnce
  <1>14. WrappedOwned'
    BY <1>0, <1>2, <1>6 DEF JInv, WrappedOwned, LaneOwner
  <1>15. DrainedApart'
    BY <1>0, <1>6 DEF JInv, DrainedApart
  <1> QED BY PartsInv, <1>3, <1>4, <1>5, <1>10, <1>11, <1>12, <1>13, <1>14, <1>15 DEF JInv

(* ---------------------------------------------------------------------- *)
(* What is waiting or held has not been run, and a box is in one queue.    *)
LEMMA NotPast ==
  ASSUME JInv
  PROVE  /\ \A t \in Boxes : t \notin Past
         /\ \A th \in Threads : Held[th] # None /\ Held[th][1] \in Live =>
              /\ Held[th] \notin Past
              /\ \A w \in Workers : cur[w] = Held[th] => w = th /\ at[w] \in {"start", "work"}
  <1>1. \A t \in Boxes : t \notin Past
    BY Tokens, Tasks DEF JInv, Order, Behind, TokenTypes
  <1>2. ASSUME NEW th \in Threads, Held[th] # None, Held[th][1] \in Live
        PROVE  Held[th] \notin Past
    BY <1>2, Tokens, Tasks DEF JInv, Order, Behind, TokenTypes
  <1>3. ASSUME NEW th \in Threads, Held[th] # None, Held[th][1] \in Live,
               NEW w \in Workers, cur[w] = Held[th]
        PROVE  w = th /\ at[w] \in {"start", "work"}
    <2>1. Held[th] \in Task /\ w \in Threads
      BY <1>3, HeldFacts, ThreadSets
    <2>2. at[w] \in {"start", "work"}
      BY <1>2, <1>3, <2>1 DEF Past
    <2>3. Held[w] = Held[th]
      BY <1>3, <2>1, <2>2, HeldFacts DEF JInv, Bodies, Carrying
    <2> QED BY <1>3, <2>1, <2>2, <2>3, HeldAlone
  <1> QED BY <1>1, <1>2, <1>3

LEMMA BoxesApart ==
  ASSUME JInv
  PROVE  /\ \A t \in QueuedTasks : t \notin ParkedTasks /\ t \notin DrainedTasks
         /\ \A t \in ParkedTasks : t \in StageTask /\ t \notin wrapped /\ t \notin DrainedTasks
         /\ \A t \in DrainedTasks : t \in StageTask /\ t \notin wrapped
         /\ QueuedTasks \subseteq Task
  <1>1. \A t \in ParkedTasks : t \in StageTask /\ t \notin wrapped /\ t \notin DrainedTasks
    BY LaneFacts DEF JInv, DrainedApart, ParkedTasks
  <1>2. \A t \in DrainedTasks : t \in StageTask /\ t \notin wrapped
    BY LenProperties DEF JInv, DrainedApart, TypeOK, DrainedTasks
  <1>3. \A t \in QueuedTasks : t \in StageTask => t \in wrapped
    BY DEF JInv, WrappedOwned, LaneOwner
  <1> QED BY <1>1, <1>2, <1>3, PoolFacts DEF JInv

(* The task of a lane that is being passed on has no other owner.          *)
LEMMA ReleasedAlone ==
  ASSUME JInv, NEW th \in Threads, at[th] = "release"
  PROVE  LET t == handling[th]
         IN /\ t \in StageTask /\ t \in wrapped /\ t \in Past
            /\ t \notin Boxes
            /\ \A u \in Threads : Held[u] = t => at[u] = "fail"
            /\ \A u \in Threads : hand[u] # t
            /\ \A u \in Threads : handling[u] = t /\ at[u] \in {"submit", "reject", "release"}
                                    => u = th
            /\ \A w \in inbody : cur[w] # t
  <1> DEFINE t == handling[th]
  <1>1. t \in StageTask /\ t \in Task /\ t # None
    BY SubmittersAre, Tasks
  <1>2. t \in wrapped
    BY <1>1 DEF JInv, WrappedOwned, LaneOwner
  <1>3. t \in Past
    BY <1>1 DEF Past
  <1>4. t \notin Boxes
    BY <1>3, NotPast
  <1>5. \A u \in Threads : Held[u] = t => at[u] = "fail"
    BY <1>1, <1>3, NotPast, HeldLive
  <1>6. \A u \in Threads : hand[u] # t
    <2> SUFFICES ASSUME NEW u \in Threads, hand[u] = t PROVE FALSE
      OBVIOUS
    <2>1. at[u] = "pushing"
      BY <1>1, HeldFacts DEF Carrying
    <2>2. Held[u] = t
      BY <2>1, HeldFacts DEF Carrying
    <2> QED BY <1>5, <2>1, <2>2
  <1>7. \A u \in Threads : handling[u] = t /\ at[u] \in {"submit", "reject", "release"} => u = th
    <2> SUFFICES ASSUME NEW u \in Threads, handling[u] = t,
                        at[u] \in {"submit", "reject", "release"}
                 PROVE  u = th
      OBVIOUS
    <2>1. CASE at[u] = "release"
      BY <2>1 DEF JInv, ReleasedOnce
    <2>2. CASE at[u] \in {"submit", "reject"}
      BY <1>5, <2>2, HeldFacts DEF Carrying
    <2> QED BY <2>1, <2>2
  <1>8. \A w \in inbody : cur[w] # t
    BY DEF JInv, ReleasedOnce, TypeOK
  <1> QED BY <1>1, <1>2, <1>3, <1>4, <1>5, <1>6, <1>7, <1>8

(* ---------------------------------------------------------------------- *)
(* submit_boxed.                                                           *)
LEMMA AdmitInv == ASSUME JInv, [Next]_vars, NEW th \in Threads, Admit(th) PROVE JInv'
  <1> DEFINE t == handling[th]
  <1>0. /\ at[th] = "submit" /\ submit[th] = "out"
        /\ submit' = [submit EXCEPT ![th] = "admitted"]
        /\ hand' = [hand EXCEPT ![th] = t]
        /\ at' = [at EXCEPT ![th] = "pushing"]
        /\ UNCHANGED <<queue, worker, cur, waiting, wrapped, preparer, owing, status, cancel, packet,
                       handling, inbody, drained>>
    BY DEF Admit, Pool!Admit, GoTo, PoolOnly, laneVars, jobVars
  <1>1. /\ th \in Workers \cup Preparers /\ t \in Task /\ t # None
        /\ Held[th] = t /\ hand[th] = None
    BY <1>0, HeldFacts DEF Carrying
  <1>2. \A u \in Threads : /\ at'[u] = IF u = th THEN "pushing" ELSE at[u]
                           /\ submit'[u] = IF u = th THEN "admitted" ELSE submit[u]
                           /\ hand'[u] = IF u = th THEN t ELSE hand[u]
    BY <1>0, PoolFacts DEF JInv, TypeOK
  <1> HIDE DEF t
  <1>3. TypeOK'
    BY <1>0 DEF JInv, TypeOK
  <1>4. Places'
    BY <1>0, <1>1, <1>2, ThreadSets DEF JInv, Places
  <1>5. Bodies' /\ StageWork'
    BY <1>0, <1>2, ThreadSets DEF JInv, Bodies, StageWork
  <1>6. Boxes' = Boxes /\ QueuedTasks' = QueuedTasks /\ ParkedTasks' = ParkedTasks
        /\ DrainedTasks' = DrainedTasks
    BY <1>0, BoxSets
  <1>7. Held' = Held
    <2>1. \A u \in Threads : Held'[u] = Held[u]
      BY <1>0, <1>1, <1>2 DEF Held, Carrying
    <2> QED BY <2>1 DEF Held
  <1>8. Live' = Live /\ Past' = Past
    BY <1>0, <1>2, SameLive, ThreadSets DEF Past
  <1>9. Order(Boxes, Held, Live, Past)'
    BY <1>6, <1>7, <1>8 DEF JInv
  <1>10. Readiness'
    <2>1. HeldReady("pushing", t, status, packet)
      BY <1>0, <1>1 DEF JInv, Readiness, HeldReady
    <2> QED BY <1>0, <1>1, <1>2, <1>6, <1>7, <2>1, StaysReadyIdly
  <1>11. Begun' /\ Released'
    BY <1>0, <1>2, StaysBegun
  <1>12. ReleasedOnce' /\ OwingOnce'
    BY <1>0, <1>2, ThreadSets DEF JInv, ReleasedOnce, OwingOnce
  <1>13. WrappedOwned'
    <2> SUFFICES ASSUME NEW s \in StageTask PROVE LaneOwner(s)' <=> LaneOwner(s)
      BY <1>0 DEF JInv, WrappedOwned
    <2>1. s # None
      BY Tasks
    <2> QED BY <1>0, <1>1, <1>2, <1>6, <2>1 DEF LaneOwner, t
  <1>14. DrainedApart'
    BY <1>0, <1>6 DEF JInv, DrainedApart
  <1> QED BY PartsInv, <1>3, <1>4, <1>5, <1>9, <1>10, <1>11, <1>12, <1>13, <1>14 DEF JInv

LEMMA RefusedInv == ASSUME JInv, [Next]_vars, NEW th \in Threads, Refused(th) PROVE JInv'
  <1> DEFINE t == handling[th]
             a == IF IsStage(t) THEN "reject" ELSE "fail"
  <1>0. /\ at[th] = "submit"
        /\ at' = [at EXCEPT ![th] = a]
        /\ UNCHANGED <<queue, worker, cur, submit, hand, waiting, wrapped, preparer, owing, status,
                       cancel, packet, handling, inbody, drained>>
    BY DEF Refused, Pool!Refuse, Pool!vars, GoTo, PoolOnly, laneVars, jobVars
  <1>1. /\ th \in Workers \cup Preparers /\ t \in Task /\ t # None
        /\ Held[th] = t /\ hand[th] = None /\ submit[th] = "out"
    BY <1>0, HeldFacts DEF Carrying
  <1>2. \A u \in Threads : at'[u] = IF u = th THEN a ELSE at[u]
    BY <1>0 DEF JInv, TypeOK
  <1>s. /\ t \in StageTask => a = "reject"
        /\ t \notin StageTask => a = "fail"
        /\ t \notin StageTask => th \in Workers /\ th \in inbody /\ t[1] = cur[th][1]
    <2>1. IsStage(t) <=> t \in StageTask
      BY <1>1 DEF StageTask
    <2>2. t \notin StageTask => th \in inbody
      BY <1>0, <1>1 DEF JInv, StageWork
    <2>3. t \notin StageTask => th \in Workers
      BY <2>2 DEF JInv, TypeOK
    <2>4. t \notin StageTask => t[1] = cur[th][1]
      BY <1>0, <2>2, <2>3 DEF JInv, Bodies
    <2> QED BY <2>1, <2>2, <2>3, <2>4
  <1> HIDE DEF t, a
  <1>3. TypeOK'
    BY <1>0, <1>s DEF JInv, TypeOK
  <1>4. Places'
    BY <1>0, <1>1, <1>2, <1>s, ThreadSets DEF JInv, Places, t
  <1>5. Bodies'
    BY <1>0, <1>1, <1>2, <1>s, ThreadSets DEF JInv, Bodies, t
  <1>x. StageWork'
    BY <1>0, <1>1, <1>2, <1>s, ThreadSets DEF JInv, StageWork, t
  <1>6. Boxes' = Boxes /\ QueuedTasks' = QueuedTasks /\ ParkedTasks' = ParkedTasks
        /\ DrainedTasks' = DrainedTasks
    BY <1>0, BoxSets
  <1>7. Held' = Held
    <2>1. \A u \in Threads : Held'[u] = Held[u]
      BY <1>0, <1>1, <1>2, <1>s DEF Held, Carrying
    <2> QED BY <2>1 DEF Held
  <1>8. Live' = Live /\ Past' = Past
    BY <1>0, <1>2, <1>s, SameLive, ThreadSets DEF Past
  <1>9. Order(Boxes, Held, Live, Past)'
    BY <1>6, <1>7, <1>8 DEF JInv
  <1>10. Readiness'
    <2>1. HeldReady(a, t, status, packet)
      BY <1>0, <1>1, <1>s DEF JInv, Readiness, HeldReady
    <2> QED BY <1>0, <1>1, <1>2, <1>6, <1>7, <2>1, StaysReadyIdly
  <1>11. Begun' /\ Released'
    BY <1>0, <1>2, <1>s, StaysBegun
  <1>12. ReleasedOnce' /\ OwingOnce'
    BY <1>0, <1>2, <1>s, ThreadSets DEF JInv, ReleasedOnce, OwingOnce
  <1>13. WrappedOwned'
    <2> SUFFICES ASSUME NEW s \in StageTask PROVE LaneOwner(s)' <=> LaneOwner(s)
      BY <1>0 DEF JInv, WrappedOwned
    <2> QED BY <1>0, <1>1, <1>2, <1>6, <1>s DEF LaneOwner, t
  <1>14. DrainedApart'
    BY <1>0, <1>6 DEF JInv, DrainedApart
  <1> QED BY PartsInv, <1>3, <1>4, <1>5, <1>x, <1>9, <1>10, <1>11, <1>12, <1>13, <1>14 DEF JInv

LEMMA PushInv == ASSUME JInv, [Next]_vars, NEW th \in Threads, Push(th) PROVE JInv'
  <1> DEFINE t == hand[th]
  <1>0. /\ at[th] = "pushing" /\ submit[th] = "admitted"
        /\ queue' = Append(queue, t)
        /\ submit' = [submit EXCEPT ![th] = "pushed"]
        /\ hand' = [hand EXCEPT ![th] = None]
        /\ UNCHANGED <<worker, cur, waiting, wrapped, preparer, owing, status, cancel, packet, at,
                       handling, inbody, drained>>
    BY DEF Push, Pool!Push, PoolOnly, laneVars, jobVars
  <1>1. t \in Task /\ t # None /\ Held[th] = t
    BY <1>0, PoolFacts, HeldFacts DEF JInv, Carrying
  <1>2. \A u \in Threads : /\ submit'[u] = IF u = th THEN "pushed" ELSE submit[u]
                           /\ hand'[u] = IF u = th THEN None ELSE hand[u]
    BY <1>0, PoolFacts DEF JInv
  <1>l. t[1] \in Live /\ Ready(t, status, packet)
    BY <1>0, <1>1, HeldLive DEF JInv, Readiness, HeldReady
  <1> HIDE DEF t
  <1>3. TypeOK'
    BY <1>0 DEF JInv, TypeOK
  <1>4. Places'
    BY <1>0, <1>2 DEF JInv, Places
  <1>5. Bodies' /\ StageWork'
    BY <1>0 DEF JInv, Bodies, StageWork
  <1>6. /\ QueuedTasks' = QueuedTasks \cup {t}
        /\ ParkedTasks' = ParkedTasks /\ DrainedTasks' = DrainedTasks
        /\ Boxes' = Boxes \cup {t}
    <2>1. QueuedTasks' = Boxed(queue') /\ QueuedTasks = Boxed(queue)
      BY DEF QueuedTasks, Boxed
    <2>2. QueuedTasks' = QueuedTasks \cup {t}
      BY <1>0, <1>1, <2>1, PoolFacts, Pushed_back DEF JInv
    <2> QED BY <1>0, <2>2, BoxSets DEF Boxes
  <1>7. Held' = [Held EXCEPT ![th] = None]
    BY <1>0, <1>2, HeldMoves DEF Carrying
  <1>8. Live' = Live /\ Past' = Past
    BY <1>0, SameLive DEF Past
  <1>9. Order(Boxes, Held, Live, Past)'
    BY <1>1, <1>6, <1>7, <1>8, <1>l, Tokens, PutDown DEF JInv
  <1>10. Readiness'
    <2>1. \A u \in Threads : Held'[u] = IF u = th THEN None ELSE Held[u]
      BY <1>7, HeldFacts
    <2>2. \A u \in Boxes' : u \in Boxes \/ Ready(u, status, packet)
      BY <1>6, <1>l
    <2> QED BY <1>0, <2>1, <2>2, StaysReadyIdly
  <1>11. Begun' /\ Released'
    BY <1>0, StaysBegun
  <1>12. ReleasedOnce' /\ OwingOnce'
    BY <1>0 DEF JInv, ReleasedOnce, OwingOnce
  <1>13. WrappedOwned'
    <2> SUFFICES ASSUME NEW s \in StageTask PROVE LaneOwner(s)' <=> LaneOwner(s)
      BY <1>0 DEF JInv, WrappedOwned
    <2>1. s # None
      BY Tasks
    <2> QED BY <1>0, <1>1, <1>2, <1>6, <2>1 DEF LaneOwner, t
  <1>14. DrainedApart'
    BY <1>0, <1>6 DEF JInv, DrainedApart
  <1> QED BY PartsInv, <1>3, <1>4, <1>5, <1>9, <1>10, <1>11, <1>12, <1>13, <1>14 DEF JInv

(* ---------------------------------------------------------------------- *)
(* run_caught returns: what the worker has popped is past, and its lane,   *)
(* if it has one, is to be passed on.                                      *)
LEMMA BodyTasks ==
  ASSUME JInv, NEW w \in Workers, at[w] # "loop"
  PROVE  /\ cur[w] \in Task /\ cur[w] # None /\ cur[w][1] \in Jobs
         /\ IsStage(cur[w]) <=> cur[w] \in StageTask
         /\ status[cur[w][1]] \notin {"absent", "refused"}
  <1>1. cur[w] \in Task /\ cur[w] # None
    BY PoolFacts DEF JInv, Places
  <1> QED BY <1>1, Tasks DEF StageTask, JInv, Begun

LEMMA LeavesBody ==
  ASSUME JInv, NEW w \in Workers, EndBody(w), w \in inbody,
         at[w] \in {"start", "work", "schedule", "pushing", "fail"},
         UNCHANGED <<queue, cur, hand, wrapped, preparer, owing, drained>>,
         \A u \in Threads : submit'[u] = IF u = w THEN "out" ELSE submit[u],
         \A v \in Workers : worker'[v] = "busy" <=> worker[v] = "busy",
         \A j \in Jobs : /\ status'[j] = "absent" <=> status[j] = "absent"
                         /\ status'[j] = "refused" <=> status[j] = "refused"
                         /\ status[j] = "failed" => status'[j] = "failed"
  PROVE  /\ \A u \in Threads \ {w} : at'[u] = at[u] /\ handling'[u] = handling[u]
         /\ at'[w] \in {"release", "finish"}
         /\ Places' /\ Bodies' /\ StageWork'
         /\ Begun' /\ Released' /\ ReleasedOnce' /\ OwingOnce' /\ WrappedOwned'
         /\ Past' \subseteq Past \cup {cur[w]}
         /\ at[w] \notin {"start", "work"} => Past' \subseteq Past
  <1> DEFINE t == cur[w]
             a == IF IsStage(t) THEN "release" ELSE "finish"
  <1>0. /\ inbody' = inbody \ {w}
        /\ \A u \in Threads : /\ at'[u] = IF u = w THEN a ELSE at[u]
                              /\ handling'[u] = IF u = w THEN t ELSE handling[u]
    BY ThreadSets DEF EndBody, GoToWith, GoTo, JInv, TypeOK
  <1>1. /\ t \in Task /\ t # None /\ t[1] \in Jobs
        /\ t \in StageTask => a = "release"
        /\ t \notin StageTask => a = "finish"
        /\ status[t[1]] \notin {"absent", "refused"}
        /\ w \in Threads
    BY BodyTasks, ThreadSets
  <1>2. \A v \in Workers : at[v] # "loop" => cur[v][1] \in Jobs
    BY BodyTasks
  <1> HIDE DEF t, a
  <1>3. Places'
    BY <1>0, <1>1, ThreadSets DEF JInv, Places
  <1>4. Bodies'
    BY <1>0, <1>1, <1>2, ThreadSets DEF JInv, Bodies
  <1>5. StageWork'
    BY <1>0, <1>1, ThreadSets DEF JInv, StageWork
  <1>6. Begun' /\ Released'
    BY <1>0, <1>1, StaysBegun
  <1>7. ReleasedOnce'
    <2>1. ASSUME NEW u \in Threads, u # w, at'[u] = "release"
          PROVE  /\ at[u] = "release" /\ handling'[u] = handling[u]
                 /\ handling[u] # t
      BY <1>0, <2>1 DEF JInv, ReleasedOnce, t
    <2>2. \A v \in Workers : cur[v] = t => v = w
      BY <1>1, PoolFacts DEF JInv, t
    <2>3. ASSUME NEW u \in Threads, at'[u] = "release",
                 NEW v \in Threads, at'[v] = "release", handling'[v] = handling'[u]
          PROVE  v = u
      BY <1>0, <2>1, <2>3 DEF JInv, ReleasedOnce
    <2>4. ASSUME NEW u \in Threads, at'[u] = "release",
                 NEW v \in Workers, cur'[v] = handling'[u]
          PROVE  v = u /\ v \notin inbody'
      BY <1>0, <2>1, <2>2, <2>4 DEF JInv, ReleasedOnce
    <2> QED BY <2>3, <2>4 DEF ReleasedOnce
  <1>8. OwingOnce'
    BY <1>0, ThreadSets DEF JInv, OwingOnce
  <1>9. WrappedOwned'
    <2> SUFFICES ASSUME NEW s \in StageTask PROVE LaneOwner(s)' <=> LaneOwner(s)
      BY DEF JInv, WrappedOwned
    <2>1. QueuedTasks' = QueuedTasks
      BY BoxSets
    <2>2. (\E u \in Threads : handling'[u] = s /\ at'[u] \in {"submit", "reject", "release"})
            <=> \/ s = t
                \/ \E u \in Threads : handling[u] = s /\ at[u] \in {"submit", "reject", "release"}
      BY <1>0, <1>1
    <2>3. (\E v \in inbody' : cur'[v] = s) \/ s = t <=> (\E v \in inbody : cur[v] = s)
      BY <1>0 DEF t
    <2> QED BY <2>1, <2>2, <2>3 DEF LaneOwner
  <1>10. Past' \subseteq Past \cup {t}
    BY <1>0, <1>1, PastGrows DEF t
  <1>11. at[w] \notin {"start", "work"} => t \in Past
    BY <1>1 DEF Past, t
  <1> QED BY <1>0, <1>1, <1>3, <1>4, <1>5, <1>6, <1>7, <1>8, <1>9, <1>10, <1>11 DEF t

(* notify_one, and the submission is over.                                 *)
LEMMA PushedInv == ASSUME JInv, [Next]_vars, NEW th \in Threads, Pushed(th) PROVE JInv'
  <1>0. /\ at[th] = "pushing" /\ submit[th] = "pushed"
        /\ submit' = [submit EXCEPT ![th] = "out"]
        /\ UNCHANGED <<queue, cur, hand, waiting, wrapped, preparer, owing, status, cancel, packet,
                       drained>>
        /\ \/ EndBody(th) /\ th \in inbody
           \/ /\ UNCHANGED <<handling, inbody>>
              /\ \/ th \in Jobs /\ at' = [at EXCEPT ![th] = "done"]
                 \/ th \in Preparers /\ at' = [at EXCEPT ![th] = "notify"]
                 \/ th \in Workers \ inbody /\ at' = [at EXCEPT ![th] = "finish"]
    BY DEF Pushed, Pool!NotifyOne, GoTo, PoolOnly, laneVars, jobVars
  <1>1. \A v \in Workers : worker'[v] = "busy" <=> worker[v] = "busy"
    BY PoolFacts DEF Pushed, Pool!NotifyOne, JInv
  <1>2. \A u \in Threads : submit'[u] = IF u = th THEN "out" ELSE submit[u]
    BY <1>0, PoolFacts DEF JInv
  <1>3. hand[th] = None /\ Held[th] = None
    BY <1>0, PoolFacts, HeldFacts DEF JInv, Carrying
  <1>4. Boxes' = Boxes /\ QueuedTasks' = QueuedTasks /\ ParkedTasks' = ParkedTasks
        /\ DrainedTasks' = DrainedTasks /\ Live' = Live
    BY <1>0, BoxSets, SameLive
  <1>5. DrainedApart'
    BY <1>0, <1>4 DEF JInv, DrainedApart
  <1>6. /\ \A u \in Threads \ {th} : at'[u] = at[u] /\ handling'[u] = handling[u]
        /\ at'[th] \in {"release", "finish", "done", "notify"}
        /\ TypeOK' /\ Places' /\ Bodies' /\ StageWork'
        /\ Begun' /\ Released' /\ ReleasedOnce' /\ OwingOnce' /\ WrappedOwned'
        /\ Past' \subseteq Past
    <2>1. CASE EndBody(th) /\ th \in inbody
      <3>1. th \in Workers
        BY <2>1 DEF JInv, TypeOK
      <3>2. \A j \in Jobs : /\ status'[j] = "absent" <=> status[j] = "absent"
                            /\ status'[j] = "refused" <=> status[j] = "refused"
                            /\ status[j] = "failed" => status'[j] = "failed"
        BY <1>0
      <3>3. /\ \A u \in Threads \ {th} : at'[u] = at[u] /\ handling'[u] = handling[u]
            /\ at'[th] \in {"release", "finish"}
            /\ Places' /\ Bodies' /\ StageWork'
            /\ Begun' /\ Released' /\ ReleasedOnce' /\ OwingOnce' /\ WrappedOwned'
            /\ at[th] \notin {"start", "work"} => Past' \subseteq Past
        BY <1>0, <1>1, <1>2, <2>1, <3>1, <3>2, LeavesBody
      <3>4. TypeOK'
        BY <1>0, <2>1, <3>1, BodyTasks DEF JInv, TypeOK, EndBody, GoToWith, GoTo
      <3> QED BY <1>0, <3>3, <3>4
    <2>2. CASE UNCHANGED <<handling, inbody>>
      <3> DEFINE a == IF th \in Jobs THEN "done" ELSE IF th \in Preparers THEN "notify" ELSE "finish"
      <3>1. CASE EndBody(th) /\ th \in inbody
        BY <2>1, <3>1
      <3>2. CASE ~(EndBody(th) /\ th \in inbody)
        <4>1. /\ at' = [at EXCEPT ![th] = a]
              /\ \/ th \in Jobs /\ a = "done"
                 \/ th \in Preparers /\ a = "notify"
                 \/ th \in Workers \ inbody /\ a = "finish"
          BY <1>0, <3>2, ThreadSets
        <4> HIDE DEF a
        <4>2. \A u \in Threads : at'[u] = IF u = th THEN a ELSE at[u]
          BY <4>1 DEF JInv, TypeOK
        <4>3. TypeOK'
          BY <1>0, <2>2, <4>1 DEF JInv, TypeOK
        <4>4. Places'
          BY <1>0, <1>1, <1>2, <2>2, <4>1, <4>2, ThreadSets DEF JInv, Places
        <4>5. Bodies' /\ StageWork'
          BY <1>0, <2>2, <4>1, <4>2, ThreadSets DEF JInv, Bodies, StageWork
        <4>6. Past' \subseteq Past
          BY <1>0, <2>2, <4>1, <4>2, ThreadSets DEF Past
        <4>7. Begun' /\ Released'
          BY <1>0, <2>2, <4>1, <4>2, StaysBegun
        <4>8. ReleasedOnce' /\ OwingOnce'
          BY <1>0, <2>2, <4>1, <4>2, ThreadSets DEF JInv, ReleasedOnce, OwingOnce
        <4>9. WrappedOwned'
          <5> SUFFICES ASSUME NEW s \in StageTask PROVE LaneOwner(s)' <=> LaneOwner(s)
            BY <1>0 DEF JInv, WrappedOwned
          <5> QED BY <1>0, <1>4, <2>2, <4>1, <4>2 DEF LaneOwner
        <4> QED BY <2>2, <4>1, <4>2, <4>3, <4>4, <4>5, <4>6, <4>7, <4>8, <4>9
      <3> QED BY <3>1, <3>2
    <2> QED BY <1>0, <2>1, <2>2
  <1>7. Held' = Held
    <2>1. \A u \in Threads : Held'[u] = Held[u]
      BY <1>0, <1>3, <1>6 DEF Held, Carrying
    <2> QED BY <2>1 DEF Held
  <1>8. Order(Boxes, Held, Live, Past)'
    <2>1. Order(Boxes, Held, Live, Past')
      BY <1>6, Forget DEF JInv
    <2> QED BY <1>4, <1>7, <2>1
  <1>9. Readiness'
    BY <1>0, <1>3, <1>4, <1>6, <1>7, StaysReadyIdly
  <1> QED BY PartsInv, <1>5, <1>6, <1>8, <1>9 DEF JInv

(* cleanup_packet, then finish_failed or finish_cancelled.                 *)
LEMMA EndsJob ==
  ASSUME TypeOK, NEW j \in Jobs, NEW o \in {"failed", "cancelled"}, EndJob(j, o)
  PROVE  /\ status' = [status EXCEPT ![j] = o]
         /\ \A i \in Jobs : /\ status'[i] = IF i = j THEN o ELSE status[i]
                            /\ i # j => packet'[i] = packet[i]
         /\ packet'[j] \in {"none", "poisoned"}
         /\ packet' \in [Jobs -> {"none", "stored", "poisoned"}]
         /\ UNCHANGED cancel
  BY DEF TypeOK, EndJob, Cleaned

(* reject_scheduled_task of a wrapped task: its job fails, its lane is     *)
(* still to be passed on.                                                  *)
LEMMA RejectInv == ASSUME JInv, [Next]_vars, NEW th \in Threads, Reject(th) PROVE JInv'
  <1> DEFINE t == handling[th]
             j == t[1]
  <1>0. /\ at[th] = "reject"
        /\ EndJob(j, "failed")
        /\ at' = [at EXCEPT ![th] = "release"]
        /\ UNCHANGED <<queue, worker, cur, submit, hand, waiting, wrapped, preparer, owing, handling,
                       inbody, drained>>
    BY DEF Reject, GoTo, JobsOnly, poolVars, laneVars
  <1>1. /\ th \in Workers \cup Preparers /\ t \in Task /\ t # None /\ t \in StageTask
        /\ Held[th] = t /\ hand[th] = None /\ submit[th] = "out" /\ j \in Jobs
    BY <1>0, HeldFacts, SubmittersAre, Tasks DEF Carrying
  <1>l. j \in Live /\ Ready(t, status, packet) /\ status[j] = "running"
    BY <1>0, <1>1, HeldLive, Tasks DEF JInv, Readiness, HeldReady, Ready
  <1>s. /\ status' = [status EXCEPT ![j] = "failed"]
        /\ \A i \in Jobs : /\ status'[i] = IF i = j THEN "failed" ELSE status[i]
                           /\ i # j => packet'[i] = packet[i]
        /\ packet'[j] \in {"none", "poisoned"}
        /\ packet' \in [Jobs -> {"none", "stored", "poisoned"}]
        /\ UNCHANGED cancel
    BY <1>0, <1>1, EndsJob DEF JInv
  <1>2. \A u \in Threads : at'[u] = IF u = th THEN "release" ELSE at[u]
    BY <1>0 DEF JInv, TypeOK
  <1>b. \A w \in Workers : at[w] # "loop" => cur[w][1] \in Jobs
    BY BodyTasks
  <1> HIDE DEF t, j
  <1>3. TypeOK'
    BY <1>0, <1>s DEF JInv, TypeOK
  <1>4. Places'
    BY <1>0, <1>1, <1>2, <1>s, <1>l, ThreadSets DEF JInv, Places, t
  <1>5. Bodies'
    BY <1>0, <1>1, <1>2, <1>s, <1>b, ThreadSets DEF JInv, Bodies, t, j
  <1>x. StageWork'
    BY <1>0, <1>1, <1>2, ThreadSets DEF JInv, StageWork, t
  <1>6. Boxes' = Boxes /\ QueuedTasks' = QueuedTasks /\ ParkedTasks' = ParkedTasks
        /\ DrainedTasks' = DrainedTasks
    BY <1>0, BoxSets
  <1>7. Held' = [Held EXCEPT ![th] = None]
    BY <1>0, <1>1, <1>2, HeldMoves DEF Carrying
  <1>8. Live' = Live \ {j} /\ Past' \subseteq Past \cup {t}
    <2>1. Live' = Live \ {j}
      BY <1>1, <1>s, JobEnds DEF JInv
    <2>2. Past' \subseteq Past \cup {t}
      BY <1>0, <1>2, PastGrows, ThreadSets DEF Past, t
    <2> QED BY <2>1, <2>2
  <1>9. Order(Boxes, Held, Live, Past)'
    <2>1. Order(Boxes, [Held EXCEPT ![th] = None], Live \ {t[1]}, Past \cup {t})
      BY <1>1, Tokens, EndHeld DEF JInv
    <2> QED BY <1>6, <1>7, <1>8, <2>1, Forget DEF j
  <1>10. Readiness'
    <2>1. \A u \in Threads : Held'[u] = IF u = th THEN None ELSE Held[u]
      BY <1>7, HeldFacts
    <2>2. \A i \in Jobs \ {j} : status'[i] = status[i] /\ packet'[i] = packet[i]
      BY <1>s
    <2>3. \A u \in Boxes' : (u \in Boxes /\ u[1] # j) \/ Ready(u, status', packet')
      BY <1>1, <1>6, <1>l, HeldAlone DEF j
    <2>4. \A u \in Threads \ {th} :
            /\ at'[u] = at[u] /\ Held'[u] = Held[u]
            /\ Held[u] # None => Held[u][1] # j \/ HeldReady(at[u], Held[u], status', packet')
      BY <1>1, <1>2, <2>1, <1>l, HeldAlone DEF j
    <2>5. PacketsPut'
      BY <1>s DEF JInv, Readiness, PacketsPut
    <2>6. Held'[th] = None
      BY <2>1
    <2> QED BY <1>1, <2>2, <2>3, <2>4, <2>5, <2>6, StaysReady
  <1>11. Begun' /\ Released'
    BY <1>0, <1>1, <1>2, <1>s, StaysBegun DEF t, j
  <1>12. ReleasedOnce' /\ OwingOnce'
    <2>1. /\ \A w \in Workers : cur[w] # t
          /\ \A u \in Threads : at[u] = "release" => handling[u] # t
      <3>1. \A w \in Workers : cur[w] = t => w = th /\ at[w] \in {"start", "work"}
        BY <1>1, <1>l, NotPast DEF j
      <3>2. t \notin Past
        BY <1>1, <1>l, NotPast DEF j
      <3> QED BY <1>0, <1>1, <3>1, <3>2 DEF Past
    <2> QED BY <1>0, <1>2, <2>1, ThreadSets DEF JInv, ReleasedOnce, OwingOnce, t
  <1>13. WrappedOwned'
    <2> SUFFICES ASSUME NEW s \in StageTask PROVE LaneOwner(s)' <=> LaneOwner(s)
      BY <1>0 DEF JInv, WrappedOwned
    <2> QED BY <1>0, <1>2, <1>6 DEF LaneOwner
  <1>14. DrainedApart'
    BY <1>0, <1>6 DEF JInv, DrainedApart
  <1> QED BY PartsInv, <1>3, <1>4, <1>5, <1>x, <1>9, <1>10, <1>11, <1>12, <1>13, <1>14 DEF JInv

(* ---------------------------------------------------------------------- *)
(* finish_lane: the lane passes to the head of `waiting` ...               *)
LEMMA HandLaneInv == ASSUME JInv, [Next]_vars, NEW th \in Threads, HandLane(th) PROVE JInv'
  <1> DEFINE t == handling[th]
             b == Home[t]
             h == Head(waiting[b])
  <1>0. /\ at[th] = "release" /\ waiting[b] # <<>>
        /\ wrapped' = (wrapped \ {t}) \cup {h}
        /\ waiting' = [waiting EXCEPT ![b] = Tail(@)]
        /\ at' = [at EXCEPT ![th] = "submit"]
        /\ handling' = [handling EXCEPT ![th] = h]
        /\ UNCHANGED <<queue, worker, cur, submit, hand, preparer, owing, status, cancel, packet,
                       inbody, drained>>
    BY DEF HandLane, GoToWith, GoTo, LanesOnly, poolVars, jobVars, Lanes!HandLane
  <1>1. /\ th \in Workers \cup Preparers /\ t \in StageTask /\ b \in Backends
        /\ Held[th] = None /\ hand[th] = None /\ submit[th] = "out"
    BY <1>0, HeldFacts, SubmittersAre, LanesApply DEF Carrying, LanesP!HomeAssumption
  <1>h. /\ h \in StageTask /\ h \in ParkedTasks /\ h \notin wrapped
        /\ ParkedTasks' = ParkedTasks \ {h}
    BY <1>0, <1>1, Unparks DEF JInv
  <1>t. /\ t \in wrapped /\ t \notin Boxes
        /\ \A u \in Threads : hand[u] # t
        /\ \A u \in Threads : handling[u] = t /\ at[u] \in {"submit", "reject", "release"} => u = th
        /\ \A w \in inbody : cur[w] # t
    BY <1>0, ReleasedAlone
  <1>2. \A u \in Threads : /\ at'[u] = IF u = th THEN "submit" ELSE at[u]
                           /\ handling'[u] = IF u = th THEN h ELSE handling[u]
    BY <1>0 DEF JInv, TypeOK
  <1>a. /\ h \in Task /\ h # None /\ h[2] > 0 /\ h # t /\ h \in Boxes
        /\ h \notin QueuedTasks /\ h \notin DrainedTasks
        /\ Ready(h, status, packet)
    <2>1. h \in Boxes
      BY <1>h DEF Boxes
    <2> QED BY <1>h, <1>t, <2>1, BoxLive, BoxesApart, Tasks
  <1>b. th \in Workers /\ th \in inbody => status[cur[th][1]] = "failed"
    BY <1>0 DEF JInv, Bodies
  <1> HIDE DEF t, b, h
  <1>3. TypeOK'
    BY <1>0, <1>a DEF JInv, TypeOK
  <1>4. Places'
    BY <1>0, <1>1, <1>2, <1>a, ThreadSets DEF JInv, Places
  <1>5. Bodies' /\ StageWork'
    BY <1>0, <1>1, <1>2, <1>a, <1>b, <1>h, ThreadSets DEF JInv, Bodies, StageWork
  <1>6. /\ QueuedTasks' = QueuedTasks /\ DrainedTasks' = DrainedTasks
        /\ Boxes' = Boxes \ {h}
    <2>1. QueuedTasks' = QueuedTasks /\ DrainedTasks' = DrainedTasks
      BY <1>0, BoxSets
    <2> QED BY <1>a, <1>h, <2>1 DEF Boxes
  <1>7. Held' = [Held EXCEPT ![th] = h]
    BY <1>0, <1>2, HeldMoves DEF Carrying
  <1>8. Live' = Live /\ Past' \subseteq Past
    <2>1. Live' = Live
      BY <1>0, SameLive
    <2>2. Past' \subseteq Past \cup {}
      BY <1>0, <1>2, PastGrows DEF Past
    <2> QED BY <2>1, <2>2
  <1>9. Order(Boxes, Held, Live, Past)'
    <2>1. Order(Boxes \ {h}, [Held EXCEPT ![th] = h], Live, Past)
      BY <1>1, <1>a, Tokens, PickUp DEF JInv
    <2> QED BY <1>6, <1>7, <1>8, <2>1, Forget
  <1>10. Readiness'
    <2>1. \A u \in Threads : Held'[u] = IF u = th THEN h ELSE Held[u]
      BY <1>7, HeldFacts
    <2>2. HeldReady("submit", h, status, packet)
      BY <1>a DEF HeldReady
    <2> QED BY <1>0, <1>2, <1>6, <2>1, <2>2, StaysReadyIdly
  <1>11. Begun' /\ Released'
    BY <1>0, <1>2, StaysBegun
  <1>12. ReleasedOnce' /\ OwingOnce'
    BY <1>0, <1>2, ThreadSets DEF JInv, ReleasedOnce, OwingOnce
  <1>13. WrappedOwned'
    <2> SUFFICES ASSUME NEW s \in StageTask
                 PROVE  LaneOwner(s)' <=> (LaneOwner(s) /\ s # t) \/ s = h
      BY <1>0, <1>a DEF JInv, WrappedOwned
    <2>1. CASE s = t
      BY <1>0, <1>2, <1>6, <1>t, <1>a, <2>1 DEF LaneOwner, Boxes
    <2>2. CASE s = h
      BY <1>2, <2>2 DEF LaneOwner
    <2>3. CASE s # t /\ s # h
      BY <1>0, <1>2, <1>6, <2>3 DEF LaneOwner, t
    <2> QED BY <2>1, <2>2, <2>3
  <1>14. DrainedApart'
    BY <1>0, <1>6, <1>a, <1>h DEF JInv, DrainedApart
  <1> QED BY PartsInv, <1>3, <1>4, <1>5, <1>9, <1>10, <1>11, <1>12, <1>13, <1>14 DEF JInv

(* ... or is freed, and the thread owes a notification.                    *)
LEMMA FreeLaneInv == ASSUME JInv, [Next]_vars, NEW th \in Threads, FreeLane(th) PROVE JInv'
  <1> DEFINE t == handling[th]
             b == Home[t]
  <1>0. /\ at[th] = "release"
        /\ wrapped' = wrapped \ {t}
        /\ owing' = [owing EXCEPT ![b] = @ \cup {th}]
        /\ at' = [at EXCEPT ![th] = "notify"]
        /\ UNCHANGED <<queue, worker, cur, submit, hand, waiting, preparer, status, cancel, packet,
                       handling, inbody, drained>>
    BY DEF FreeLane, GoTo, LanesOnly, poolVars, jobVars, Lanes!FreeLane
  <1>1. /\ th \in Workers \cup Preparers /\ t \in StageTask /\ b \in Backends
        /\ Held[th] = None /\ hand[th] = None /\ submit[th] = "out"
    BY <1>0, HeldFacts, SubmittersAre, LanesApply DEF Carrying, LanesP!HomeAssumption
  <1>t. /\ t \in wrapped /\ t \notin Boxes
        /\ \A u \in Threads : hand[u] # t
        /\ \A u \in Threads : handling[u] = t /\ at[u] \in {"submit", "reject", "release"} => u = th
        /\ \A w \in inbody : cur[w] # t
    BY <1>0, ReleasedAlone
  <1>2. /\ \A u \in Threads : at'[u] = IF u = th THEN "notify" ELSE at[u]
        /\ \A c \in Backends : owing'[c] = IF c = b THEN owing[b] \cup {th} ELSE owing[c]
    BY <1>0, LaneFacts DEF JInv, TypeOK
  <1> HIDE DEF t, b
  <1>3. TypeOK'
    BY <1>0 DEF JInv, TypeOK
  <1>4. Places'
    BY <1>0, <1>1, <1>2, ThreadSets DEF JInv, Places
  <1>5. Bodies' /\ StageWork'
    BY <1>0, <1>2, ThreadSets DEF JInv, Bodies, StageWork
  <1>6. Boxes' = Boxes /\ QueuedTasks' = QueuedTasks /\ ParkedTasks' = ParkedTasks
        /\ DrainedTasks' = DrainedTasks
    BY <1>0, BoxSets
  <1>7. Held' = Held
    <2>1. \A u \in Threads : Held'[u] = Held[u]
      BY <1>0, <1>2 DEF Held, Carrying
    <2> QED BY <2>1 DEF Held
  <1>8. Live' = Live /\ Past' \subseteq Past
    <2>1. Live' = Live
      BY <1>0, SameLive
    <2>2. Past' \subseteq Past \cup {}
      BY <1>0, <1>2, PastGrows DEF Past
    <2> QED BY <2>1, <2>2
  <1>9. Order(Boxes, Held, Live, Past)'
    <2>1. Order(Boxes, Held, Live, Past')
      BY <1>8, Forget DEF JInv
    <2> QED BY <1>6, <1>7, <1>8, <2>1
  <1>10. Readiness'
    BY <1>0, <1>1, <1>2, <1>6, <1>7, StaysReadyIdly
  <1>11. Begun' /\ Released'
    BY <1>0, <1>2, StaysBegun
  <1>12. ReleasedOnce' /\ OwingOnce'
    <2>1. ReleasedOnce'
      BY <1>0, <1>2, ThreadSets DEF JInv, ReleasedOnce
    <2>2. th \in Workers => \A c \in Backends : th \notin owing[c]
      BY <1>0 DEF JInv, OwingOnce
    <2>3. OwingOnce'
      BY <1>0, <1>2, <2>2, ThreadSets DEF JInv, OwingOnce
    <2> QED BY <2>1, <2>3
  <1>13. WrappedOwned'
    <2> SUFFICES ASSUME NEW s \in StageTask
                 PROVE  LaneOwner(s)' <=> LaneOwner(s) /\ s # t
      BY <1>0 DEF JInv, WrappedOwned
    <2>1. CASE s = t
      BY <1>0, <1>2, <1>6, <1>t, <2>1 DEF LaneOwner, Boxes
    <2>2. CASE s # t
      BY <1>0, <1>2, <1>6, <2>2 DEF LaneOwner, t
    <2> QED BY <2>1, <2>2
  <1>14. DrainedApart'
    BY <1>0, <1>6 DEF JInv, DrainedApart
  <1> QED BY PartsInv, <1>3, <1>4, <1>5, <1>9, <1>10, <1>11, <1>12, <1>13, <1>14 DEF JInv

(* prepare_wake.notify_all; a body whose submission was refused fails.     *)
LEMMA NotifyPreparersInv ==
  ASSUME JInv, [Next]_vars, NEW th \in Threads, NotifyPreparers(th)
  PROVE  JInv'
  <1> DEFINE t == cur[th]
  <1>0. /\ at[th] = "notify"
        /\ UNCHANGED <<queue, worker, cur, submit, hand, waiting, wrapped, status, cancel, packet,
                       inbody, drained>>
        /\ \/ th \in Preparers /\ at' = [at EXCEPT ![th] = "done"] /\ UNCHANGED handling
           \/ /\ th \in inbody /\ at' = [at EXCEPT ![th] = "fail"]
              /\ handling' = [handling EXCEPT ![th] = t]
           \/ th \in Workers \ inbody /\ at' = [at EXCEPT ![th] = "finish"] /\ UNCHANGED handling
    BY DEF NotifyPreparers, GoToWith, GoTo, LanesOnly, poolVars, jobVars, Lanes!NotifyPreparers
  <1>p. PICK b \in Backends : /\ th \in owing[b]
                              /\ owing' = [owing EXCEPT ![b] = @ \ {th}]
                              /\ preparer' = Lanes!Wake(b)
    BY DEF NotifyPreparers, Lanes!NotifyPreparers
  <1>1. /\ Held[th] = None /\ hand[th] = None /\ submit[th] = "out"
        /\ inbody \subseteq Workers
    BY <1>0, HeldFacts DEF Carrying, JInv, TypeOK
  <1>t. th \in inbody => /\ t \in Task /\ t # None /\ status[t[1]] = "failed" /\ t[1] \notin Live
    <2> HAVE th \in inbody
    <2>1. th \in Workers /\ status[t[1]] = "failed"
      BY <1>0, <1>1 DEF JInv, Bodies
    <2> QED BY <1>0, <2>1, BodyTasks DEF Live, Active
  <1>q. /\ \A c \in Backends : owing'[c] = IF c = b THEN owing[b] \ {th} ELSE owing[c]
        /\ \A p \in Preparers : /\ preparer'[p] = "holding" <=> preparer[p] = "holding"
                                /\ preparer'[p] \in {"trying", "asleep"}
                                     <=> preparer[p] \in {"trying", "asleep"}
    BY <1>p, LaneFacts DEF JInv, Lanes!Wake
  <1> DEFINE a == IF th \in Preparers THEN "done" ELSE IF th \in inbody THEN "fail" ELSE "finish"
             g == IF th \in inbody THEN t ELSE handling[th]
  <1>c. /\ at' = [at EXCEPT ![th] = a]
        /\ handling' = [handling EXCEPT ![th] = g]
        /\ \/ th \in Preparers /\ a = "done" /\ th \notin inbody
           \/ th \in Workers /\ th \in inbody /\ a = "fail" /\ g = t
           \/ th \in Workers /\ th \notin inbody /\ a = "finish"
        /\ th \notin inbody => g = handling[th]
    BY <1>0, <1>1, ThreadSets DEF JInv, TypeOK
  <1> HIDE DEF t, a, g
  <1>2. \A u \in Threads : /\ at'[u] = IF u = th THEN a ELSE at[u]
                           /\ handling'[u] = IF u = th THEN g ELSE handling[u]
    BY <1>c DEF JInv, TypeOK
  <1>3. TypeOK'
    BY <1>0, <1>c, <1>t DEF JInv, TypeOK
  <1>4. Places'
    BY <1>0, <1>1, <1>2, <1>c, <1>q, ThreadSets DEF JInv, Places
  <1>5. Bodies' /\ StageWork'
    BY <1>0, <1>1, <1>2, <1>c, <1>t, ThreadSets DEF JInv, Bodies, StageWork, t
  <1>6. Boxes' = Boxes /\ QueuedTasks' = QueuedTasks /\ ParkedTasks' = ParkedTasks
        /\ DrainedTasks' = DrainedTasks
    BY <1>0, BoxSets
  <1>7. /\ a = "fail" => Held' = [Held EXCEPT ![th] = t]
        /\ a # "fail" => Held' = Held
    <2>1. CASE a = "fail"
      BY <1>0, <1>2, <1>c, <2>1, HeldMoves, ThreadSets DEF Carrying
    <2>2. CASE a # "fail"
      <3>1. \A u \in Threads : Held'[u] = Held[u]
        BY <1>0, <1>2, <1>c, <2>2 DEF Held, Carrying
      <3> QED BY <2>2, <3>1 DEF Held
    <2> QED BY <2>1, <2>2
  <1>8. Live' = Live /\ Past' \subseteq Past
    <2>1. Live' = Live
      BY <1>0, SameLive
    <2>2. Past' \subseteq Past \cup {}
      BY <1>0, <1>2, <1>c, PastGrows DEF Past
    <2> QED BY <2>1, <2>2
  <1>9. Order(Boxes, Held, Live, Past)'
    <2>1. CASE a = "fail"
      <3>1. Order(Boxes, [Held EXCEPT ![th] = t], Live, Past)
        BY <1>1, <1>c, <1>t, <2>1, Tokens, Return, ThreadSets DEF JInv
      <3> QED BY <1>6, <1>7, <1>8, <2>1, <3>1, Forget
    <2>2. CASE a # "fail"
      <3>1. Order(Boxes, Held, Live, Past')
        BY <1>8, Forget DEF JInv
      <3> QED BY <1>6, <1>7, <1>8, <2>2, <3>1
    <2> QED BY <2>1, <2>2
  <1>10. Readiness'
    <2>1. \A u \in Threads \ {th} : Held'[u] = Held[u]
      BY <1>7, HeldFacts
    <2>2. Held'[th] # None => HeldReady(at'[th], Held'[th], status, packet)
      BY <1>1, <1>2, <1>7, <1>c, <1>t, HeldFacts, ThreadSets DEF HeldReady
    <2> QED BY <1>0, <1>2, <1>6, <2>1, <2>2, StaysReadyIdly
  <1>11. Begun' /\ Released'
    BY <1>0, <1>2, <1>c, StaysBegun
  <1>12. ReleasedOnce' /\ OwingOnce'
    <2>1. ReleasedOnce'
      BY <1>0, <1>2, <1>c, ThreadSets DEF JInv, ReleasedOnce
    <2>2. th \in Workers => \A c \in Backends : th \in owing[c] => c = b
      BY <1>p DEF JInv, OwingOnce
    <2>3. OwingOnce'
      BY <1>0, <1>2, <1>q, <2>2, ThreadSets DEF JInv, OwingOnce
    <2> QED BY <2>1, <2>3
  <1>13. WrappedOwned'
    <2> SUFFICES ASSUME NEW s \in StageTask PROVE LaneOwner(s)' <=> LaneOwner(s)
      BY <1>0 DEF JInv, WrappedOwned
    <2> QED BY <1>0, <1>2, <1>6, <1>c DEF LaneOwner
  <1>14. DrainedApart'
    BY <1>0, <1>6 DEF JInv, DrainedApart
  <1> QED BY PartsInv, <1>3, <1>4, <1>5, <1>9, <1>10, <1>11, <1>12, <1>13, <1>14 DEF JInv

(* ---------------------------------------------------------------------- *)
(* worker_loop pops a task, runs it, and comes back for the next.          *)
LEMMA TakeInv == ASSUME JInv, [Next]_vars, NEW w \in Workers, Take(w) PROVE JInv'
  <1> DEFINE t == Head(queue)
  <1>0. /\ worker[w] = "idle" /\ queue # <<>>
        /\ queue' = Tail(queue)
        /\ cur' = [cur EXCEPT ![w] = t]
        /\ worker' = [worker EXCEPT ![w] = "busy"]
        /\ at' = [at EXCEPT ![w] = "start"]
        /\ handling' = [handling EXCEPT ![w] = t]
        /\ inbody' = inbody \cup {w}
        /\ UNCHANGED <<submit, hand, waiting, wrapped, preparer, owing, status, cancel, packet,
                       drained>>
    BY DEF Take, Pool!Take, GoToWith, GoTo, PoolOnly, laneVars, jobVars
  <1>1. /\ at[w] = "loop" /\ cur[w] = None /\ w \in Threads /\ w \notin inbody
        /\ Held[w] = None /\ hand[w] = None /\ submit[w] = "out"
    BY <1>0, HeldFacts, ThreadSets DEF JInv, Places, Bodies, Carrying
  <1>6. /\ ParkedTasks' = ParkedTasks /\ DrainedTasks' = DrainedTasks
        /\ QueuedTasks' = QueuedTasks \ {t} /\ t \in QueuedTasks
        /\ Boxes' = Boxes \ {t} /\ t \in Boxes
    <2>1. QueuedTasks' = Boxed(queue') /\ QueuedTasks = Boxed(queue)
      BY DEF QueuedTasks, Boxed
    <2>2. QueuedTasks' = QueuedTasks \ {t} /\ t \in QueuedTasks
      BY <1>0, <2>1, PoolFacts, Popped_front DEF JInv
    <2>3. ParkedTasks' = ParkedTasks /\ DrainedTasks' = DrainedTasks
      BY <1>0, BoxSets
    <2> QED BY <2>2, <2>3, BoxesApart DEF Boxes
  <1>t. /\ t \in Task /\ t # None /\ t[1] \in Live /\ Ready(t, status, packet) /\ t \notin Past
        /\ status[t[1]] \notin {"absent", "refused"}
    BY <1>6, BoxLive, NotPast, Tasks DEF Active
  <1> HIDE DEF t
  <1>2. /\ \A u \in Threads : /\ at'[u] = IF u = w THEN "start" ELSE at[u]
                              /\ handling'[u] = IF u = w THEN t ELSE handling[u]
        /\ \A v \in Workers : /\ cur'[v] = IF v = w THEN t ELSE cur[v]
                              /\ worker'[v] = IF v = w THEN "busy" ELSE worker[v]
    BY <1>0, PoolFacts DEF JInv, TypeOK
  <1>3. TypeOK'
    BY <1>0, <1>t DEF JInv, TypeOK
  <1>4. Places'
    BY <1>0, <1>1, <1>2, <1>t, ThreadSets DEF JInv, Places
  <1>5. Bodies' /\ StageWork'
    BY <1>0, <1>1, <1>2, ThreadSets DEF JInv, Bodies, StageWork
  <1>7. Held' = [Held EXCEPT ![w] = t]
    BY <1>0, <1>1, <1>2, HeldMoves DEF Carrying
  <1>8. Live' = Live /\ Past' \subseteq Past
    <2>1. Live' = Live
      BY <1>0, SameLive
    <2>2. Past' \subseteq Past \cup {}
      BY <1>1, <1>2, PastGrows
    <2> QED BY <2>1, <2>2
  <1>9. Order(Boxes, Held, Live, Past)'
    <2>1. Order(Boxes \ {t}, [Held EXCEPT ![w] = t], Live, Past)
      BY <1>1, <1>6, Tokens, PickUp DEF JInv
    <2> QED BY <1>6, <1>7, <1>8, <2>1, Forget
  <1>10. Readiness'
    <2>1. \A u \in Threads : Held'[u] = IF u = w THEN t ELSE Held[u]
      BY <1>7, HeldFacts
    <2>2. HeldReady("start", t, status, packet)
      BY <1>t DEF HeldReady
    <2> QED BY <1>0, <1>1, <1>2, <1>6, <2>1, <2>2, StaysReadyIdly
  <1>11. Begun' /\ Released'
    BY <1>0, <1>1, <1>2, <1>t, StaysBegun
  <1>12. ReleasedOnce' /\ OwingOnce'
    <2>1. \A u \in Threads : at[u] = "release" => handling[u] # t
      BY <1>t DEF Past
    <2>2. ReleasedOnce'
      BY <1>0, <1>1, <1>2, <2>1, ThreadSets DEF JInv, ReleasedOnce
    <2>3. OwingOnce'
      BY <1>0, <1>1, <1>2, ThreadSets DEF JInv, OwingOnce
    <2> QED BY <2>2, <2>3
  <1>13. WrappedOwned'
    <2> SUFFICES ASSUME NEW s \in StageTask PROVE LaneOwner(s)' <=> LaneOwner(s)
      BY <1>0 DEF JInv, WrappedOwned
    <2>1. s # None
      BY Tasks
    <2>2. CASE s = t
      BY <1>0, <1>2, <1>6, <2>2 DEF LaneOwner
    <2>3. CASE s # t
      <3>1. QueuedTasks' \ {t} = QueuedTasks \ {t}
        BY <1>6
      <3>2. (\E v \in inbody' : cur'[v] = s) <=> \E v \in inbody : cur[v] = s
        BY <1>0, <1>1, <1>2, <2>1, <2>3 DEF JInv, TypeOK
      <3>3. (\E u \in Threads : handling'[u] = s /\ at'[u] \in {"submit", "reject", "release"})
              <=> \E u \in Threads : handling[u] = s /\ at[u] \in {"submit", "reject", "release"}
        BY <1>1, <1>2
      <3> QED BY <1>0, <2>3, <3>1, <3>2, <3>3 DEF LaneOwner
    <2> QED BY <2>2, <2>3
  <1>14. DrainedApart'
    BY <1>0, <1>6 DEF JInv, DrainedApart
  <1> QED BY PartsInv, <1>3, <1>4, <1>5, <1>9, <1>10, <1>11, <1>12, <1>13, <1>14 DEF JInv

LEMMA FinishInv == ASSUME JInv, [Next]_vars, NEW w \in Workers, Finish(w) PROVE JInv'
  <1>0. /\ at[w] = "finish"
        /\ cur' = [cur EXCEPT ![w] = None]
        /\ worker' = [worker EXCEPT ![w] = "idle"]
        /\ at' = [at EXCEPT ![w] = "loop"]
        /\ handling' = [handling EXCEPT ![w] = None]
        /\ UNCHANGED <<queue, submit, hand, waiting, wrapped, preparer, owing, status, cancel, packet,
                       inbody, drained>>
    BY DEF Finish, Pool!Finish, GoToWith, GoTo, PoolOnly, laneVars, jobVars
  <1>1. /\ w \in Threads /\ w \notin inbody
        /\ Held[w] = None /\ hand[w] = None /\ submit[w] = "out"
    BY <1>0, HeldFacts, ThreadSets DEF JInv, Bodies, Carrying
  <1>2. /\ \A u \in Threads : /\ at'[u] = IF u = w THEN "loop" ELSE at[u]
                              /\ handling'[u] = IF u = w THEN None ELSE handling[u]
        /\ \A v \in Workers : /\ cur'[v] = IF v = w THEN None ELSE cur[v]
                              /\ worker'[v] = IF v = w THEN "idle" ELSE worker[v]
    BY <1>0, PoolFacts DEF JInv, TypeOK
  <1>3. TypeOK'
    BY <1>0 DEF JInv, TypeOK
  <1>4. Places'
    BY <1>0, <1>1, <1>2, ThreadSets DEF JInv, Places
  <1>5. Bodies' /\ StageWork'
    BY <1>0, <1>1, <1>2, ThreadSets DEF JInv, Bodies, StageWork
  <1>6. Boxes' = Boxes /\ QueuedTasks' = QueuedTasks /\ ParkedTasks' = ParkedTasks
        /\ DrainedTasks' = DrainedTasks
    BY <1>0, BoxSets
  <1>7. Held' = Held
    <2>1. \A u \in Threads : Held'[u] = Held[u]
      BY <1>0, <1>2 DEF Held, Carrying
    <2> QED BY <2>1 DEF Held
  <1>8. Live' = Live /\ Past' \subseteq Past
    <2>1. Live' = Live
      BY <1>0, SameLive
    <2>2. /\ w \in Threads
          /\ \A u \in Threads \ {w} : at'[u] = at[u] /\ handling'[u] = handling[u]
          /\ \A v \in Workers \ {w} : cur'[v] = cur[v]
      BY <1>1, <1>2
    <2>3. None \notin Task
      BY Tasks
    <2>4. cur'[w] = None /\ at'[w] # "release"
      BY <1>1, <1>2
    <2>5. Past' \subseteq Past \cup {}
      BY <2>2, <2>3, <2>4, PastGrows
    <2> QED BY <2>1, <2>5
  <1>9. Order(Boxes, Held, Live, Past)'
    <2>1. Order(Boxes, Held, Live, Past')
      BY <1>8, Forget DEF JInv
    <2> QED BY <1>6, <1>7, <1>8, <2>1
  <1>10. Readiness'
    BY <1>0, <1>1, <1>2, <1>6, <1>7, StaysReadyIdly
  <1>11. Begun' /\ Released'
    BY <1>0, <1>2, StaysBegun
  <1>12. ReleasedOnce' /\ OwingOnce'
    <2>1. \A u \in Threads : at[u] = "release" => handling[u] # None
      BY SubmittersAre, Tasks
    <2> QED BY <1>0, <1>2, <2>1, ThreadSets DEF JInv, ReleasedOnce, OwingOnce
  <1>13. WrappedOwned'
    <2> SUFFICES ASSUME NEW s \in StageTask PROVE LaneOwner(s)' <=> LaneOwner(s)
      BY <1>0 DEF JInv, WrappedOwned
    <2>1. (\E v \in inbody' : cur'[v] = s) <=> \E v \in inbody : cur[v] = s
      BY <1>0, <1>1, <1>2 DEF JInv, TypeOK
    <2>2. (\E u \in Threads : handling'[u] = s /\ at'[u] \in {"submit", "reject", "release"})
            <=> \E u \in Threads : handling[u] = s /\ at[u] \in {"submit", "reject", "release"}
      BY <1>0, <1>1, <1>2
    <2> QED BY <1>0, <1>6, <2>1, <2>2 DEF LaneOwner
  <1>14. DrainedApart'
    BY <1>0, <1>6 DEF JInv, DrainedApart
  <1> QED BY PartsInv, <1>3, <1>4, <1>5, <1>9, <1>10, <1>11, <1>12, <1>13, <1>14 DEF JInv

(* ---------------------------------------------------------------------- *)
(* A body ends and its job with it.                                        *)
LEMMA BodyEndsInv ==
  ASSUME JInv, [Next]_vars, NEW w \in Workers, EndBody(w), at[w] \in {"start", "work", "fail"},
         NEW o \in {"completed", "failed", "cancelled"},
         status' = [status EXCEPT ![cur[w][1]] = o],
         status[cur[w][1]] = "failed" => o = "failed",
         \A i \in Jobs : i # cur[w][1] => packet'[i] = packet[i],
         packet'[cur[w][1]] \in {"none", "poisoned"},
         packet' \in [Jobs -> {"none", "stored", "poisoned"}],
         UNCHANGED <<queue, worker, cur, submit, hand, waiting, wrapped, preparer, owing, cancel,
                     drained>>
  PROVE  JInv'
  <1> DEFINE t == cur[w]
             j == cur[w][1]
  <1>1. /\ t \in Task /\ t # None /\ j \in Jobs /\ w \in Threads /\ w \in inbody
        /\ status[j] \notin {"absent", "refused"}
        /\ Held[w] = handling[w] /\ Held[w] # None /\ Held[w] \in Task /\ Held[w][1] = j
        /\ hand[w] = None /\ submit[w] = "out"
    BY BodyTasks, HeldFacts, ThreadSets DEF Carrying, JInv, Bodies
  <1>s. \A i \in Jobs : status'[i] = IF i = j THEN o ELSE status[i]
    BY DEF JInv, TypeOK
  <1>2. /\ \A u \in Threads \ {w} : at'[u] = at[u] /\ handling'[u] = handling[u]
        /\ at'[w] \in {"release", "finish"}
        /\ Places' /\ Bodies' /\ StageWork'
        /\ Begun' /\ Released' /\ ReleasedOnce' /\ OwingOnce' /\ WrappedOwned'
        /\ Past' \subseteq Past \cup {t}
    <2>1. \A u \in Threads : submit'[u] = IF u = w THEN "out" ELSE submit[u]
      BY <1>1
    <2>2. \A i \in Jobs : /\ status'[i] = "absent" <=> status[i] = "absent"
                          /\ status'[i] = "refused" <=> status[i] = "refused"
                          /\ status[i] = "failed" => status'[i] = "failed"
      BY <1>1, <1>s
    <2>3. UNCHANGED <<queue, cur, hand, wrapped, preparer, owing, drained>>
      OBVIOUS
    <2>4. \A v \in Workers : worker'[v] = "busy" <=> worker[v] = "busy"
      OBVIOUS
    <2> QED BY <1>1, <2>1, <2>2, <2>3, <2>4, LeavesBody
  <1>3. TypeOK'
    BY <1>1 DEF JInv, TypeOK, EndBody, GoToWith, GoTo
  <1> HIDE DEF t, j
  <1>6. Boxes' = Boxes /\ QueuedTasks' = QueuedTasks /\ ParkedTasks' = ParkedTasks
        /\ DrainedTasks' = DrainedTasks
    BY BoxSets
  <1>7. Held' = [Held EXCEPT ![w] = None]
    BY <1>1, <1>2, HeldMoves DEF Carrying
  <1>8. Live' = Live \ {j}
    BY <1>1, JobEnds DEF JInv, j
  <1>9. Order(Boxes, Held, Live, Past)'
    <2>1. t[1] = Held[w][1] /\ t[1] = j
      BY <1>1 DEF t, j
    <2>2. Order(Boxes, [Held EXCEPT ![w] = None], Live \ {t[1]}, Past \cup {t})
      BY <1>1, <2>1, Tokens, EndHeld DEF JInv
    <2> QED BY <1>2, <1>6, <1>7, <1>8, <2>1, <2>2, Forget
  <1>10. Readiness'
    <2>1. \A u \in Threads : Held'[u] = IF u = w THEN None ELSE Held[u]
      BY <1>7, HeldFacts
    <2>2. \A i \in Jobs \ {j} : status'[i] = status[i] /\ packet'[i] = packet[i]
      BY <1>s DEF j
    <2>3. \A u \in Boxes' : (u \in Boxes /\ u[1] # j) \/ Ready(u, status', packet')
      <3>1. \A u \in Boxes : u[1] # j
        BY <1>1, BoxAlone
      <3> QED BY <1>6, <3>1
    <2>4. \A u \in Threads \ {w} :
            /\ at'[u] = at[u] /\ Held'[u] = Held[u]
            /\ Held[u] # None => Held[u][1] # j \/ HeldReady(at[u], Held[u], status', packet')
      <3>1. ASSUME NEW u \in Threads \ {w}, Held[u] # None, Held[u][1] = j
            PROVE  HeldReady(at[u], Held[u], status', packet')
        <4>1. j \notin Live
          BY <1>1, <3>1, HeldAlone
        <4>2. at[u] = "fail" /\ status[j] = "failed"
          BY <3>1, <4>1, HeldLive
        <4>3. status'[Held[u][1]] = "failed"
          BY <1>1, <1>s, <3>1, <4>2 DEF j
        <4> QED BY <4>2, <4>3 DEF HeldReady
      <3> QED BY <1>2, <2>1, <3>1
    <2>5. PacketsPut'
      BY <1>1, <1>s, <2>2 DEF JInv, Readiness, PacketsPut, j
    <2>6. Held'[w] = None
      BY <1>1, <2>1
    <2> QED BY <1>1, <2>2, <2>3, <2>4, <2>5, <2>6, StaysReady
  <1>14. DrainedApart'
    BY <1>6 DEF JInv, DrainedApart
  <1> QED BY PartsInv, <1>2, <1>3, <1>9, <1>10, <1>14 DEF JInv

(* What a worker runs is what it holds, and finds its job as it should.    *)
LEMMA AtWork ==
  ASSUME JInv, NEW w \in Workers, at[w] \in {"start", "work"}
  PROVE  /\ cur[w] \in Task /\ cur[w] # None /\ cur[w][1] \in Jobs /\ w \in Threads /\ w \in inbody
         /\ Held[w] = cur[w] /\ handling[w] = cur[w]
         /\ hand[w] = None /\ submit[w] = "out"
         /\ cur[w][1] \in Live /\ status[cur[w][1]] # "failed"
         /\ at[w] = "start" => Ready(cur[w], status, packet)
         /\ at[w] = "work" => /\ status[cur[w][1]] = "running"
                              /\ packet[cur[w][1]] = IF IsStage(cur[w]) THEN "stored" ELSE "none"
  <1>1. /\ cur[w] \in Task /\ cur[w] # None /\ cur[w][1] \in Jobs /\ w \in Threads /\ w \in inbody
        /\ Held[w] = cur[w] /\ handling[w] = cur[w]
        /\ hand[w] = None /\ submit[w] = "out"
    BY BodyTasks, HeldFacts, ThreadSets DEF Carrying, JInv, Bodies
  <1>2. cur[w][1] \in Live
    BY <1>1, HeldLive
  <1>3. HeldReady(at[w], cur[w], status, packet)
    BY <1>1 DEF JInv, Readiness
  <1> QED BY <1>1, <1>2, <1>3 DEF HeldReady, Live, Active

(* finish_cancelled, finish_failed, finish_completed, and a panic.         *)
LEMMA EndsInv ==
  ASSUME JInv, [Next]_vars, NEW w \in Workers,
         \/ StartCancelled(w) \/ StepFails(w) \/ DecodeDone(w) \/ StagePanics(w)
         \/ StageCancelled(w) \/ BodyFails(w)
  PROVE  JInv'
  <1> DEFINE j == cur[w][1]
  <1>0. UNCHANGED <<queue, worker, cur, submit, hand, waiting, wrapped, preparer, owing, drained>>
    BY DEF StartCancelled, StepFails, DecodeDone, StagePanics, StageCancelled, BodyFails, JobsOnly,
           poolVars, laneVars
  <1>1. at[w] \in {"start", "work", "fail"} /\ EndBody(w)
    BY DEF StartCancelled, StepFails, DecodeDone, StagePanics, StageCancelled, BodyFails
  <1>2. cur[w][1] \in Jobs
    BY <1>1, BodyTasks
  <1>3. at[w] # "fail" => status[cur[w][1]] # "failed"
    BY <1>1, AtWork
  <1>4. ASSUME NEW o \in {"failed", "cancelled"}, EndJob(cur[w][1], o),
               at[w] = "fail" => o = "failed"
        PROVE  JInv'
    <2>1. /\ status' = [status EXCEPT ![cur[w][1]] = o]
          /\ \A i \in Jobs : i # cur[w][1] => packet'[i] = packet[i]
          /\ packet'[cur[w][1]] \in {"none", "poisoned"}
          /\ packet' \in [Jobs -> {"none", "stored", "poisoned"}]
          /\ UNCHANGED cancel
      BY <1>2, <1>4, EndsJob DEF JInv
    <2>2. status[cur[w][1]] = "failed" => o = "failed"
      BY <1>3, <1>4
    <2>3. o \in {"completed", "failed", "cancelled"}
      OBVIOUS
    <2>4. UNCHANGED <<queue, worker, cur, submit, hand, waiting, wrapped, preparer, owing, cancel,
                      drained>>
      BY <1>0, <2>1
    <2> QED BY <1>1, <2>1, <2>2, <2>3, <2>4, BodyEndsInv
  <1>5. CASE StartCancelled(w) \/ StageCancelled(w)
    BY <1>4, <1>5 DEF StartCancelled, StageCancelled
  <1>6. CASE StepFails(w) \/ BodyFails(w)
    BY <1>4, <1>6 DEF StepFails, BodyFails
  <1>7. CASE DecodeDone(w)
    <2>1. /\ status' = [status EXCEPT ![cur[w][1]] = "completed"]
          /\ at[w] = "work" /\ IsDecode(cur[w])
          /\ UNCHANGED <<packet, cancel>>
      BY <1>7 DEF DecodeDone
    <2>2. packet[cur[w][1]] = "none"
      <3>1. ~IsStage(cur[w])
        BY <2>1, AtWork, Tasks DEF IsStage, IsDecode
      <3> QED BY <2>1, <3>1, AtWork
    <2>3. packet' \in [Jobs -> {"none", "stored", "poisoned"}]
      BY <2>1 DEF JInv, TypeOK
    <2>4. status[cur[w][1]] # "failed"
      BY <1>3, <2>1
    <2>5. UNCHANGED <<queue, worker, cur, submit, hand, waiting, wrapped, preparer, owing, cancel,
                      drained>>
      BY <1>0, <2>1
    <2>6. \A i \in Jobs : i # cur[w][1] => packet'[i] = packet[i]
      BY <2>1
    <2>7. packet'[cur[w][1]] \in {"none", "poisoned"}
      BY <2>1, <2>2
    <2>8. status[cur[w][1]] = "failed" => "completed" = "failed"
      BY <2>4
    <2>9. "completed" \in {"completed", "failed", "cancelled"}
      OBVIOUS
    <2> QED BY <1>1, <2>1, <2>3, <2>5, <2>6, <2>7, <2>8, <2>9, BodyEndsInv
  <1>8. CASE StagePanics(w)
    <2>1. /\ status' = [status EXCEPT ![cur[w][1]] = "failed"]
          /\ packet' = [packet EXCEPT ![cur[w][1]] = "poisoned"]
          /\ UNCHANGED cancel
      BY <1>8 DEF StagePanics
    <2>2. /\ \A i \in Jobs : i # cur[w][1] => packet'[i] = packet[i]
          /\ packet'[cur[w][1]] \in {"none", "poisoned"}
          /\ packet' \in [Jobs -> {"none", "stored", "poisoned"}]
      BY <1>2, <2>1 DEF JInv, TypeOK
    <2>3. UNCHANGED <<queue, worker, cur, submit, hand, waiting, wrapped, preparer, owing, cancel,
                      drained>>
      BY <1>0, <2>1
    <2> QED BY <1>1, <2>1, <2>2, <2>3, BodyEndsInv
  <1> QED BY <1>5, <1>6, <1>7, <1>8

(* mark_running; stage and decode steps get at their packet.               *)
LEMMA StartInv == ASSUME JInv, [Next]_vars, NEW w \in Workers, Start(w) PROVE JInv'
  <1> DEFINE t == cur[w]
             j == cur[w][1]
  <1>0. /\ at[w] = "start"
        /\ status' = IF t[2] = 0 THEN [status EXCEPT ![j] = "running"] ELSE status
        /\ packet' = IF IsDecode(t) THEN [packet EXCEPT ![j] = "none"] ELSE packet
        /\ at' = [at EXCEPT ![w] = "work"]
        /\ UNCHANGED <<queue, worker, cur, submit, hand, waiting, wrapped, preparer, owing, cancel,
                       handling, inbody, drained>>
    BY DEF Start, GoTo, JobsOnly, poolVars, laneVars
  <1>1. /\ t \in Task /\ t # None /\ j \in Jobs /\ w \in Threads /\ w \in inbody
        /\ Held[w] = t /\ handling[w] = t /\ t[1] = j
        /\ hand[w] = None /\ submit[w] = "out"
        /\ j \in Live /\ status[j] \in {"queued", "running"} /\ Ready(t, status, packet)
    BY <1>0, AtWork DEF Live, Active
  <1>d. /\ t[2] = 0 => ~IsDecode(t) /\ ~IsStage(t)
        /\ t[2] > 0 /\ ~IsDecode(t) => IsStage(t)
        /\ IsDecode(t) => ~IsStage(t)
        /\ t[2] = 0 \/ t[2] > 0
    BY <1>1, Tasks DEF IsStage, IsDecode
  <1> HIDE DEF t, j
  <1>2. \A u \in Threads : at'[u] = IF u = w THEN "work" ELSE at[u]
    BY <1>0 DEF JInv, TypeOK
  <1>s. /\ status'[j] = "running"
        /\ packet'[j] = IF IsStage(t) THEN "stored" ELSE "none"
        /\ \A i \in Jobs \ {j} : status'[i] = status[i] /\ packet'[i] = packet[i]
    BY <1>0, <1>1, <1>d DEF JInv, TypeOK, Ready
  <1>3. TypeOK'
    BY <1>0, <1>1 DEF JInv, TypeOK
  <1>f. \A i \in Jobs : /\ status'[i] = "absent" <=> status[i] = "absent"
                        /\ status'[i] = "refused" <=> status[i] = "refused"
                        /\ status'[i] = "failed" <=> status[i] = "failed"
    BY <1>1, <1>s
  <1>4. Places'
    BY <1>0, <1>1, <1>2, <1>f, ThreadSets DEF JInv, Places
  <1>5. Bodies' /\ StageWork'
    <2>1. \A v \in Workers : at[v] # "loop" => cur[v][1] \in Jobs
      BY BodyTasks
    <2>2. Bodies'
      BY <1>0, <1>1, <1>2, <1>f, <2>1, ThreadSets DEF JInv, Bodies, t
    <2>3. StageWork'
      BY <1>0, <1>1, <1>2, ThreadSets DEF JInv, StageWork
    <2> QED BY <2>2, <2>3
  <1>6. Boxes' = Boxes /\ QueuedTasks' = QueuedTasks /\ ParkedTasks' = ParkedTasks
        /\ DrainedTasks' = DrainedTasks
    BY <1>0, BoxSets
  <1>7. Held' = Held
    <2>1. \A u \in Threads : Held'[u] = Held[u]
      BY <1>0, <1>2 DEF Held, Carrying
    <2> QED BY <2>1 DEF Held
  <1>8. Live' = Live /\ Past' \subseteq Past
    <2>1. Live' = Live
      BY <1>1, <1>s DEF Live, Active
    <2>2. Past' \subseteq Past \cup {}
      BY <1>0, <1>1, <1>2, PastGrows
    <2> QED BY <2>1, <2>2
  <1>9. Order(Boxes, Held, Live, Past)'
    <2>1. Order(Boxes, Held, Live, Past')
      BY <1>8, Forget DEF JInv
    <2> QED BY <1>6, <1>7, <1>8, <2>1
  <1>10. Readiness'
    <2>1. \A u \in Boxes' : (u \in Boxes /\ u[1] # j) \/ Ready(u, status', packet')
      BY <1>1, <1>6, HeldAlone
    <2>2. \A u \in Threads \ {w} :
            /\ at'[u] = at[u] /\ Held'[u] = Held[u]
            /\ Held[u] # None => Held[u][1] # j \/ HeldReady(at[u], Held[u], status', packet')
      BY <1>1, <1>2, <1>7, HeldAlone
    <2>3. Held'[w] # None => HeldReady(at'[w], Held'[w], status', packet')
      BY <1>1, <1>2, <1>7, <1>s DEF HeldReady
    <2>4. PacketsPut'
      BY <1>s, <1>f DEF JInv, Readiness, PacketsPut
    <2>5. \A i \in Jobs \ {j} : status'[i] = status[i] /\ packet'[i] = packet[i]
      BY <1>s
    <2> QED BY <1>1, <2>1, <2>2, <2>3, <2>4, <2>5, StaysReady
  <1>11. Begun' /\ Released'
    BY <1>0, <1>2, <1>f, StaysBegun
  <1>12. ReleasedOnce' /\ OwingOnce'
    BY <1>0, <1>2, ThreadSets DEF JInv, ReleasedOnce, OwingOnce
  <1>13. WrappedOwned'
    <2> SUFFICES ASSUME NEW s \in StageTask PROVE LaneOwner(s)' <=> LaneOwner(s)
      BY <1>0 DEF JInv, WrappedOwned
    <2> QED BY <1>0, <1>2, <1>6 DEF LaneOwner
  <1>14. DrainedApart'
    BY <1>0, <1>6 DEF JInv, DrainedApart
  <1> QED BY PartsInv, <1>3, <1>4, <1>5, <1>9, <1>10, <1>11, <1>12, <1>13, <1>14 DEF JInv

(* The step has been done: the next task of the job is at hand.            *)
LEMMA StepDoneInv == ASSUME JInv, [Next]_vars, NEW w \in Workers, StepDone(w) PROVE JInv'
  <1> DEFINE t == cur[w]
             j == cur[w][1]
             n == Successor(t)
             a == IF IsDecode(n) THEN "submit" ELSE "schedule"
  <1>0. /\ at[w] = "work" /\ ~IsDecode(t)
        /\ packet' = [packet EXCEPT ![j] = "stored"]
        /\ at' = [at EXCEPT ![w] = a]
        /\ handling' = [handling EXCEPT ![w] = n]
        /\ UNCHANGED <<queue, worker, cur, submit, hand, waiting, wrapped, preparer, owing, status,
                       cancel, inbody, drained>>
    BY DEF StepDone, GoToWith, GoTo, JobsOnly, poolVars, laneVars
  <1>1. /\ t \in Task /\ t # None /\ j \in Jobs /\ w \in Threads /\ w \in inbody
        /\ Held[w] = t /\ handling[w] = t /\ t[1] = j
        /\ hand[w] = None /\ submit[w] = "out"
        /\ j \in Live /\ status[j] = "running"
    BY <1>0, AtWork
  <1>n. /\ n \in Task /\ n # None /\ n[1] = j /\ n[2] > 0
        /\ \/ a = "submit" /\ n \notin StageTask
           \/ a = "schedule" /\ n \in StageTask
    <2>1. n \in Task /\ n # None /\ n[1] = j /\ n[2] > 0
      BY <1>0, <1>1, Tasks DEF Successor
    <2> QED BY <2>1, Tasks
  <1> HIDE DEF t, j, n, a
  <1>2. /\ \A u \in Threads : /\ at'[u] = IF u = w THEN a ELSE at[u]
                              /\ handling'[u] = IF u = w THEN n ELSE handling[u]
        /\ \A i \in Jobs : packet'[i] = IF i = j THEN "stored" ELSE packet[i]
    BY <1>0 DEF JInv, TypeOK
  <1>3. TypeOK'
    BY <1>0, <1>1, <1>n DEF JInv, TypeOK
  <1>4. Places'
    BY <1>0, <1>1, <1>2, <1>n, ThreadSets DEF JInv, Places
  <1>5. Bodies' /\ StageWork'
    BY <1>0, <1>1, <1>2, <1>n, ThreadSets DEF JInv, Bodies, StageWork, t, j
  <1>6. Boxes' = Boxes /\ QueuedTasks' = QueuedTasks /\ ParkedTasks' = ParkedTasks
        /\ DrainedTasks' = DrainedTasks
    BY <1>0, BoxSets
  <1>7. Held' = [Held EXCEPT ![w] = n]
    BY <1>0, <1>1, <1>2, <1>n, HeldMoves DEF Carrying
  <1>8. Live' = Live /\ Past' \subseteq Past \cup {t}
    <2>1. Live' = Live
      BY <1>0, SameLive
    <2>2. Past' \subseteq Past \cup {t}
      <3>1. cur'[w] = t /\ \A v \in Workers \ {w} : cur'[v] = cur[v]
        BY <1>0 DEF t
      <3> QED BY <1>1, <1>2, <1>n, <3>1, PastGrows
    <2> QED BY <2>1, <2>2
  <1>9. Order(Boxes, Held, Live, Past)'
    <2>1. Successor(Held[w]) = n /\ n \in Task /\ Held[w] # None /\ Held[w][1] \in Live
      BY <1>1, <1>n DEF n
    <2>2. Order(Boxes, [Held EXCEPT ![w] = n], Live, Past \cup {t})
      BY <1>1, <2>1, Tokens, Advance DEF JInv
    <2> QED BY <1>6, <1>7, <1>8, <2>2, Forget
  <1>10. Readiness'
    <2>0. \A u \in Threads : Held'[u] = IF u = w THEN n ELSE Held[u]
      BY <1>7, HeldFacts
    <2>1. \A u \in Boxes' : (u \in Boxes /\ u[1] # j) \/ Ready(u, status', packet')
      BY <1>1, <1>6, HeldAlone
    <2>2. \A u \in Threads \ {w} :
            /\ at'[u] = at[u] /\ Held'[u] = Held[u]
            /\ Held[u] # None => Held[u][1] # j \/ HeldReady(at[u], Held[u], status', packet')
      BY <1>1, <1>2, <2>0, HeldAlone
    <2>3. Held'[w] # None => HeldReady(at'[w], Held'[w], status', packet')
      BY <1>0, <1>1, <1>2, <1>n, <2>0 DEF HeldReady, Ready
    <2>4. PacketsPut'
      BY <1>0, <1>1, <1>2 DEF JInv, Readiness, PacketsPut
    <2>5. \A i \in Jobs \ {j} : status'[i] = status[i] /\ packet'[i] = packet[i]
      BY <1>0, <1>2
    <2> QED BY <1>1, <2>1, <2>2, <2>3, <2>4, <2>5, StaysReady
  <1>11. Begun' /\ Released'
    BY <1>0, <1>2, <1>n, StaysBegun
  <1>12. ReleasedOnce' /\ OwingOnce'
    BY <1>0, <1>2, <1>n, ThreadSets DEF JInv, ReleasedOnce, OwingOnce
  <1>13. WrappedOwned'
    <2> SUFFICES ASSUME NEW s \in StageTask PROVE LaneOwner(s)' <=> LaneOwner(s)
      BY <1>0 DEF JInv, WrappedOwned
    <2>1. (\E u \in Threads : handling'[u] = s /\ at'[u] \in {"submit", "reject", "release"})
            <=> \E u \in Threads : handling[u] = s /\ at[u] \in {"submit", "reject", "release"}
      BY <1>0, <1>2, <1>n
    <2> QED BY <1>0, <1>6, <2>1 DEF LaneOwner
  <1>14. DrainedApart'
    BY <1>0, <1>6 DEF JInv, DrainedApart
  <1> QED BY PartsInv, <1>3, <1>4, <1>5, <1>9, <1>10, <1>11, <1>12, <1>13, <1>14 DEF JInv

(* ---------------------------------------------------------------------- *)
(* BackendRuntime::schedule.                                               *)
LEMMA ToSchedule ==
  ASSUME JInv, NEW w \in Workers, at[w] = "schedule"
  PROVE  /\ handling[w] \in StageTask /\ handling[w] \in Task /\ handling[w] # None
         /\ handling[w][2] > 0 /\ handling[w][1] = cur[w][1]
         /\ w \in Threads /\ w \in inbody
         /\ Held[w] = handling[w] /\ hand[w] = None /\ submit[w] = "out"
         /\ handling[w][1] \in Live /\ Ready(handling[w], status, packet)
         /\ \A t \in Boxes : t # handling[w]
  <1>1. /\ handling[w] \in StageTask /\ handling[w] \in Task /\ handling[w] # None
        /\ handling[w][2] > 0 /\ handling[w][1] = cur[w][1]
        /\ w \in Threads /\ w \in inbody
        /\ Held[w] = handling[w] /\ hand[w] = None /\ submit[w] = "out"
    BY HeldFacts, ThreadSets, Tasks DEF Carrying, JInv, Bodies
  <1>2. handling[w][1] \in Live
    BY <1>1, HeldLive
  <1>3. Ready(handling[w], status, packet)
    BY <1>1 DEF JInv, Readiness, HeldReady
  <1>4. \A t \in Boxes : t # handling[w]
    BY <1>1, <1>2, HeldAlone
  <1> QED BY <1>1, <1>2, <1>3, <1>4

LEMMA ScheduleNowInv == ASSUME JInv, [Next]_vars, NEW w \in Workers, ScheduleNow(w) PROVE JInv'
  <1> DEFINE h == handling[w]
  <1>0. /\ at[w] = "schedule"
        /\ wrapped' = wrapped \cup {h}
        /\ at' = [at EXCEPT ![w] = "submit"]
        /\ UNCHANGED <<queue, worker, cur, submit, hand, waiting, preparer, owing, status, cancel,
                       packet, handling, inbody, drained>>
    BY DEF ScheduleNow, GoTo, LanesOnly, poolVars, jobVars, Lanes!Grant
  <1>1. /\ h \in StageTask /\ h \in Task /\ h # None /\ h[2] > 0 /\ h[1] = cur[w][1]
        /\ w \in Threads /\ w \in inbody
        /\ Held[w] = h /\ hand[w] = None /\ submit[w] = "out"
        /\ Ready(h, status, packet)
        /\ \A t \in Boxes : t # h
    BY <1>0, ToSchedule
  <1>2. \A u \in Threads : at'[u] = IF u = w THEN "submit" ELSE at[u]
    BY <1>0 DEF JInv, TypeOK
  <1> HIDE DEF h
  <1>3. TypeOK'
    BY <1>0 DEF JInv, TypeOK
  <1>4. Places'
    BY <1>0, <1>1, <1>2, ThreadSets DEF JInv, Places, h
  <1>5. Bodies' /\ StageWork'
    BY <1>0, <1>1, <1>2, ThreadSets DEF JInv, Bodies, StageWork, h
  <1>6. Boxes' = Boxes /\ QueuedTasks' = QueuedTasks /\ ParkedTasks' = ParkedTasks
        /\ DrainedTasks' = DrainedTasks
    BY <1>0, BoxSets
  <1>7. Held' = Held
    <2>1. \A u \in Threads : Held'[u] = Held[u]
      BY <1>0, <1>2 DEF Held, Carrying
    <2> QED BY <2>1 DEF Held
  <1>8. Live' = Live /\ Past' \subseteq Past
    <2>1. Live' = Live
      BY <1>0, SameLive
    <2>2. Past' \subseteq Past \cup {}
      BY <1>0, <1>2, PastGrows DEF Past
    <2> QED BY <2>1, <2>2
  <1>9. Order(Boxes, Held, Live, Past)'
    <2>1. Order(Boxes, Held, Live, Past')
      BY <1>8, Forget DEF JInv
    <2> QED BY <1>6, <1>7, <1>8, <2>1
  <1>10. Readiness'
    <2>1. HeldReady("submit", h, status, packet)
      BY <1>1 DEF HeldReady
    <2> QED BY <1>0, <1>1, <1>2, <1>6, <1>7, <2>1, StaysReadyIdly
  <1>11. Begun' /\ Released'
    BY <1>0, <1>2, StaysBegun
  <1>12. ReleasedOnce' /\ OwingOnce'
    BY <1>0, <1>2, ThreadSets DEF JInv, ReleasedOnce, OwingOnce
  <1>13. WrappedOwned'
    <2> SUFFICES ASSUME NEW s \in StageTask PROVE LaneOwner(s)' <=> LaneOwner(s) \/ s = h
      BY <1>0 DEF JInv, WrappedOwned
    <2>1. CASE s = h
      BY <1>0, <1>1, <1>2, <2>1 DEF LaneOwner, h
    <2>2. CASE s # h
      BY <1>0, <1>2, <1>6, <2>2 DEF LaneOwner, h
    <2> QED BY <2>1, <2>2
  <1>14. DrainedApart'
    <2>1. h \notin DrainedTasks
      BY <1>1 DEF Boxes
    <2> QED BY <1>0, <1>6, <2>1 DEF JInv, DrainedApart
  <1> QED BY PartsInv, <1>3, <1>4, <1>5, <1>9, <1>10, <1>11, <1>12, <1>13, <1>14 DEF JInv

LEMMA ScheduleLaterInv ==
  ASSUME JInv, [Next]_vars, NEW w \in Workers, ScheduleLater(w)
  PROVE  JInv'
  <1> DEFINE h == handling[w]
  <1>0. /\ at[w] = "schedule" /\ EndBody(w)
        /\ waiting' = [waiting EXCEPT ![Home[h]] = Append(@, h)]
        /\ h \notin wrapped
        /\ UNCHANGED <<queue, worker, cur, submit, hand, wrapped, preparer, owing, status, cancel,
                       packet, drained>>
    BY DEF ScheduleLater, LanesOnly, poolVars, jobVars, Lanes!Enqueue
  <1>1. /\ h \in StageTask /\ h \in Task /\ h # None /\ h[2] > 0 /\ h[1] \in Live
        /\ w \in Threads /\ w \in inbody
        /\ Held[w] = h /\ hand[w] = None /\ submit[w] = "out"
        /\ Ready(h, status, packet)
        /\ \A t \in Boxes : t # h
    BY <1>0, ToSchedule
  <1>2. /\ \A u \in Threads \ {w} : at'[u] = at[u] /\ handling'[u] = handling[u]
        /\ at'[w] \in {"release", "finish"}
        /\ Places' /\ Bodies' /\ StageWork'
        /\ Begun' /\ Released' /\ ReleasedOnce' /\ OwingOnce' /\ WrappedOwned'
        /\ Past' \subseteq Past
    <2>1. \A u \in Threads : submit'[u] = IF u = w THEN "out" ELSE submit[u]
      BY <1>0, <1>1
    <2>2. \A i \in Jobs : /\ status'[i] = "absent" <=> status[i] = "absent"
                          /\ status'[i] = "refused" <=> status[i] = "refused"
                          /\ status[i] = "failed" => status'[i] = "failed"
      BY <1>0
    <2>3. UNCHANGED <<queue, cur, hand, wrapped, preparer, owing, drained>>
      BY <1>0
    <2>4. \A v \in Workers : worker'[v] = "busy" <=> worker[v] = "busy"
      BY <1>0
    <2> QED BY <1>0, <1>1, <2>1, <2>2, <2>3, <2>4, LeavesBody
  <1>p. ParkedTasks' = ParkedTasks \cup {h}
    BY <1>0, <1>1, Parks DEF JInv
  <1>3. TypeOK'
    BY <1>0, BodyTasks DEF JInv, TypeOK, EndBody, GoToWith, GoTo
  <1> HIDE DEF h
  <1>6. /\ QueuedTasks' = QueuedTasks /\ DrainedTasks' = DrainedTasks
        /\ Boxes' = Boxes \cup {h}
    <2>1. QueuedTasks' = QueuedTasks /\ DrainedTasks' = DrainedTasks
      BY <1>0, BoxSets
    <2> QED BY <1>p, <2>1 DEF Boxes
  <1>7. Held' = [Held EXCEPT ![w] = None]
    BY <1>0, <1>1, <1>2, HeldMoves DEF Carrying
  <1>8. Live' = Live
    BY <1>0, SameLive
  <1>9. Order(Boxes, Held, Live, Past)'
    <2>1. Order(Boxes \cup {h}, [Held EXCEPT ![w] = None], Live, Past)
      BY <1>1, Tokens, PutDown DEF JInv
    <2> QED BY <1>2, <1>6, <1>7, <1>8, <2>1, Forget
  <1>10. Readiness'
    <2>1. \A u \in Threads : Held'[u] = IF u = w THEN None ELSE Held[u]
      BY <1>7, HeldFacts
    <2>2. \A u \in Boxes' : u \in Boxes \/ Ready(u, status, packet)
      BY <1>1, <1>6
    <2> QED BY <1>0, <1>1, <1>2, <2>1, <2>2, StaysReadyIdly
  <1>14. DrainedApart'
    <2>1. h \notin DrainedTasks
      BY <1>1 DEF Boxes
    <2> QED BY <1>0, <1>6, <1>p, <2>1 DEF JInv, DrainedApart
  <1> QED BY PartsInv, <1>2, <1>3, <1>9, <1>10, <1>14 DEF JInv

(* ---------------------------------------------------------------------- *)
(* PreparePermit::drop: the lane goes to the head of `waiting`, if there   *)
(* is one.                                                                 *)
LEMMA FinishPrepareInv ==
  ASSUME JInv, [Next]_vars, NEW p \in Preparers, FinishPrepare(p)
  PROVE  JInv'
  <1> DEFINE b == PrepBackend[p]
             h == Head(waiting[b])
  <1>0. /\ at[p] = "hold" /\ b \in Backends /\ Home[p] = b
        /\ preparer' = [preparer EXCEPT ![p] = "out"]
        /\ owing' = [owing EXCEPT ![b] = @ \cup {p}]
        /\ UNCHANGED <<queue, worker, cur, submit, hand, status, cancel, packet, inbody, drained>>
        /\ \/ waiting[b] = <<>> /\ at' = [at EXCEPT ![p] = "notify"] /\ UNCHANGED handling
           \/ /\ waiting[b] # <<>> /\ at' = [at EXCEPT ![p] = "submit"]
              /\ handling' = [handling EXCEPT ![p] = h]
    <2>1. b \in Backends /\ Home[p] = b
      BY BackendAssumption DEF Home
    <2> QED BY <2>1 DEF FinishPrepare, GoToWith, GoTo, LanesOnly, poolVars, jobVars,
                        Lanes!FinishPrepare
  <1>w. /\ waiting[b] = <<>> => UNCHANGED <<waiting, wrapped>>
        /\ waiting[b] # <<>> => /\ waiting' = [waiting EXCEPT ![b] = Tail(@)]
                                /\ wrapped' = wrapped \cup {h}
    BY <1>0, LaneFacts DEF FinishPrepare, Lanes!FinishPrepare, JInv
  <1>1. /\ p \in Threads /\ p \notin Workers /\ p \notin Jobs /\ p # Closer /\ p \notin inbody
        /\ Held[p] = None /\ hand[p] = None /\ submit[p] = "out"
    BY <1>0, HeldFacts, ThreadSets DEF Carrying, JInv, TypeOK
  <1>q. /\ \A c \in Backends : owing'[c] = IF c = b THEN owing[b] \cup {p} ELSE owing[c]
        /\ \A q \in Preparers : preparer'[q] = IF q = p THEN "out" ELSE preparer[q]
    BY <1>0, LaneFacts DEF JInv
  <1>o. \A w \in Workers, c \in Backends : w \in owing'[c] => w \in owing[c]
    BY <1>1, <1>q
  <1>n. CASE waiting[b] = <<>>
    <2>1. /\ at' = [at EXCEPT ![p] = "notify"]
          /\ UNCHANGED <<status, packet, queue, hand, cur, waiting, wrapped, handling, inbody,
                         drained>>
      BY <1>0, <1>w, <1>n
    <2>2. \A u \in Threads : at'[u] = IF u = p THEN "notify" ELSE at[u]
      BY <2>1 DEF JInv, TypeOK
    <2>3. TypeOK'
      BY <1>0, <2>1 DEF JInv, TypeOK
    <2>4. Places'
      BY <1>0, <1>1, <1>q, <2>1, <2>2, ThreadSets DEF JInv, Places
    <2>5. \A u \in Threads : \/ at'[u] = at[u]
                             \/ /\ u \notin Workers
                                /\ at[u] \notin Carrying \cup {"pushing", "release"}
                                /\ at'[u] \notin Carrying \cup {"pushing", "release"}
      BY <1>0, <1>1, <2>2 DEF Carrying
    <2> QED BY <1>o, <2>1, <2>3, <2>4, <2>5, QuietInv
  <1>m. CASE waiting[b] # <<>>
    <2>1. /\ at' = [at EXCEPT ![p] = "submit"]
          /\ handling' = [handling EXCEPT ![p] = h]
          /\ wrapped' = wrapped \cup {h}
          /\ waiting' = [waiting EXCEPT ![b] = Tail(@)]
      BY <1>0, <1>w, <1>m
    <2>h. /\ h \in StageTask /\ h \in ParkedTasks /\ h \notin wrapped
          /\ ParkedTasks' = ParkedTasks \ {h}
      BY <1>0, <1>m, <2>1, Unparks DEF JInv
    <2>2. \A u \in Threads : /\ at'[u] = IF u = p THEN "submit" ELSE at[u]
                             /\ handling'[u] = IF u = p THEN h ELSE handling[u]
      BY <2>1 DEF JInv, TypeOK
    <2>a. /\ h \in Task /\ h # None /\ h[2] > 0 /\ h \in Boxes
          /\ h \notin QueuedTasks /\ h \notin DrainedTasks
          /\ Ready(h, status, packet)
      <3>1. h \in Boxes
        BY <2>h DEF Boxes
      <3> QED BY <2>h, <3>1, BoxLive, BoxesApart, Tasks
    <2> HIDE DEF b, h
    <2>3. TypeOK'
      BY <1>0, <2>1, <2>a DEF JInv, TypeOK
    <2>4. Places'
      BY <1>0, <1>1, <1>q, <2>2, <2>a, ThreadSets DEF JInv, Places
    <2>5. Bodies' /\ StageWork'
      BY <1>0, <1>1, <2>2, <2>h, ThreadSets DEF JInv, Bodies, StageWork
    <2>6. /\ QueuedTasks' = QueuedTasks /\ DrainedTasks' = DrainedTasks
          /\ Boxes' = Boxes \ {h}
      <3>1. QueuedTasks' = QueuedTasks /\ DrainedTasks' = DrainedTasks
        BY <1>0, BoxSets
      <3> QED BY <2>a, <2>h, <3>1 DEF Boxes
    <2>7. Held' = [Held EXCEPT ![p] = h]
      BY <1>0, <1>1, <2>2, HeldMoves DEF Carrying
    <2>8. Live' = Live /\ Past' \subseteq Past
      <3>1. Live' = Live
        BY <1>0, SameLive
      <3>2. Past' \subseteq Past
        <4>1. \A w \in Workers : cur'[w] = cur[w] /\ w # p
          BY <1>0, <1>1
        <4> QED BY <1>1, <2>2, <4>1, ThreadSets DEF Past
      <3> QED BY <3>1, <3>2
    <2>9. Order(Boxes, Held, Live, Past)'
      <3>1. Order(Boxes \ {h}, [Held EXCEPT ![p] = h], Live, Past)
        BY <1>1, <2>a, Tokens, PickUp DEF JInv
      <3> QED BY <2>6, <2>7, <2>8, <3>1, Forget
    <2>10. Readiness'
      <3>1. \A u \in Threads : Held'[u] = IF u = p THEN h ELSE Held[u]
        BY <2>7, HeldFacts
      <3>2. HeldReady("submit", h, status, packet)
        BY <2>a DEF HeldReady
      <3> QED BY <1>0, <1>1, <2>2, <2>6, <3>1, <3>2, StaysReadyIdly
    <2>11. Begun' /\ Released'
      BY <1>0, <2>2, StaysBegun
    <2>12. ReleasedOnce' /\ OwingOnce'
      <3>1. ReleasedOnce'
        BY <1>0, <1>1, <2>2, ThreadSets DEF JInv, ReleasedOnce
      <3>2. OwingOnce'
        BY <1>1, <1>o, <2>2, ThreadSets DEF JInv, OwingOnce
      <3> QED BY <3>1, <3>2
    <2>13. WrappedOwned'
      <3> SUFFICES ASSUME NEW s \in StageTask PROVE LaneOwner(s)' <=> LaneOwner(s) \/ s = h
        BY <2>1 DEF JInv, WrappedOwned
      <3>1. CASE s = h
        BY <1>1, <2>2, <3>1 DEF LaneOwner
      <3>2. CASE s # h
        BY <1>0, <1>1, <2>2, <2>6, <3>2 DEF LaneOwner
      <3> QED BY <3>1, <3>2
    <2>14. DrainedApart'
      BY <1>0, <2>1, <2>6, <2>a, <2>h DEF JInv, DrainedApart
    <2> QED BY PartsInv, <2>3, <2>4, <2>5, <2>9, <2>10, <2>11, <2>12, <2>13, <2>14 DEF JInv
  <1> QED BY <1>n, <1>m

(* ---------------------------------------------------------------------- *)
(* BackendRuntime::shutdown: what waits is drained, then rejected.         *)
LEMMA DrainInv == ASSUME JInv, [Next]_vars, NEW b \in Backends, Drain(b) PROVE JInv'
  <1>0. /\ at[Closer] = "closing"
        /\ waiting' = [waiting EXCEPT ![b] = <<>>]
        /\ drained' = waiting[b]
        /\ at' = [at EXCEPT ![Closer] = "rejecting"]
        /\ UNCHANGED <<queue, worker, cur, submit, hand, wrapped, preparer, owing, status, cancel,
                       packet, handling, inbody>>
    BY DEF Drain, GoTo, LanesOnly, poolVars, jobVars, Lanes!Drain
  <1>1. drained = <<>> /\ waiting[b] \in Seq(StageTask) /\ Closer \in Threads
    BY <1>0, LaneFacts, ThreadSets DEF JInv, Places
  <1>2. /\ \A u \in Threads : at'[u] = IF u = Closer THEN "rejecting" ELSE at[u]
        /\ \A c \in Backends : waiting'[c] = IF c = b THEN <<>> ELSE waiting[c]
    BY <1>0, LaneFacts DEF JInv, TypeOK
  <1>p. /\ DrainedTasks = {} /\ DrainedTasks' = ParkedAt(b)
        /\ ParkedAt(b)' = {} /\ \A c \in Backends \ {b} : ParkedAt(c)' = ParkedAt(c)
        /\ ParkedTasks' = UNION {ParkedAt(c)' : c \in Backends}
    BY <1>0, <1>1, <1>2 DEF DrainedTasks, ParkedAt, ParkedTasks
  <1>3. TypeOK'
    BY <1>0, <1>1 DEF JInv, TypeOK
  <1>4. Places'
    BY <1>0, <1>2, ThreadSets DEF JInv, Places
  <1>5. Bodies' /\ StageWork'
    BY <1>0, <1>2, ThreadSets DEF JInv, Bodies, StageWork
  <1>6. QueuedTasks' = QueuedTasks /\ Boxes' = Boxes
    <2>1. QueuedTasks' = QueuedTasks
      BY <1>0, BoxSets
    <2>2. ParkedTasks' \cup ParkedAt(b) = ParkedTasks
      BY <1>p DEF ParkedTasks
    <2> QED BY <1>p, <2>1, <2>2 DEF Boxes
  <1>7. Held' = Held
    <2>1. \A u \in Threads : Held'[u] = Held[u]
      BY <1>0, <1>2 DEF Held, Carrying
    <2> QED BY <2>1 DEF Held
  <1>8. Live' = Live /\ Past' = Past
    <2>1. Live' = Live
      BY <1>0, SameLive
    <2>2. Past' = Past
      BY <1>0, <1>2, ThreadSets DEF Past
    <2> QED BY <2>1, <2>2
  <1>9. Order(Boxes, Held, Live, Past)'
    BY <1>6, <1>7, <1>8 DEF JInv
  <1>10. Readiness'
    <2>1. Held'[Closer] = None
      BY <1>0, <1>1, <1>7, HeldFacts DEF Carrying
    <2> QED BY <1>0, <1>1, <1>2, <1>6, <1>7, <2>1, StaysReadyIdly
  <1>11. Begun' /\ Released'
    BY <1>0, <1>2, StaysBegun
  <1>12. ReleasedOnce' /\ OwingOnce'
    BY <1>0, <1>2, ThreadSets DEF JInv, ReleasedOnce, OwingOnce
  <1>13. WrappedOwned'
    <2> SUFFICES ASSUME NEW s \in StageTask PROVE LaneOwner(s)' <=> LaneOwner(s)
      BY <1>0 DEF JInv, WrappedOwned
    <2> QED BY <1>0, <1>2, <1>6 DEF LaneOwner
  <1>14. DrainedApart'
    <2>1. Distinct(waiting[b])
      BY LaneFacts DEF JInv
    <2>2. \A t \in ParkedAt(b) : t \notin wrapped /\ \A c \in Backends \ {b} : t \notin ParkedAt(c)
      BY LaneFacts DEF JInv
    <2>3. DrainedTasks' \cap ParkedTasks' = {}
      BY <1>p, <2>2
    <2> QED BY <1>0, <1>p, <2>1, <2>2, <2>3 DEF DrainedApart, Distinct
  <1> QED BY PartsInv, <1>3, <1>4, <1>5, <1>9, <1>10, <1>11, <1>12, <1>13, <1>14 DEF JInv

LEMMA RejectDrainedInv == ASSUME JInv, [Next]_vars, RejectDrained PROVE JInv'
  <1> DEFINE t == Head(drained)
             j == t[1]
  <1>0. /\ at[Closer] = "rejecting" /\ drained # <<>>
        /\ EndJob(j, "failed")
        /\ drained' = Tail(drained)
        /\ UNCHANGED <<queue, worker, cur, submit, hand, waiting, wrapped, preparer, owing, at,
                       handling, inbody>>
    BY DEF RejectDrained, JobsOnly, poolVars, laneVars
  <1>d. /\ DrainedTasks' = DrainedTasks \ {t} /\ t \in DrainedTasks
        /\ Distinct(drained') /\ drained' \in Seq(StageTask) /\ t \in StageTask
    <2>1. Distinct(drained) /\ drained \in Seq(StageTask)
      BY DEF JInv, TypeOK, DrainedApart, Distinct
    <2>2. DrainedTasks' = Boxed(drained') /\ DrainedTasks = Boxed(drained)
      BY DEF DrainedTasks, Boxed
    <2> QED BY <1>0, <2>1, <2>2, Popped_front
  <1>6. /\ QueuedTasks' = QueuedTasks /\ ParkedTasks' = ParkedTasks
        /\ Boxes' = Boxes \ {t} /\ t \in Boxes
    <2>1. QueuedTasks' = QueuedTasks /\ ParkedTasks' = ParkedTasks
      BY <1>0, BoxSets
    <2> QED BY <1>d, <2>1, BoxesApart DEF Boxes
  <1>1. t \in Task /\ j \in Jobs /\ t[1] = j /\ j \in Live /\ status[j] \in {"queued", "running"}
    BY <1>6, BoxLive, Tasks DEF Live, Active
  <1>s. /\ status' = [status EXCEPT ![j] = "failed"]
        /\ \A i \in Jobs : /\ status'[i] = IF i = j THEN "failed" ELSE status[i]
                           /\ i # j => packet'[i] = packet[i]
        /\ packet'[j] \in {"none", "poisoned"}
        /\ packet' \in [Jobs -> {"none", "stored", "poisoned"}]
        /\ UNCHANGED cancel
    BY <1>0, <1>1, EndsJob DEF JInv
  <1> HIDE DEF t, j
  <1>3. TypeOK'
    BY <1>0, <1>d, <1>s DEF JInv, TypeOK
  <1>4. Places'
    BY <1>0, <1>1, <1>s, ThreadSets DEF JInv, Places
  <1>5. Bodies' /\ StageWork'
    <2>1. \A v \in Workers : at[v] # "loop" => cur[v][1] \in Jobs
      BY BodyTasks
    <2>2. Bodies'
      BY <1>0, <1>s, <2>1 DEF JInv, Bodies
    <2>3. StageWork'
      BY <1>0 DEF JInv, StageWork
    <2> QED BY <2>2, <2>3
  <1>7. Held' = Held
    BY <1>0 DEF Held
  <1>8. Live' = Live \ {j} /\ Past' = Past
    <2>1. Live' = Live \ {j}
      BY <1>1, <1>s, JobEnds DEF JInv
    <2>2. Past' = Past
      BY <1>0 DEF Past
    <2> QED BY <2>1, <2>2
  <1>9. Order(Boxes, Held, Live, Past)'
    <2>1. Order(Boxes \ {t}, Held, Live \ {t[1]}, Past)
      BY <1>6, Tokens, EndBox DEF JInv
    <2> QED BY <1>1, <1>6, <1>7, <1>8, <2>1
  <1>10. Readiness'
    <2>1. \A u \in Boxes' : (u \in Boxes /\ u[1] # j) \/ Ready(u, status', packet')
      BY <1>1, <1>6 DEF JInv, Order, OnePlace
    <2>2. \A u \in Threads \ {Closer} :
            /\ at'[u] = at[u] /\ Held'[u] = Held[u]
            /\ Held[u] # None => Held[u][1] # j \/ HeldReady(at[u], Held[u], status', packet')
      BY <1>0, <1>1, <1>6, <1>7, BoxAlone
    <2>3. Held'[Closer] # None => HeldReady(at'[Closer], Held'[Closer], status', packet')
      BY <1>0, <1>7, HeldFacts, ThreadSets DEF Carrying
    <2>4. PacketsPut'
      BY <1>s DEF JInv, Readiness, PacketsPut
    <2>5. \A i \in Jobs \ {j} : status'[i] = status[i] /\ packet'[i] = packet[i]
      BY <1>s
    <2> QED BY <1>1, <2>1, <2>2, <2>3, <2>4, <2>5, ThreadSets, StaysReady
  <1>11. Begun' /\ Released'
    BY <1>0, <1>s, StaysBegun
  <1>12. ReleasedOnce' /\ OwingOnce'
    BY <1>0 DEF JInv, ReleasedOnce, OwingOnce
  <1>13. WrappedOwned'
    <2> SUFFICES ASSUME NEW s \in StageTask PROVE LaneOwner(s)' <=> LaneOwner(s)
      BY <1>0 DEF JInv, WrappedOwned
    <2> QED BY <1>0, <1>6 DEF LaneOwner
  <1>14. DrainedApart'
    BY <1>0, <1>d, <1>6 DEF JInv, DrainedApart, Distinct
  <1> QED BY PartsInv, <1>3, <1>4, <1>5, <1>9, <1>10, <1>11, <1>12, <1>13, <1>14 DEF JInv

(* ---------------------------------------------------------------------- *)
(* The invariant is inductive.                                             *)
LEMMA StepInv == ASSUME JInv, [Next]_vars PROVE JInv'
  <1>1. ASSUME NEW j \in Jobs, Dispatch(j) \/ DispatchRefused(j) \/ Cancel(j) PROVE JInv'
    BY <1>1, DispatchInv, DispatchRefusedInv, CancelInv
  <1>2. ASSUME NEW th \in Threads, Submission(th) PROVE JInv'
    BY <1>2, AdmitInv, RefusedInv, PushInv, PushedInv, RejectInv, HandLaneInv, FreeLaneInv,
       NotifyPreparersInv DEF Submission
  <1>3. ASSUME NEW w \in Workers, Idle(w) \/ SpuriousWake(w) \/ Take(w) \/ Finish(w)
        PROVE  JInv'
    BY <1>3, IdleInv, TakeInv, FinishInv
  <1>4. ASSUME NEW w \in Workers, Body(w) PROVE JInv'
    BY <1>4, EndsInv, StartInv, StepDoneInv, ScheduleNowInv, ScheduleLaterInv DEF Body
  <1>5. ASSUME NEW p \in Preparers, \/ CallPrepare(p) \/ AcquirePrepare(p)
                                    \/ SpuriousPrepare(p) \/ FinishPrepare(p)
        PROVE  JInv'
    BY <1>5, PrepareInv, FinishPrepareInv
  <1>6. CASE BeginShutdown \/ NotifyAll \/ Join
    BY <1>6, CloserInv
  <1>7. CASE RejectDrained
    BY <1>7, RejectDrainedInv
  <1>8. ASSUME NEW b \in Backends, Drain(b) \/ CloseBackend(b) PROVE JInv'
    BY <1>8, DrainInv, CloserInv
  <1>9. CASE UNCHANGED vars
    BY <1>9, StutterInv
  <1> QED BY <1>1, <1>2, <1>3, <1>4, <1>5, <1>6, <1>7, <1>8, <1>9, NextCases

LEMMA Invariance == Spec => []JInv
  BY InitInv, StepInv, PTL DEF Spec

(* ---------------------------------------------------------------------- *)
(* The carriers of a job: one as long as the job lives.                    *)
LEMMA CarrierIs ==
  ASSUME JInv, NEW j \in Jobs, NEW c \in Carriers(j)
  PROVE  \/ c[1] = "thread" /\ \E th \in Threads :
              c = <<"thread", th>> /\ at[th] \in Carrying /\ handling[th][1] = j
         \/ c[1] # "thread" /\ \E th \in Threads :
              c = <<"hand", th>> /\ hand[th] # None /\ hand[th][1] = j
         \/ c[1] # "thread" /\ \E i \in DOMAIN queue : c = <<"queued", i>> /\ queue[i][1] = j
         \/ c[1] # "thread" /\ \E i \in DOMAIN drained : c = <<"drained", i>> /\ drained[i][1] = j
         \/ c[1] # "thread" /\ \E i \in DOMAIN waiting[JobBackend[j]] :
              c = <<"parked", i>> /\ waiting[JobBackend[j]][i][1] = j
  BY DEF Carriers, Carrying

(* A carrier is a box, in a place of its own, or a thread.                 *)
LEMMA CarrierBox ==
  ASSUME JInv, NEW j \in Jobs, NEW c \in Carriers(j)
  PROVE  \/ \E i \in DOMAIN queue : /\ c = <<"queued", i>> /\ queue[i] \in QueuedTasks
                                    /\ queue[i] \in Boxes /\ queue[i][1] = j
         \/ \E i \in DOMAIN drained : /\ c = <<"drained", i>> /\ drained[i] \in DrainedTasks
                                      /\ drained[i] \in Boxes /\ drained[i][1] = j
         \/ \E i \in DOMAIN waiting[JobBackend[j]] :
              LET t == waiting[JobBackend[j]][i]
              IN c = <<"parked", i>> /\ t \in ParkedTasks /\ t \in Boxes /\ t[1] = j
         \/ \E th \in Threads : /\ Held[th] # None /\ Held[th][1] = j
                                /\ c = <<IF at[th] \in Carrying THEN "thread" ELSE "hand", th>>
  <1>1. JobBackend[j] \in Backends
    BY BackendAssumption
  <1>2. \A i \in DOMAIN queue : queue[i] \in QueuedTasks /\ queue[i] \in Boxes
    BY DEF QueuedTasks, Boxes
  <1>3. \A i \in DOMAIN drained : drained[i] \in DrainedTasks /\ drained[i] \in Boxes
    BY DEF DrainedTasks, Boxes
  <1>4. \A i \in DOMAIN waiting[JobBackend[j]] :
          waiting[JobBackend[j]][i] \in ParkedTasks /\ waiting[JobBackend[j]][i] \in Boxes
    BY <1>1 DEF ParkedTasks, ParkedAt, Boxes
  <1>5. \A th \in Threads : at[th] \in Carrying => Held[th] = handling[th] /\ Held[th] # None
    BY HeldFacts
  <1>6. \A th \in Threads : hand[th] # None => at[th] \notin Carrying /\ Held[th] = hand[th]
    BY HeldFacts
  <1> QED BY <1>2, <1>3, <1>4, <1>5, <1>6, CarrierIs

LEMMA CarriersAlike ==
  ASSUME JInv, NEW j \in Jobs, Active(j), NEW c \in Carriers(j), NEW d \in Carriers(j)
  PROVE  c = d
  <1>0. j \in Live
    BY DEF Live
  <1>1. \A t, u \in Boxes : t[1] = j /\ u[1] = j => t = u
    BY DEF JInv, Order, OnePlace
  <1>2. \A t \in Boxes : t[1] = j => \A th \in Threads : Held[th] # None => Held[th][1] # j
    BY BoxAlone
  <1>3. ASSUME NEW th \in Threads, Held[th] # None, Held[th][1] = j,
               NEW u \in Threads, Held[u] # None, Held[u][1] = j
        PROVE  th = u
    <2>1. Held[th][1] \in Live
      BY <1>0, <1>3
    <2> QED BY <1>3, <2>1, HeldAlone
  <1>4. JobBackend[j] \in Backends
    BY BackendAssumption
  <1>5. Distinct(queue) /\ Distinct(drained) /\ Distinct(waiting[JobBackend[j]])
    BY <1>4, PoolFacts, LaneFacts DEF JInv, DrainedApart, Distinct
  <1>6. \A t \in Boxes : /\ t \in QueuedTasks => t \notin ParkedTasks /\ t \notin DrainedTasks
                         /\ t \in ParkedTasks => t \notin DrainedTasks
    BY BoxesApart
  <1>7. CASE \E i \in DOMAIN queue : /\ c = <<"queued", i>> /\ queue[i] \in QueuedTasks
                                     /\ queue[i] \in Boxes /\ queue[i][1] = j
    BY <1>1, <1>2, <1>5, <1>6, <1>7, CarrierBox DEF Distinct
  <1>8. CASE \E i \in DOMAIN drained : /\ c = <<"drained", i>> /\ drained[i] \in DrainedTasks
                                       /\ drained[i] \in Boxes /\ drained[i][1] = j
    BY <1>1, <1>2, <1>5, <1>6, <1>8, CarrierBox DEF Distinct
  <1>9. CASE \E i \in DOMAIN waiting[JobBackend[j]] :
               LET t == waiting[JobBackend[j]][i]
               IN c = <<"parked", i>> /\ t \in ParkedTasks /\ t \in Boxes /\ t[1] = j
    BY <1>1, <1>2, <1>5, <1>6, <1>9, CarrierBox DEF Distinct
  <1>10. CASE \E th \in Threads : /\ Held[th] # None /\ Held[th][1] = j
                                  /\ c = <<IF at[th] \in Carrying THEN "thread" ELSE "hand", th>>
    BY <1>2, <1>3, <1>10, CarrierBox
  <1> QED BY <1>7, <1>8, <1>9, <1>10, CarrierBox

(* Where there is a box or a thread, there is a carrier.                   *)
LEMMA CarriersFrom ==
  ASSUME NEW j \in Jobs
  PROVE  /\ \A i \in DOMAIN queue : queue[i][1] = j => <<"queued", i>> \in Carriers(j)
         /\ \A i \in DOMAIN drained : drained[i][1] = j => <<"drained", i>> \in Carriers(j)
         /\ \A i \in DOMAIN waiting[JobBackend[j]] :
              waiting[JobBackend[j]][i][1] = j => <<"parked", i>> \in Carriers(j)
         /\ \A th \in Threads : hand[th] # None /\ hand[th][1] = j => <<"hand", th>> \in Carriers(j)
         /\ \A th \in Threads : at[th] \in Carrying /\ handling[th][1] = j
                                => <<"thread", th>> \in Carriers(j)
  BY DEF Carriers, Carrying

LEMMA CarrierThere == ASSUME JInv, NEW j \in Jobs, Active(j) PROVE Carriers(j) # {}
  <1>0. j \in Live
    BY DEF Live
  <1>1. CASE \E t \in Boxes : t[1] = j
    <2>1. PICK t \in Boxes : t[1] = j
      BY <1>1
    <2>2. CASE t \in QueuedTasks
      BY <2>1, <2>2, CarriersFrom DEF QueuedTasks
    <2>3. CASE t \in DrainedTasks
      BY <2>1, <2>3, CarriersFrom DEF DrainedTasks
    <2>4. CASE t \in ParkedTasks
      <3>1. PICK b \in Backends : t \in ParkedAt(b)
        BY <2>4 DEF ParkedTasks
      <3>2. t \in StageTask /\ Home[t] = b
        BY <3>1, LaneFacts DEF JInv
      <3>3. t \notin Preparers
        BY <3>2, ApartAssumption
      <3>4. JobBackend[j] = b
        BY <2>1, <3>2, <3>3 DEF Home
      <3> QED BY <2>1, <3>1, <3>4, CarriersFrom DEF ParkedAt
    <2> QED BY <2>1, <2>2, <2>3, <2>4 DEF Boxes
  <1>2. CASE \E th \in Threads : Held[th] # None /\ Held[th][1] = j
    <2>1. PICK th \in Threads : Held[th] # None /\ Held[th][1] = j
      BY <1>2
    <2>2. CASE at[th] \in Carrying
      BY <2>1, <2>2, HeldFacts, CarriersFrom
    <2>3. CASE at[th] \notin Carrying
      BY <2>1, <2>3, HeldFacts, CarriersFrom
    <2> QED BY <2>2, <2>3
  <1> QED BY <1>0, <1>1, <1>2 DEF JInv, Order, OnePlace

(* ---------------------------------------------------------------------- *)
(* The variables of the pipeline stay within their types: a thread stands  *)
(* only where the code has a step (executor.rs, stack.rs).                 *)
THEOREM TypeCorrect == Spec => []TypeOK
  <1>1. JInv => TypeOK
    BY DEF JInv
  <1> QED BY <1>1, Invariance, PTL

(* A job that has not ended has exactly one continuation, for any number   *)
(* of workers, stages and lanes: schedule, hand-over, refusal, rejection   *)
(* and shutdown neither drop it nor start it twice (stack.rs:884-1038,     *)
(* executor.rs:267-366).                                                   *)
THEOREM OneContinuationHolds == Spec => []OneContinuation
  <1>1. ASSUME JInv PROVE OneContinuation
    <2>1. ASSUME NEW j \in Jobs, Active(j) PROVE Cardinality(Carriers(j)) = 1
      <3>1. PICK c \in Carriers(j) : TRUE
        BY <1>1, <2>1, CarrierThere
      <3>2. Carriers(j) = {c}
        BY <1>1, <2>1, CarriersAlike
      <3> QED BY <3>2, FS_Singleton
    <2>2. ASSUME NEW j \in Jobs, ~Active(j), NEW c \in Carriers(j)
          PROVE  c[1] = "thread" /\ at[c[2]] = "fail"
      <3>0. j \notin Live
        BY <2>2 DEF Live
      <3>1. \A t \in Boxes : t[1] # j
        BY <1>1, <3>0, BoxLive
      <3>2. PICK th \in Threads :
              /\ Held[th] # None /\ Held[th][1] = j
              /\ c = <<IF at[th] \in Carrying THEN "thread" ELSE "hand", th>>
        BY <1>1, <3>1, CarrierBox
      <3>3. at[th] = "fail"
        BY <1>1, <3>0, <3>2, HeldLive
      <3> QED BY <3>2, <3>3 DEF Carrying
    <2> QED BY <2>1, <2>2 DEF OneContinuation
  <1> QED BY <1>1, Invariance, PTL

(* A stage or decode task that has not started finds its job's packet, and *)
(* a job that has ended keeps none: "missing job packet" and "job packet   *)
(* already stored" cannot happen (stack.rs:955-1032).                      *)
THEOREM PacketFollowsJobHolds == Spec => []PacketFollowsJob
  <1>1. ASSUME JInv PROVE PacketFollowsJob
    <2>1. \A t \in Task : Ready(t, status, packet) =>
            packet[t[1]] = IF t[2] = 0 THEN "none" ELSE "stored"
      BY DEF Ready
    <2>2. ASSUME NEW t \in Task, Pending(t), Active(t[1])
          PROVE  packet[t[1]] = IF t[2] = 0 THEN "none" ELSE "stored"
      <3>1. CASE t \in Boxes
        BY <1>1, <2>1, <3>1, BoxLive
      <3>2. ASSUME NEW th \in Threads, hand[th] = t PROVE Ready(t, status, packet)
        <4>1. t # None
          BY Tasks
        <4>2. Held[th] = t /\ at[th] = "pushing"
          BY <1>1, <3>2, <4>1, HeldFacts
        <4> QED BY <1>1, <4>1, <4>2 DEF JInv, Readiness, HeldReady
      <3>3. ASSUME NEW th \in Threads, handling[th] = t,
                   at[th] \in {"start", "schedule", "submit", "reject"}
            PROVE  Ready(t, status, packet)
        <4>1. Held[th] = t /\ t # None
          BY <1>1, <3>3, HeldFacts DEF Carrying
        <4> QED BY <1>1, <3>3, <4>1 DEF JInv, Readiness, HeldReady
      <3>4. ASSUME IsStage(t), NEW i \in DOMAIN waiting[Home[t]], waiting[Home[t]][i] = t
            PROVE  t \in Boxes
        <4>1. t \in StageTask
          BY <3>4 DEF StageTask
        <4>2. Home[t] \in Backends
          BY <4>1, LanesApply DEF LanesP!HomeAssumption
        <4> QED BY <3>4, <4>2 DEF Boxes, ParkedTasks, ParkedAt
      <3>5. (\E i \in DOMAIN queue : queue[i] = t) \/ (\E i \in DOMAIN drained : drained[i] = t)
              => t \in Boxes
        BY DEF Boxes, QueuedTasks, DrainedTasks
      <3> QED BY <2>1, <2>2, <3>1, <3>2, <3>3, <3>4, <3>5 DEF Pending
    <2>3. PacketAtHand
      BY <2>2 DEF PacketAtHand
    <2>4. PacketGivenBack
      BY <1>1 DEF PacketGivenBack, JInv, Readiness, PacketsPut
    <2> QED BY <2>3, <2>4 DEF PacketFollowsJob
  <1> QED BY <1>1, Invariance, PTL

(* ---------------------------------------------------------------------- *)
(* Every stage in progress has its own wrapped task.                       *)
LEMMA StagesAreWrapped ==
  ASSUME JInv, NEW b \in Backends
  PROVE  LET W == {w \in Workers : at[w] \in {"start", "work"} /\ IsStage(cur[w])
                                    /\ JobBackend[cur[w][1]] = b}
         IN Cardinality(W) <= Cardinality(Lanes!Wrapped(b))
  <1> DEFINE W == {w \in Workers : at[w] \in {"start", "work"} /\ IsStage(cur[w])
                                    /\ JobBackend[cur[w][1]] = b}
             f == [w \in W |-> cur[w]]
  <1>1. ASSUME NEW w \in W PROVE cur[w] \in Lanes!Wrapped(b) /\ cur[w] # None /\ w \in Workers
    <2>1. cur[w] \in Task /\ cur[w] # None /\ w \in inbody
      BY <1>1, AtWork
    <2>2. cur[w] \in StageTask
      BY <1>1, <2>1 DEF StageTask
    <2>3. cur[w] \in wrapped
      BY <2>1, <2>2 DEF JInv, WrappedOwned, LaneOwner
    <2>4. cur[w] \notin Preparers
      BY <2>2, ApartAssumption
    <2>5. Home[cur[w]] = b
      BY <1>1, <2>2, <2>4 DEF Home
    <2> QED BY <1>1, <2>1, <2>3, <2>5 DEF Lanes!Wrapped
  <1>2. f \in [W -> Lanes!Wrapped(b)]
    BY <1>1
  <1>3. \A v, w \in W : f[v] = f[w] => v = w
    BY <1>1, PoolFacts DEF JInv
  <1>4. IsFiniteSet(Lanes!Wrapped(b))
    <2>1. IsFiniteSet(wrapped)
      BY DEF JInv, LanesP!Inv, LanesP!IsFiniteSet, IsFiniteSet
    <2>2. Lanes!Wrapped(b) \in SUBSET wrapped
      BY DEF Lanes!Wrapped
    <2> QED BY <2>1, <2>2, FS_Subset
  <1> HIDE DEF f, W
  <1>5. f \in Injection(W, Lanes!Wrapped(b))
    BY <1>2, <1>3 DEF Injection, IsInjective
  <1>6. Cardinality(W) <= Cardinality(Lanes!Wrapped(b))
    BY <1>4, <1>5, FS_Injection
  <1> QED BY <1>6 DEF W

(* The stages and prepares that threads are running stay within the lanes  *)
(* of their backend, and every lane that is taken has a thread that will   *)
(* give it back (executor.rs:288-366).                                     *)
THEOREM LanesHeldAlways == Spec => []LanesHeld
  <1>1. ASSUME JInv PROVE LanesHeld
    <2>1. LanesHaveOwners
      <3>1. wrapped \subseteq StageTask
        BY <1>1, LaneFacts DEF JInv
      <3> QED BY <1>1, <3>1 DEF LanesHaveOwners, JInv, WrappedOwned, LaneOwner, QueuedTasks
    <2>2. ASSUME NEW b \in Backends
          PROVE  Cardinality({w \in Workers : at[w] \in {"start", "work"} /\ IsStage(cur[w])
                                               /\ JobBackend[cur[w][1]] = b})
                   + Cardinality({p \in Preparers : at[p] = "hold" /\ PrepBackend[p] = b})
                   <= Lanes!LaneCount(b)
      <3> DEFINE W == {w \in Workers : at[w] \in {"start", "work"} /\ IsStage(cur[w])
                                        /\ JobBackend[cur[w][1]] = b}
                 P == {p \in Preparers : at[p] = "hold" /\ PrepBackend[p] = b}
      <3>1. Cardinality(W) <= Cardinality(Lanes!Wrapped(b))
        BY <1>1, StagesAreWrapped
      <3>2. P = Lanes!Holders(b)
        <4>1. \A p \in Preparers : Home[p] = PrepBackend[p]
          BY DEF Home
        <4>2. \A p \in Preparers : preparer[p] = "holding" <=> at[p] = "hold"
          BY <1>1 DEF JInv, Places
        <4> QED BY <4>1, <4>2 DEF Lanes!Holders
      <3>3. /\ lanes_in_use[b] = Cardinality(Lanes!Wrapped(b)) + Cardinality(Lanes!Holders(b))
            /\ lanes_in_use[b] <= Lanes!LaneCount(b)
        <4>1. /\ Lanes!Wrapped(b) = LanesP!Wrapped(b) /\ Lanes!Holders(b) = LanesP!Holders(b)
              /\ Lanes!LaneCount(b) = LanesP!LaneCount(b)
          BY DEF Lanes!Wrapped, LanesP!Wrapped, Lanes!Holders, LanesP!Holders, Lanes!LaneCount,
                 LanesP!LaneCount, Lanes!AtLeastOne, LanesP!AtLeastOne
        <4>2. \A S : LanesP!Cardinality(S) = Cardinality(S)
          BY DEF LanesP!Cardinality, Cardinality, LanesP!IsFiniteSet, IsFiniteSet
        <4> QED BY <1>1, <4>1, <4>2 DEF JInv, LanesP!Inv, LanesP!LanesAccounted, LanesP!LaneLimit
      <3>4. /\ Cardinality(W) \in Nat /\ Cardinality(Lanes!Wrapped(b)) \in Nat
            /\ Cardinality(Lanes!Holders(b)) \in Nat /\ Lanes!LaneCount(b) \in Nat
        <4>1. IsFiniteSet(Lanes!Wrapped(b))
          <5>1. IsFiniteSet(wrapped)
            BY <1>1 DEF JInv, LanesP!Inv, LanesP!IsFiniteSet, IsFiniteSet
          <5>2. Lanes!Wrapped(b) \in SUBSET wrapped
            BY DEF Lanes!Wrapped
          <5> QED BY <5>1, <5>2, FS_Subset
        <4>2. IsFiniteSet(W) /\ IsFiniteSet(P)
          BY FiniteAssumption, FS_Subset
        <4>3. Lanes!LaneCount(b) \in Nat
          BY LaneAssumption DEF Lanes!LaneCount, Lanes!AtLeastOne
        <4> QED BY <3>2, <4>1, <4>2, <4>3, FS_CardinalityType
      <3> HIDE DEF W, P
      <3>5. Cardinality(W) + Cardinality(P) <= Lanes!LaneCount(b)
        BY <3>1, <3>2, <3>3, <3>4
      <3> QED BY <3>5 DEF W, P
    <2> QED BY <2>1, <2>2 DEF LanesHeld, StagesWithinLanes
  <1> QED BY <1>1, Invariance, PTL

(* ---------------------------------------------------------------------- *)
(* The jobs use the lanes and the pool only as BackendRuntime and          *)
(* WorkerPool say, so that all that is proved of them holds of the whole   *)
(* (stack.rs:884-1038, executor.rs:267-284).                               *)
THEOREM LanesAndPoolImplemented == Spec => ImplementsLanesAndPool
  <1>1. Init => Lanes!Init /\ Pool!Init
    BY DEF Init
  <1>2. JInv /\ [Next]_vars => [Lanes!Next]_(Lanes!vars) /\ [Pool!Next]_(Pool!vars)
    BY LaneStep, PoolStep
  <1> QED BY <1>1, <1>2, Invariance, PTL DEF Spec, ImplementsLanesAndPool, Lanes!Spec, Pool!Spec

(* ---------------------------------------------------------------------- *)
(* The model has some guards the code does not test, because the code      *)
(* relies on them: a box is moved, not copied, a lane is given back by     *)
(* whoever has it, and `take` and `expect` find a packet.                  *)
GuardsHold ==
  /\ \A j \in Jobs : at[j] = "out" => submit[j] = "out" /\ Pool!Unowned(<<j, 0>>)
  /\ \A th \in Threads : at[th] = "submit" => submit[th] = "out" /\ Pool!Unowned(handling[th])
  /\ \A w \in Workers : at[w] = "schedule" =>
       handling[w] \notin wrapped \cup Lanes!Waiting(Home[handling[w]])
  /\ \A th \in Threads : at[th] = "release" => handling[th] \in wrapped
  /\ \A w \in Workers : at[w] = "start" /\ cur[w][2] > 0 => packet[cur[w][1]] = "stored"
  /\ \A p \in Preparers : /\ at[p] = "acquire" => preparer[p] \in {"trying", "asleep"}
                          /\ at[p] = "hold" => preparer[p] = "holding"

(* What is held and not popped has no other owner.                         *)
LEMMA HeldUnowned ==
  ASSUME JInv, NEW th \in Threads, at[th] \in {"submit", "schedule"}
  PROVE  /\ handling[th] \in Task /\ handling[th] \notin Boxes
         /\ \A u \in Threads : hand[u] # handling[th]
         /\ \A w \in Workers : cur[w] # handling[th]
         /\ \A u \in Threads : at[u] = "release" => handling[u] # handling[th]
         /\ \A u \in Threads : at[u] \in {"submit", "reject"} /\ handling[u] = handling[th] => u = th
  <1>1. /\ Held[th] = handling[th] /\ Held[th] # None /\ Held[th] \in Task /\ hand[th] = None
        /\ Held[th][1] \in Live
    <2>1. Held[th] = handling[th] /\ Held[th] # None /\ Held[th] \in Task /\ hand[th] = None
      BY HeldFacts DEF Carrying
    <2> QED BY <2>1, HeldLive
  <1>2. Held[th] \notin Boxes /\ Held[th] \notin Past
    BY <1>1, HeldAlone, NotPast
  <1>3. \A u \in Threads : Held[u] = Held[th] => u = th
    BY <1>1, HeldAlone
  <1>4. \A u \in Threads : hand[u] # None => Held[u] = hand[u]
    BY HeldFacts
  <1>5. \A u \in Threads : at[u] \in {"submit", "reject"} => Held[u] = handling[u]
    BY HeldFacts DEF Carrying
  <1>6. \A w \in Workers : cur[w] # Held[th]
    BY <1>1, NotPast
  <1>7. \A u \in Threads : at[u] = "release" => handling[u] # Held[th]
    BY <1>1, <1>2 DEF Past
  <1> QED BY <1>1, <1>2, <1>3, <1>4, <1>5, <1>6, <1>7

(* The steps of the code that rely on a guard find it true: none of them   *)
(* is stuck where the code would go on (stack.rs:884-1038).                *)
THEOREM GuardsAlwaysHold == Spec => []GuardsHold
  <1>1. ASSUME JInv PROVE GuardsHold
    <2>1. ASSUME NEW j \in Jobs, at[j] = "out"
          PROVE  submit[j] = "out" /\ Pool!Unowned(<<j, 0>>)
      <3>1. status[j] = "absent" /\ submit[j] = "out"
        BY <1>1, <2>1, ThreadSets DEF JInv, Places
      <3>2. <<j, 0>> # None /\ <<j, 0>>[1] = j
        BY Tasks, StageAssumption
      <3>3. <<j, 0>> \notin QueuedTasks
        BY <1>1, <3>1, <3>2, NotYetThere DEF Boxes
      <3>4. \A th \in Threads : hand[th] # <<j, 0>>
        <4>1. \A th \in Threads : hand[th] # None => Held[th] = hand[th]
          BY <1>1, HeldFacts
        <4>2. \A th \in Threads : Held[th] # None => Held[th][1] # j
          BY <1>1, <3>1, NotYetThere
        <4> QED BY <3>2, <4>1, <4>2
      <3>5. \A w \in Workers : cur[w] # <<j, 0>>
        BY <1>1, <3>1, <3>2, NotYetThere
      <3> QED BY <3>1, <3>3, <3>4, <3>5
              DEF Pool!Unowned, Pool!Queued, Pool!Threads, Threads, QueuedTasks
    <2>2. ASSUME NEW th \in Threads, at[th] = "submit"
          PROVE  submit[th] = "out" /\ Pool!Unowned(handling[th])
      <3>1. submit[th] = "out"
        BY <1>1, <2>2, HeldFacts DEF Carrying
      <3>2. /\ handling[th] \notin Boxes
            /\ \A u \in Threads : hand[u] # handling[th]
            /\ \A w \in Workers : cur[w] # handling[th]
        BY <1>1, <2>2, HeldUnowned
      <3> QED BY <3>1, <3>2
              DEF Pool!Unowned, Pool!Queued, Pool!Threads, Threads, QueuedTasks, Boxes
    <2>3. ASSUME NEW w \in Workers, at[w] = "schedule"
          PROVE  handling[w] \notin wrapped \cup Lanes!Waiting(Home[handling[w]])
      <3>0. handling[w] \in StageTask /\ w \in Threads /\ inbody \subseteq Workers
        BY <1>1, <2>3, ToSchedule DEF JInv, TypeOK
      <3>1. Home[handling[w]] \in Backends
        BY <3>0, LanesApply DEF LanesP!HomeAssumption
      <3>2. /\ handling[w] \notin Boxes
            /\ \A u \in Threads : hand[u] # handling[w]
            /\ \A v \in Workers : cur[v] # handling[w]
            /\ \A u \in Threads : at[u] = "release" => handling[u] # handling[w]
            /\ \A u \in Threads : at[u] \in {"submit", "reject"} /\ handling[u] = handling[w]
                                    => u = w
        BY <1>1, <2>3, <3>0, HeldUnowned
      <3>3. ~LaneOwner(handling[w])
        BY <2>3, <3>0, <3>2 DEF LaneOwner, Boxes
      <3>4. handling[w] \notin Lanes!Waiting(Home[handling[w]])
        BY <3>1, <3>2 DEF Lanes!Waiting, Boxes, ParkedTasks, ParkedAt
      <3> QED BY <1>1, <3>0, <3>3, <3>4 DEF JInv, WrappedOwned
    <2>4. \A th \in Threads : at[th] = "release" => handling[th] \in wrapped
      BY <1>1, ReleasedAlone
    <2>5. ASSUME NEW w \in Workers, at[w] = "start", cur[w][2] > 0
          PROVE  packet[cur[w][1]] = "stored"
      <3>1. Ready(cur[w], status, packet) /\ cur[w][2] # 0
        BY <1>1, <2>5, AtWork
      <3> QED BY <3>1 DEF Ready
    <2>6. \A p \in Preparers : /\ at[p] = "acquire" => preparer[p] \in {"trying", "asleep"}
                               /\ at[p] = "hold" => preparer[p] = "holding"
      BY <1>1 DEF JInv, Places
    <2> QED BY <2>1, <2>2, <2>3, <2>4, <2>5, <2>6 DEF GuardsHold
  <1> QED BY <1>1, Invariance, PTL

(* ---------------------------------------------------------------------- *)
(* The steps that write the record of a job.                               *)
LEMMA RecordSteps ==
  ASSUME [Next]_vars
  PROVE  \/ UNCHANGED <<status, cancel>>
         \/ \E j \in Jobs : Dispatch(j) \/ DispatchRefused(j) \/ Cancel(j)
         \/ \E th \in Threads : Reject(th)
         \/ \E w \in Workers : \/ StartCancelled(w) \/ Start(w) \/ DecodeDone(w) \/ StepFails(w)
                               \/ StagePanics(w) \/ StageCancelled(w) \/ BodyFails(w)
         \/ RejectDrained
  <1>1. ASSUME NEW th \in Threads, Submission(th)
        PROVE  Reject(th) \/ UNCHANGED <<status, cancel>>
    BY <1>1 DEF Submission, Admit, Refused, Push, Pushed, HandLane, FreeLane, NotifyPreparers, jobVars
  <1>2. ASSUME NEW w \in Workers, Idle(w) \/ SpuriousWake(w) \/ Take(w) \/ Finish(w)
        PROVE  UNCHANGED <<status, cancel>>
    BY <1>2 DEF Idle, SpuriousWake, Take, Finish, jobVars
  <1>3. ASSUME NEW w \in Workers, StepDone(w) \/ ScheduleNow(w) \/ ScheduleLater(w)
        PROVE  UNCHANGED <<status, cancel>>
    BY <1>3 DEF StepDone, ScheduleNow, ScheduleLater, jobVars
  <1>4. ASSUME NEW p \in Preparers, \/ CallPrepare(p) \/ AcquirePrepare(p)
                                    \/ SpuriousPrepare(p) \/ FinishPrepare(p)
        PROVE  UNCHANGED <<status, cancel>>
    BY <1>4 DEF CallPrepare, AcquirePrepare, SpuriousPrepare, FinishPrepare, jobVars
  <1>5. CASE BeginShutdown \/ NotifyAll \/ Join
    BY <1>5 DEF BeginShutdown, NotifyAll, Join, jobVars
  <1>6. ASSUME NEW b \in Backends, Drain(b) \/ CloseBackend(b) PROVE UNCHANGED <<status, cancel>>
    BY <1>6 DEF Drain, CloseBackend, jobVars
  <1>7. CASE UNCHANGED vars
    BY <1>7 DEF vars, jobVars
  <1>8. ASSUME NEW w \in Workers, Body(w)
        PROVE  \/ StartCancelled(w) \/ Start(w) \/ DecodeDone(w) \/ StepFails(w)
               \/ StagePanics(w) \/ StageCancelled(w) \/ BodyFails(w)
               \/ StepDone(w) \/ ScheduleNow(w) \/ ScheduleLater(w)
    BY <1>8 DEF Body
  <1> QED BY <1>1, <1>2, <1>3, <1>4, <1>5, <1>6, <1>7, <1>8, NextCases

(* A worker is at work on a task if it was before or has just started it.  *)
LEMMA WorkBegins ==
  ASSUME JInv, [Next]_vars, NEW w \in Workers, at'[w] = "work"
  PROVE  Start(w) \/ (at[w] = "work" /\ cur'[w] = cur[w])
  <1>t. at \in [Threads -> {at[th] : th \in Threads}] /\ w \in Threads
    BY ThreadSets DEF JInv, TypeOK
  <1>1. ASSUME NEW j \in Jobs, Dispatch(j) \/ DispatchRefused(j) \/ Cancel(j)
        PROVE  at[w] = "work" /\ cur'[w] = cur[w]
    BY <1>1, <1>t, ThreadSets DEF Dispatch, DispatchRefused, Cancel, GoTo, JobsOnly, poolVars,
         Pool!Admit, Pool!Refuse, Pool!vars
  <1>2. ASSUME NEW th \in Threads, Submission(th) PROVE at[w] = "work" /\ cur'[w] = cur[w]
    <2>1. CASE Admit(th) \/ Refused(th) \/ Push(th)
      BY <1>t, <2>1 DEF Admit, Refused, Push, GoTo, Pool!Admit, Pool!Refuse, Pool!Push, Pool!vars
    <2>2. CASE Pushed(th)
      BY <1>t, <2>2 DEF Pushed, EndBody, GoToWith, GoTo, Pool!NotifyOne
    <2>3. CASE Reject(th) \/ HandLane(th) \/ FreeLane(th) \/ NotifyPreparers(th)
      BY <1>t, <2>3 DEF Reject, HandLane, FreeLane, NotifyPreparers, GoToWith, GoTo, JobsOnly,
                        LanesOnly, poolVars
    <2> QED BY <1>2, <2>1, <2>2, <2>3 DEF Submission
  <1>3. ASSUME NEW v \in Workers, Idle(v) \/ SpuriousWake(v) \/ Take(v) \/ Finish(v)
        PROVE  at[w] = "work" /\ cur'[w] = cur[w]
    <2>1. CASE Idle(v) \/ SpuriousWake(v)
      BY <1>t, <2>1 DEF Idle, SpuriousWake, Pool!Doze, Pool!FallAsleep, Pool!Exit, Pool!SpuriousWake
    <2>2. CASE Take(v) \/ Finish(v)
      <3>1. w # v /\ at[w] = "work"
        BY <1>t, <2>2 DEF Take, Finish, GoToWith, GoTo
      <3>2. \E x : cur' = [cur EXCEPT ![v] = x]
        BY <2>2 DEF Take, Finish, Pool!Take, Pool!Finish
      <3>3. cur \in [Workers -> Task \cup {None}]
        BY PoolFacts DEF JInv
      <3> QED BY <3>1, <3>2, <3>3
    <2> QED BY <1>3, <2>1, <2>2
  <1>4. ASSUME NEW v \in Workers, Body(v)
        PROVE  Start(w) \/ (at[w] = "work" /\ cur'[w] = cur[w])
    <2>1. CASE Start(v)
      BY <1>t, <2>1 DEF Start, GoTo, JobsOnly, poolVars
    <2>2. CASE StartCancelled(v) \/ DecodeDone(v) \/ StepFails(v) \/ StagePanics(v)
               \/ StageCancelled(v) \/ BodyFails(v)
      BY <1>t, <2>2 DEF StartCancelled, DecodeDone, StepFails, StagePanics, StageCancelled,
                        BodyFails, EndBody, GoToWith, GoTo, JobsOnly, poolVars
    <2>3. CASE StepDone(v) \/ ScheduleNow(v) \/ ScheduleLater(v)
      BY <1>t, <2>3 DEF StepDone, ScheduleNow, ScheduleLater, EndBody, GoToWith, GoTo, JobsOnly,
                        LanesOnly, poolVars
    <2> QED BY <1>4, <2>1, <2>2, <2>3 DEF Body
  <1>5. ASSUME NEW p \in Preparers, \/ CallPrepare(p) \/ AcquirePrepare(p)
                                    \/ SpuriousPrepare(p) \/ FinishPrepare(p)
        PROVE  at[w] = "work" /\ cur'[w] = cur[w]
    BY <1>5, <1>t DEF CallPrepare, AcquirePrepare, SpuriousPrepare, FinishPrepare, GoToWith, GoTo,
                      LanesOnly, poolVars
  <1>6. ASSUME \/ BeginShutdown \/ NotifyAll \/ Join \/ RejectDrained
               \/ \E b \in Backends : Drain(b) \/ CloseBackend(b)
        PROVE  at[w] = "work" /\ cur'[w] = cur[w]
    BY <1>6, <1>t DEF BeginShutdown, NotifyAll, Join, RejectDrained, Drain, CloseBackend, GoTo,
                      JobsOnly, LanesOnly, poolVars, Pool!BeginShutdown, Pool!NotifyAll, Pool!Join
  <1>7. CASE UNCHANGED vars
    BY <1>7 DEF vars, poolVars
  <1> QED BY <1>1, <1>2, <1>3, <1>4, <1>5, <1>6, <1>7, NextCases

(* ---------------------------------------------------------------------- *)
(* Every step is a step of the life of a job or none.                      *)
LEMMA LifecycleStep == ASSUME JInv, [Next]_vars PROVE [Lifecycle!Next]_(Lifecycle!vars)
  <1>0. /\ Lifecycle!vars = <<status, cancel>>
        /\ UNCHANGED <<status, cancel>> => UNCHANGED Lifecycle!vars
    BY DEF Lifecycle!vars
  <1>e. ASSUME NEW j \in Jobs, Active(j), EndJob(j, "failed") PROVE Lifecycle!Next
    <2>1. Lifecycle!Fail(j)
      BY <1>e, EndsJob DEF JInv, Active, Lifecycle!Fail, Lifecycle!Move, Lifecycle!Unfinished
    <2> QED BY <2>1 DEF Lifecycle!Next
  <1>c. ASSUME NEW j \in Jobs, Active(j), cancel[j], EndJob(j, "cancelled") PROVE Lifecycle!Next
    <2>1. Lifecycle!Quit(j)
      BY <1>c, EndsJob DEF JInv, Active, Lifecycle!Quit, Lifecycle!Move, Lifecycle!Unfinished
    <2> QED BY <2>1 DEF Lifecycle!Next
  <1>1. ASSUME NEW j \in Jobs, Dispatch(j) \/ DispatchRefused(j) \/ Cancel(j)
        PROVE  Lifecycle!Next
    <2>1. CASE Dispatch(j)
      <3>1. Lifecycle!Dispatch(j)
        BY <2>1 DEF Dispatch, JInv, Places, Lifecycle!Dispatch, Lifecycle!Move
      <3> QED BY <3>1 DEF Lifecycle!Next
    <2>2. CASE DispatchRefused(j)
      <3>1. Lifecycle!Refuse(j)
        BY <2>2 DEF DispatchRefused, JInv, Places, Lifecycle!Refuse, Lifecycle!Move
      <3> QED BY <3>1 DEF Lifecycle!Next
    <2>3. CASE Cancel(j)
      <3>1. Lifecycle!Cancel(j)
        BY <2>3 DEF Cancel, JInv, Places, Lifecycle!Cancel
      <3> QED BY <3>1 DEF Lifecycle!Next
    <2> QED BY <1>1, <2>1, <2>2, <2>3
  <1>2. ASSUME NEW th \in Threads, Reject(th) PROVE Lifecycle!Next
    <2>1. at[th] = "reject" /\ EndJob(handling[th][1], "failed")
      BY <1>2 DEF Reject
    <2>2. Held[th] = handling[th] /\ Held[th] # None /\ Held[th] \in Task
      BY <2>1, HeldFacts DEF Carrying
    <2>3. Held[th][1] \in Live
      BY <2>1, <2>2, HeldLive
    <2> QED BY <1>e, <2>1, <2>2, <2>3 DEF Live
  <1>3. ASSUME NEW w \in Workers, StepFails(w) \/ BodyFails(w) \/ StagePanics(w)
        PROVE  [Lifecycle!Next]_(Lifecycle!vars)
    <2>1. at[w] \in {"work", "fail"}
      BY <1>3 DEF StepFails, BodyFails, StagePanics
    <2>2. cur[w][1] \in Jobs
      BY <2>1, BodyTasks
    <2>3. /\ status' = [status EXCEPT ![cur[w][1]] = "failed"]
          /\ UNCHANGED cancel
      BY <1>3, <2>2, EndsJob DEF StepFails, BodyFails, StagePanics, EndJob
    <2>4. Active(cur[w][1]) \/ status[cur[w][1]] = "failed"
      <3>1. Held[w] # None /\ Held[w][1] = cur[w][1]
        BY <2>1, HeldFacts, ThreadSets DEF Carrying, JInv, Bodies
      <3> QED BY <3>1, HeldLive, ThreadSets DEF Live
    <2>5. CASE Active(cur[w][1])
      <3>1. Lifecycle!Fail(cur[w][1])
        BY <2>3, <2>5 DEF Active, Lifecycle!Fail, Lifecycle!Move, Lifecycle!Unfinished
      <3> QED BY <2>2, <3>1 DEF Lifecycle!Next
    <2>6. CASE status[cur[w][1]] = "failed"
      <3>1. UNCHANGED status
        BY <2>2, <2>3, <2>6 DEF JInv, TypeOK
      <3> QED BY <1>0, <2>3, <3>1
    <2> QED BY <2>4, <2>5, <2>6
  <1>4. ASSUME NEW w \in Workers, StartCancelled(w) \/ StageCancelled(w)
        PROVE  Lifecycle!Next
    <2>1. /\ at[w] \in {"start", "work"} /\ cancel[cur[w][1]]
          /\ EndJob(cur[w][1], "cancelled")
      BY <1>4 DEF StartCancelled, StageCancelled
    <2>2. cur[w][1] \in Live
      BY <2>1, AtWork
    <2> QED BY <1>c, <2>1, <2>2 DEF Live
  <1>5. ASSUME NEW w \in Workers, DecodeDone(w) PROVE Lifecycle!Next
    <2>1. /\ at[w] = "work"
          /\ status' = [status EXCEPT ![cur[w][1]] = "completed"] /\ UNCHANGED cancel
      BY <1>5 DEF DecodeDone
    <2>2. cur[w][1] \in Jobs /\ status[cur[w][1]] = "running"
      BY <2>1, AtWork
    <2>3. Lifecycle!Complete(cur[w][1])
      BY <2>1, <2>2 DEF Lifecycle!Complete, Lifecycle!Move
    <2> QED BY <2>2, <2>3 DEF Lifecycle!Next
  <1>6. ASSUME NEW w \in Workers, Start(w) PROVE [Lifecycle!Next]_(Lifecycle!vars)
    <2>1. /\ at[w] = "start" /\ UNCHANGED cancel
          /\ status' = IF cur[w][2] = 0 THEN [status EXCEPT ![cur[w][1]] = "running"] ELSE status
      BY <1>6 DEF Start
    <2>2. cur[w][1] \in Jobs /\ Ready(cur[w], status, packet)
      BY <2>1, AtWork
    <2>3. CASE cur[w][2] = 0
      <3>1. Lifecycle!Start(cur[w][1])
        BY <2>1, <2>2, <2>3 DEF Ready, Lifecycle!Start, Lifecycle!Move
      <3> QED BY <2>2, <3>1 DEF Lifecycle!Next
    <2>4. CASE cur[w][2] # 0
      BY <1>0, <2>1, <2>4
    <2> QED BY <2>3, <2>4
  <1>7. ASSUME RejectDrained PROVE Lifecycle!Next
    <2>1. drained # <<>> /\ EndJob(Head(drained)[1], "failed")
      BY <1>7 DEF RejectDrained
    <2>2. Head(drained) \in Boxes
      <3>1. drained \in Seq(StageTask) /\ Distinct(drained) /\ DrainedTasks = Boxed(drained)
        BY DEF JInv, TypeOK, DrainedApart, Distinct, DrainedTasks, Boxed
      <3> QED BY <2>1, <3>1, Popped_front DEF Boxes
    <2>3. Head(drained)[1] \in Jobs /\ Active(Head(drained)[1])
      BY <2>2, BoxLive, Tasks
    <2> QED BY <1>e, <2>1, <2>3
  <1>8. CASE UNCHANGED <<status, cancel>>
    BY <1>0, <1>8
  <1> QED BY <1>1, <1>2, <1>3, <1>4, <1>5, <1>6, <1>7, <1>8, RecordSteps

(* Jobs go through the states that dispatch, poll and cancel promise: they *)
(* start once, end once, and never leave the state they ended in           *)
(* (stack.rs:884-1038).                                                    *)
THEOREM LifecycleImplemented == Spec => ImplementsLifecycle
  <1>1. Init => Lifecycle!Init
    BY DEF Init
  <1>2. JInv /\ [Next]_vars => [Lifecycle!Next]_(Lifecycle!vars)
    BY LifecycleStep
  <1> QED BY <1>1, <1>2, Invariance, PTL DEF Spec, ImplementsLifecycle, Lifecycle!Spec

(* ---------------------------------------------------------------------- *)
(* What cancel guarantees does not wear off.                               *)
LEMMA CancelSticks ==
  ASSUME JInv, [Next]_vars, NEW j \in Jobs, cancel[j], ~DecodeStarted(j)
  PROVE  cancel'[j] /\ ~DecodeStarted(j)'
  <1>1. cancel'[j]
    BY LifecycleStep
       DEF JInv, TypeOK, Lifecycle!Next, Lifecycle!vars, Lifecycle!Dispatch, Lifecycle!Refuse,
           Lifecycle!Start, Lifecycle!Complete, Lifecycle!Fail, Lifecycle!Quit, Lifecycle!Move,
           Lifecycle!Cancel
  <1>2. ASSUME NEW w \in Workers, at'[w] = "work", cur'[w] = <<j, Stages[j] + 1>> PROVE FALSE
    <2>1. CASE Start(w)
      <3>1. cur'[w] = cur[w] /\ ~cancel[cur[w][1]]
        BY <2>1 DEF Start, JobsOnly, poolVars
      <3> QED BY <1>2, <3>1
    <2>2. CASE at[w] = "work" /\ cur'[w] = cur[w]
      BY <1>2, <2>2 DEF DecodeStarted
    <2> QED BY <1>2, <2>1, <2>2, WorkBegins
  <1>3. status'[j] # "completed"
    <2>0. status[j] # "completed" /\ status \in [Jobs -> {status[i] : i \in Jobs}]
      BY DEF DecodeStarted, JInv, TypeOK
    <2>1. ASSUME NEW i \in Jobs, Dispatch(i) \/ DispatchRefused(i) \/ Cancel(i)
          PROVE  status'[j] # "completed"
      BY <2>0, <2>1 DEF Dispatch, DispatchRefused, Cancel
    <2>2. ASSUME NEW th \in Threads, Reject(th) PROVE status'[j] # "completed"
      BY <2>0, <2>2 DEF Reject, EndJob
    <2>3. ASSUME NEW w \in Workers, \/ StartCancelled(w) \/ Start(w) \/ StepFails(w)
                                    \/ StagePanics(w) \/ StageCancelled(w) \/ BodyFails(w)
          PROVE  status'[j] # "completed"
      BY <2>0, <2>3 DEF StartCancelled, Start, StepFails, StagePanics, StageCancelled, BodyFails,
                        EndJob
    <2>4. ASSUME NEW w \in Workers, DecodeDone(w) PROVE status'[j] # "completed"
      <3>1. /\ at[w] = "work" /\ IsDecode(cur[w])
            /\ status' = [status EXCEPT ![cur[w][1]] = "completed"]
        BY <2>4 DEF DecodeDone
      <3>2. cur[w] = <<cur[w][1], Stages[cur[w][1]] + 1>>
        BY <3>1, AtWork, Tasks DEF IsDecode
      <3>3. cur[w][1] # j
        BY <3>1, <3>2 DEF DecodeStarted
      <3> QED BY <2>0, <3>1, <3>3
    <2>5. CASE RejectDrained
      BY <2>0, <2>5 DEF RejectDrained, EndJob
    <2>6. CASE UNCHANGED <<status, cancel>>
      BY <2>0, <2>6
    <2> QED BY <2>1, <2>2, <2>3, <2>4, <2>5, <2>6, RecordSteps
  <1> QED BY <1>1, <1>2, <1>3 DEF DecodeStarted

(* A job that is cancelled before its decode step has started never        *)
(* completes, whatever the workers were doing at that moment               *)
(* (stack.rs:901-1032).                                                    *)
THEOREM CancelledInTime == Spec => CancelInTime
  <1> SUFFICES ASSUME NEW j \in Jobs
               PROVE  Spec => [](cancel[j] /\ ~DecodeStarted(j) => [](status[j] # "completed"))
    BY DEF CancelInTime
  <1> DEFINE R == cancel[j] /\ ~DecodeStarted(j)
  <1>1. JInv /\ [Next]_vars /\ R => R'
    BY CancelSticks
  <1>2. R => status[j] # "completed"
    BY DEF DecodeStarted
  <1> QED BY <1>1, <1>2, Invariance, PTL DEF Spec
=============================================================================
