# TLA+ models of braids

`braids` runs procedural-generation jobs: a *planner* compiles a specification
into a plan of stages, a *compute backend* runs the stages, and an *executor*
with worker threads moves many jobs through the stages while it keeps each
backend within its number of lanes. This directory holds specifications of its
concurrent core (executor, jobs, versions), of what the jobs work on (packets, plans)
and of the FastNoise planner, the TLC configurations that check them and the proofs
that TLAPS checks. Paths are relative to the repository's root, which the manifest
calls `src/`; line numbers without a file are of `src/executor.rs`.

## The system

| component | state | operations | depends on | specified in |
|---|---|---|---|---|
| backend lanes, `BackendRuntime` | lanes and prepares in use, `waiting` deque, condition variable `prepare_wake` | `schedule`, `finish_lane`, `acquire_prepare`, `finish_prepare`, `submit_ready`, `shutdown` | task queue | `BackendRuntime` |
| task queue and workers, `ExecutorInner` | `queue`, condition variable `wake`, `shutdown` flag, thread handles | `submit_boxed`, `worker_loop`, `shutdown`, `drop` | - | `WorkerPool` |
| job execution, `JobExecution` in `src/stack.rs` | job record, cancel flag, packet slot | `schedule_encode/stage/decode`, the three steps, `run_caught`, `cleanup_packet`, `reject_scheduled_task` | both of the above | `JobPipeline`, `JobLifecycle` |
| job table in `src/stack.rs` | `jobs` map, records with their condition variable | `dispatch`, `poll`, `collect`, `cancel` | job execution | `StackJobs` |
| versions, `src/version.rs`, `compile_from_state` | planner state, current version, prepared pool | `apply`, `replace`, `recompile`, `update`, drop of a version | lanes (prepare) | `StackVersions`; competition for lanes in `JobPipeline` |
| packets and plans, `src/job.rs`, `src/pipeline.rs` | typed buffers by slot, the packet pool | `ensure`, `load_static_buffer`, `slice*`, `clear_for_reuse`, `validate`, `validate_packet` | - | `JobPacket`, `PacketReuse` |
| inline execution, `src/stack.rs` | inline context pool | `resolve_*inline*`, `dispatch_collect` | packets, backend | `PacketReuse` |
| slot table, `src/slot_table.rs` | slots with generations, free list | `insert`, `remove`, `get`, `get_mut`, `iter`, `clear_reuse` | - | `SlotTable` |
| CPU backend, `src/cpu.rs` | kernel factories, prepared kernels | `prepare`, `run_stage` | packets | `PacketReuse` (loop and cancel tests), `NoisePlan` (preparing) |
| FastNoise planner, `fastnoise/src` | node graph, kernels | `apply`, `compile_graph`, `encode_*`, `decode_*`, kernels | slot table, packets | `NoiseGraph`, `NoisePlan` |

How they interact: `dispatch` puts an encode task into the queue; the worker that
encodes schedules stage 0 with the backend, which wraps it and puts it into the
queue or parks it in `waiting`; the worker that runs a stage schedules the next
stage *inside* the body and then, when the body has returned, gives its lane
back, which may put a task of quite another job into the queue. `recompile`
takes a lane of the same backend for its `prepare` call, blocking the caller.
`shutdown` sets one flag that all of these read at different moments, rejects
what is parked, wakes everybody and joins the workers.

What is hard: four locks and two condition variables with the flag outside all of
them; notifications sent after the lock is released; rejection, which runs on the
thread that happens to hand a lane over and may reject one task after another;
panics in foreign code at any step; a shutdown that races with all of it. Beyond the
threads: a version is replaced while jobs still run with it; packets and contexts are
recycled across calls, plans and failures, with checks that only debug builds make; and
a graph that callers edit freely is compiled into slots that kernels index without a
second look.

## Modules

* **`WorkerPool`** - `submit_boxed` in three steps (flag read, push, `notify_one`),
  `worker_loop` (pop, or test the flag, fall asleep, exit) and the shutdown of the
  workers (store the flag, `notify_all`, join). The queue mutex is there where it
  is held across a step: a worker that has tested the flag is `"dozing"` and
  holds it until `Condvar::wait` has put it to sleep. A worker runs `shutdown` only
  by dropping the last reference to the executor, so only when nothing else can be
  queued or running (`LastOwner`).
* **`BackendRuntime`** - one action per critical section of `BackendRuntime.state`
  and one per `notify_all` outside it. `wrapped` is the set of tasks owned by a
  live `BackendWrappedTask`, each of which owes one `finish_lane`; `owing` is the
  set of threads that have freed something and not yet notified. The repeated
  `notify_all` of a refused hand-over is subsumed by spurious wakeups.
* **`JobLifecycle`** - the abstract life of a job: refused, or queued, running and
  ended once; cancelled only on request.
* **`JobPipeline`** - the composition. `Pool` and `Lanes` are instances of the two
  modules over shared variables; every action is one step of one thread, which
  conjoins at most one action of each with its effect on the job. `at` is a
  program counter for worker, dispatching, preparing and closing threads,
  `handling` the task a thread is about, `inbody` the workers whose `run_caught`
  has not returned. Task `<<j, 0>>` encodes job `j`, `<<j, k>>` runs its stage
  `k - 1` and the last one decodes. The outcome of planner and backend calls
  (success, error, panic, a backend that polls the cancel flag) is a choice.
* **`StackJobs`** - the job table. What happens to a job between its dispatch and its
  end is an instance of `JobLifecycle`, which `JobPipeline` is shown to implement, so
  the model is small enough for several collects of the same job. `dispatch`
  has three steps (record into the table, task accepted or refused, id handed out) and
  `collect` four (look the record up, sleep, take the outcome, remove the
  record), each under the lock that the code holds. `twice` stands for the body
  that fails a job which the rejection of its next stage has failed already.
* **`StackVersions`** - one action per critical section of `apply`, `replace`,
  `recompile` and `update`: `holder` has `stack.state` for the whole call, `writer` is
  the thread inside the write lock of `current_version`, and `at` is where
  `compile_from_state` stands (compile, pop the pool, prepare, draw an id, swap, give
  the old version back, store `current_version_id`). The planner state is the set
  of changes that are in it; a failing `apply` leaves any part of its changes. A version
  is alive while it is current, held by a job, or swapped out and not yet
  dropped; the last to let go of it puts its prepared state into the pool. `floor`,
  `reported`, `returned` and `peak` are history: what an observer has been told.
* **`JobPacket`** - the operations of a packet as operators on a record of slots with
  kind and data, the length rules of `BufferSpec`, `CompiledPlan::validate` and
  `validate_packet`. No state.
* **`PacketReuse`** - the packets and contexts of two pools, and contexts that callers own,
  through every way of running a batch (asynchronous, pooled or own inline context,
  `dispatch_collect`), from checkout to return, with errors and panics of planner and
  kernels and the cancel tests between and inside stages. An element of a buffer is
  the set of jobs that it stems from. `debug` is chosen once: only debug builds
  validate packets and catch the panics of inline calls.
* **`SlotTable`** - keys with a generation that wraps at `Generations`, as operators.
* **`NoisePlan`** - `compile_graph` (resolution, dependencies, order, slots, kernels,
  buffer specs), the encoding of queries, the payload codec as sequences of values with
  enum tags, the kernels and the decoding. `Job` runs a plan on a batch, on a fresh or on a
  recycled packet. A floating-point result is the term that would be computed:
  `<<"Add", x, y>>`, with a query's origin and step at its leaves, so two samples are
  equal exactly when they are computed alike. What becomes a `u32` wraps at `Word`, slots wrap at
  `SlotSpace`; a `usize` wraps at `Wide` in a release build, and in a debug build the product
  or sum that does not fit panics (`Overflows`).
* **`NoiseGraph`** - the planner's state over `SlotTable`, one action per change, compile
  and batch; its `Value` says what a field is at a cell, in as many rounds over the nodes as
  the graph can be deep, without plan, slots, payloads or packets.
* **`SeqFolds`** - two folds over sequences that `SlotTable` and `NoisePlan` use (`Concat`, `Kept`).
* **`MC...`** - constants for TLC. **`..._proofs`** - theorems and proofs.

Operators introduced by a comment that begins with "Slip:" are not used by any
specification. Each is a faulty variant of the definition that follows it
(a notification forgotten, one lane too many, ...): put in its place, it makes the
property that `PROJECT.json` names under "mutants" fail.

## Runs

| run | configuration | distinct states | what is asked |
|---|---|---|---|
| `backend_runtime` | 1 backend with 2 lanes, 1 of them for prepares, 4 tasks, 2 preparers, 2 agents | 20 k | lane accounting, hand-over order, prepare wakeups, service of parked tasks |
| `worker_pool` | 2 workers, 2 outside threads, 3 tasks | 4 k | lost wakeups, single ownership, what shutdown leaves |
| `shutdown_returns` | as above | | finding 1 |
| `pipeline_safety` | 2 workers, 2 jobs of 1 stage, 1 preparer, 1 lane | 1.0 M | continuations, packets, lanes across both layers |
| `pipeline_stacks` | 2 workers, a plan of 2 stages and one of none, 2 backends | 0.65 M | refinement of `JobLifecycle` |
| `pipeline_ends` | 2 workers, 1 job of 2 stages, 1 preparer | 91 k | liveness, cancellation, refinement of the two components |
| `accepted_jobs_end` | 2 workers, 1 job of 1 stage | | finding 2 |
| `stack_jobs` | 2 jobs, 3 collects | 90 k | who gets the outcome of a job, wakeups of collectors, the table |
| `collected_values` | as above | | finding 3 |
| `stack_versions` | 2 callers, 2 jobs, 1 change, 3 version ids | 118 k | prepared states, what is served, order of versions, stalls of dispatch |
| `packet_reuse` | 1 caller, 2 calls, 7 plans, debug and release | 130 k | what a call sees of earlier ones |
| `noise_graph` | 3 specifications, 20 or so nodes on 4 ids, 2 edits, 3 generations, words of 8 (`u32`) and 64 (`usize`), 38 slots | 23 k | node graph, compile, jobs against the meaning of the graph |

Why the bounds are enough for what they ask. Two workers are the fewest with
which a task can be taken by a thread other than the one that was notified, and
one sleeps while the other runs; two jobs and one lane force parking, hand-over
and rejection of another job's task; one preparer competes with both. Four tasks
on two lanes let two wait at once while a prepare call holds a lane, which is what
overtaking needs. A plan of two stages is the shortest in which a stage schedules
a stage (and parks it behind the lane that it holds itself); a plan of none goes
from encode to decode without lanes. Three collects and two jobs let two collects meet
on one job while a third takes, or finds gone, the other. Each job is dispatched, each preparer
compiles and the executor shuts down once, at any moment. The pipeline and the table
really stop when everybody is done, so their runs do not check for deadlock; that nobody
is stuck halfway is what the liveness properties say. `pipeline_safety`, whose
jobs are of one plan, treats workers and jobs as symmetric; runs with temporal properties use no symmetry.

Two callers, two jobs and three versions let a version be replaced while a job holds it,
its prepared state be reused by one caller while the other drops a version, and a
caller wait out another's failing update. In `packet_reuse` a packet's past is only the slots it has
and their kinds, and one earlier call can leave any that a plan of the list makes; calls of
different threads share nothing but the pools, so one caller in two calls is enough. The plans
are a scalar one, one with vectors, a static buffer and two stages, one that leaves its
output to the kernel, one whose kernel reads a slot nobody sets, one whose kernels want a slot that no stage has set
yet, one of no stages and one that must be refused (a slot declared twice); they use the same slots with different kinds.
The nodes of `noise_graph` cover each kind, each class of combine operator by number of
inputs and parameters, self-references, cycles, missing inputs, inputs of the wrong dimension, equal
inputs and bounds out of order; one specification uses the slots up to the last, and the
batches go from an empty query up to more samples than a `u32` and than a `usize` counts: as one
product, as a layer of an empty query, as a sum of products, and with sides that do not fit a `u32`.
`packet_reuse` and `noise_graph` stop when their calls are used up, so they do not check
for deadlock either; neither do they need fairness, as they are about what a call returns.

The named properties that are conjunctions: `PreparersAwake` (a sleeping prepare call that
could be granted has a notification coming; none sleeps through its backend's shutdown),
`PacketFollowsJob` (a step finds the packet where it looks for it; a job that ended has given it
back, unless a panic poisoned it), `LanesHeld` (running stages are within the lanes and every
lane has a holder that will give it back) and `ImplementsLanesAndPool` (the pipeline's
steps are steps of both components).

**Fairness.** Threads run: each step of a worker, a submitter, a preparer in a
call and of the closing thread is taken when it stays possible, and a thread
that waits for the queue lock gets it although others take it in between (strong
fairness, as the operating system's locks give in practice). A planner or backend
call returns. Nothing makes anyone dispatch, cancel, compile or shut down, or
wake without a notification. In `BackendRuntime` alone it is assumed that a
wrapped task is eventually run or rejected; `pipeline_ends` checks the whole
without that assumption. In `StackJobs` a collect goes on while it can and the workers
do not leave a job unfinished, which `pipeline_ends` shows except for the jobs that a
shutdown strands. In `StackVersions` a caller's own steps go on, a planner's compile and a
backend's prepare need never return, and a dispatch gets the read lock of `current_version`
although writers come in between (strong fairness; the write lock is held from the swap to the storing of the id, and no foreign call is made under it but the drop of the old version).

**What the runs found**

1. `shutdown` can hang (`shutdown_returns`). It stores the flag (214) and calls
   `notify_all` (232) without the queue mutex; a worker between its flag test
   (484) and its `wait` (487) misses both and sleeps for ever, and `join` (240)
   waits for it. The comment on line 212 promises that the workers stop. When no
   worker is in that window as the flag is set, shutdown does return
   (`StopsUnlessCaughtDozing`).
2. An accepted job may never end (`accepted_jobs_end`). `submit_boxed` tests the
   flag (458) before it takes the lock and pushes (462-466). If shutdown comes in
   between, all workers may leave before the push; `dispatch` returns an id,
   and `collect` ("Wait for a dispatched job", `src/stack.rs:466`) never returns.
   `JobsEndOrStrand` shows that this is the only way: a job ends unless the
   workers are gone and its task was queued, or parked behind one that was.
3. A second collect may get nothing (`collected_values`). Two collects of one job can
   both find its record (`src/stack.rs:474`) before either removes it (504). The second
   finds the values taken and returns `Ok` with an empty list (491), while the comment on
   line 466 promises the results. `ValuesOnce` shows that the values themselves are
   never lost or handed out twice.

The composition also showed that a thread that ends a prepare call may run
`finish_lane` before its own notification (its hand-over is refused, and the
refused task rejected, in between): `MayFinish` allows it, and the invariants of
the lanes hold with it.

Observations which no document contradicts, and which the properties state as what does happen:

* A planner that declares a slot and leaves it to a kernel (`ensure` in the first stage) meets, on a
  recycled packet, the kind and the empty buffer of an earlier plan. Debug builds refuse such a packet
  when they do not fit (`src/pipeline.rs:300`), release builds run it. For a planner that sets
  every slot it declares or decodes, as FastNoise does, a packet's past is invisible. For any other
  planner it shows in these two ways only: a debug build refuses what an earlier job left, and a
  kernel or the decoding that would miss a buffer on a new packet may find one (`ReuseTransparent`).
  The second can hide a mistake: a plan that fails at a missing buffer on a new packet may get
  further, or end otherwise, on a recycled one.
* `compile_graph` makes kernels for every node that no cycle feeds, needed or not: an unsound node
  that nothing uses makes the compile, or every job of the version, fail. A combine of one
  node with itself compiles, and its jobs fail with a duplicate slot. Cycles apart from
  the final field are left out silently.
* A 3D node on the base grid of a 2D graph reads the slot of `z`, which a 2D query never
  ensures: an error on a fresh packet, an index out of bounds on a recycled one.
* A batch of 2^32 samples or more, as `ChunkQuery::samples` counts them (`src/fastnoise/src/model.rs:266`),
  ends in a panic as long as no side is itself 2^32 or more; no smaller one is affected by the
  conversion of its offsets to `u32`. A side of 2^32 or more loses its high bits before anything is checked
  (`*width as u32`, runtime.rs:203, 224, 283, 305, and likewise the others): a query of 2^32 x 1 is answered with no samples and one of
  (2^32 + 2) x 1 with two, as a success. `JobsComputeGraph` states it as its exception. A debug build panics
  before that when a product of sides or the sum of them does not fit a `usize` (runtime.rs:212, 233,
  1109-1115), as 2^32 x 2^32 does not; a release build wraps. No document or test of the repository
  says what is to become of such queries, so this is an observation and not a finding.
* An update that fails or panics, at whatever point, leaves what is served and the planner
  state as they were. A planner or backend that panics in any of the four calls poisons
  `stack.state`; every later change then fails, while dispatch goes on with the version there is.

## Proofs

Each component's theorems are in the module of its name with `_proofs`; those about `SlotTable` and
`NoisePlan` are in `NoiseGraph_proofs`, and what folds compute is in `SeqFolds_proofs`, for
`PacketReuse_proofs` as well. They hold for every value of the constants that satisfies
the named assumptions:

* `LaneAssumption`, `HomeAssumption`, `BackendAssumption`, `StageAssumption`: the lane arguments
  and the numbers of stages are naturals, every task and preparer has a backend;
* `ThreadAssumption`, `WorkerAssumption`, `OutsiderAssumption`, `FiniteAssumption`,
  `CollectorAssumption`: the sets of threads (and in `JobPipeline` of jobs) are finite, there is a worker;
* `NoneAssumption`, `ApartAssumption`, `NobodyAssumption`, `NodesAssumption`: what stands for
  different things is different (a worker is not an outside thread, `None` is no task, thread or
  job, `Nobody` no caller, `Hole` no node);
* `SubmitAssumption`, `SpecsAssumption`, `PlansAssumption`: tasks, specifications and plans are of their types;
  so are nodes and batches (`NodesAssumption`: a combine has one of the operations, ids as inputs and numbers as parameters,
  none of them NaN; a warp or sample has an id or the base as source and a setting for each field of `FastNoiseLite`.
  `BatchesAssumption`: a query has two or three dimensions, and a side, an origin and a step for each);
* `SlotSpaceAssumption`, `WordAssumption`, `WideAssumption`: there are more slots than the 32 that are set apart (2^16 in the
  code), and words (a `u32`, 2^32 in the code) and wide words (a `usize`, 2^64 or, on 32 bits, 2^32) are not of size zero, the
  second a multiple of the first;
* `GenerationsAssumption`, `VersionAssumption`, `MaxEditsAssumption`, `JobsAssumption`: the bounds are naturals,
  and there is a generation and a version id.

What is proved:

* the type invariants that the runs check (`TypeCorrect`);
* `LanesAreAccounted`, `LanesBounded`, `LanesConserved`, `PreparersWoken` and
  `FirstComeFirstServed` of the lanes;
* `NoLostWakeup`, `TasksHaveOneOwner` and `ShutdownDrainsWorkers` of the pool;
* `OneContinuationHolds`, `PacketFollowsJobHolds`, `LanesHeldAlways`, `CancelledInTime` and
  `GuardsAlwaysHold` of the pipeline, and that it implements its three parts:
  `LanesAndPoolImplemented`, `LifecycleImplemented`;
* `CollectorsWoken`, `ValuesHandedOutOnce` and `TableExact` of the job table;
* `VersionsFresh`, `ServedIsState`, `VersionsGoForward`, `PreparedUsedOnce` and
  `PreparedStatesBounded` of the versions;
* `PacketsIsolated` and `ReuseIsTransparent` of the packets;
* `InsertKeepsOthers`, `RemoveMakesKeyStale` and `ClearReuseEmpties` of the slot table, and
  `KeysAlwaysMatch` of the node graph, which uses it;
* `CompilesHolds` of the compiler: which graphs compile, and how the others fail;
* `PayloadIsRead` of the payload codec, and `JobsHold`: what a job of the FastNoise planner returns, or
  how it fails.

*Lanes.* That a backend stays within its lanes follows from a bound on the
counter (`LaneLimit`) together with `LanesAccounted`, which says that the counter is the
number of holders. To keep that through `HandLane` and `FinishPrepare` one needs
that the task which takes the lane held none before, so the invariant adds that a parked task is
parked once, on its own backend, and is not wrapped. `PreparersAwake` holds because whatever
makes a grant possible leaves its author in `owing`; it needs `WorkConserving`, which
excludes that parked tasks disappear from a backend that has free lanes, and
that after `Drain` the flag turns every new attempt away.

*Pool.* `NoSleepOnWork` counts: each queued task has an idle worker or a submitter
with its notification outstanding. A worker dozes only on an empty queue and
keeps the lock, so nothing is pushed meanwhile (`DozingAlone`); `NotifyOne` wakes
a sleeper or finds none. `ShutdownDrainsWorkers` needs that a worker leaves only on
an empty queue with the flag set, so a task that a worker has submitted can be
queued only while some worker has not exited (`SomebodyLeft`); `AllJoined` and
`LastOwnerQuiet` say the same of the moments in which `join` and the dropping of the
last reference look.

*Pipeline.* `JInv` is inductive. At its centre, `Order` says where the boxes of jobs are: a job
that has not ended is in exactly one place, a box that waits (`Boxes`: queued, parked or
drained) or the hands of a thread (`Held`), and whatever of it was run before (`Past`) has a
smaller stage number. That alone is not inductive. Whether a step finds its job and packet as
the step before left them is `Readiness`; whether the lane that a thread passes on may be
used by somebody else meanwhile is `ReleasedOnce`, and who will give it back `WrappedOwned`: a
stage task is wrapped exactly as long as it is queued, in some thread's hands or in a body. Where
threads can stand at all is `Places`; `Bodies` has the one surprising case, that of a worker
which, after a refusal, still inside its body, is handed the task of another job by
`finish_lane`. The invariants of lanes and pool are part of `JInv`, and are not proved again:
`LanesP` and `PoolP` instantiate their proof modules, and a step of the pipeline is
a step of each or leaves its variables alone, whose guards `JInv` supplies (a task that is submitted
has no other owner). `GuardsHold` is the converse of a modelling risk: a step that conjoins
actions of several modules might be disabled by a guard the code does not have, and the model
would hide what happens then. It says that no thread is ever stopped in this way.

*Job table.* A collect has a job from the moment it has found the record and an
outcome from the moment it has taken it (`Calls`); the Option of a record is Some only
while the job is completed or failed (`Records`). A step that ends a job wakes every
sleeper on it, and a collect falls asleep under the lock of the record, so
`NoSleepOnEnded` is inductive with these. `ValuesOnce` follows because a job completes
once and only `Take` empties the Option; removal of a record that another collect has
removed changes nothing, so `TableIsUncollected` needs no more than that a job
is found only after its id has been handed out.

*Versions.* `Good` is inductive: the state's lock has one holder, who alone is between compile and
commit (`Locked`), ids are drawn in the order of the swaps under it (`Numbered`), a job's version is
no older than what was returned before it asked, and no newer than what has been announced or reported since (`Taken`), and the
current version was compiled from the state, or from the one that an update is about to commit
(`Served`). `PreparedExclusive` is inductive only together with what is known of counters: every
prepared state in use was made before (`Counted`), a caller has one in hand only from
the pool to the give-back (`HandsAt`), and a version that one job is dropping is no other job's
(`LastToDrop`). `Held` is their conjunction. That there are never more prepared states than
versions have been alive at once, plus the one being made, (`PreparedBounded`) is `Scarce`: a caller
makes one only after it found the pool empty, when all others are in versions alive. Its proof follows the
cardinality of the set of live versions through every step.

*Packets.* `Held` gives each packet a type that names the jobs whose elements may be in it: `Packet({})` in a
pool, `Packet({Static, job})` in a call, so a packet that is not marked dirty is empty, and `Isolated` follows.
That encoding, kernels and stages keep to the type is an induction over folds; as the prover cannot
instantiate an induction principle, `SetInduction` states induction for a *set* of numbers
(from the well-foundedness of `<`), `FoldExists` builds from it the function that a fold is defined by, and `FoldChain` turns
it into a chain of values, one for each element; what holds of neighbours in a chain
holds of its end (`ChainStays`), and of two chains side by side (`ChainsRelate`). `ReuseTransparent`
compares a call on a used packet with one on a new packet. The two are `Alike` when they differ
only in empty buffers that the used one still has; every operation keeps that, or the new packet misses a
buffer (`AlikeRuns`). `Replayed` says of each call whose planner and backend did nothing wrong
that it stands where the `Reference` stands after as many stages (`Standing`), or ended as it does (`Tells`).
Batches are of one or two queries, as in the model; the type of a plan leaves slots, kinds, widths, kernels and
numbers of stages open.

*Slot table and graph.* `Table` says that the free list holds every hole exactly once and that
`len` counts the rest; each operation keeps it and says what every key finds afterwards. The
theorem about stale keys is about the next filling of the slot: after as many reuses as there are generations
a kept key would find another value. The planner drops the key with the node, so `KeysMatchNodes`
needs no such assumption: it follows with `Typed` from the three theorems, change by change.

*Compiler.* `CompilesIfSound` compares what `compile_graph` does, step by step, with a condition on the graph
alone. Two facts about states lead to it: the nodes that `Values` lists are typed and no two have one id
(`GraphIsOK`, from `KeysMatchNodes`: two live slots with one id would have one key), and the plan, while there
is one, is that of the present nodes (`PlanIsCurrent`, inductive because an edit drops the plan before its first
change). The rest is about one graph (`CompiledIs`) and goes along the code:

1. *Order.* While references are followed, `Balanced` says that the in-degree of a node is the number of its references that lead to
   nodes not yet done, each reference counted as often as it is made, and that a node is done or queued
   exactly when that number is zero. So the loop never lists a node twice, and since every turn that finds
   a queue lists a node, after as many turns as nodes the queue is empty: `SortedIs` has a list without repetition, each
   node after those it refers to, closed under "refers only to listed ones".
2. *Grounded.* The nodes listed are those that `Grounded` reaches as a fixed point from below
   (`GroundedIs`): each listed node is reached after as many rounds as its place in the list, and no round adds a node
   that is not listed.
3. *Slots.* `AllocatedIs` follows `next_slot` along the list: it wraps exactly when the widths add
   up to the slots there are or more; `RoomIs` turns the sum into the cardinality in `SlotsNeeded`.
4. *Sources.* A slot list is empty exactly for a node that is not listed, so a kernel's sources are found exactly if the inputs are of their
   kind (`SourcesAre`, `FinalIs`).
5. *Validation.* Declared buffers have different slots as long as the widths fit the slots there are, and one
   more is a slot declared twice (`DeclaresIs`); grid and kernels name no slot that is not declared, so nothing else can be refused (`ValidIs`).

*Jobs.* `JobsHold` says of the result what `Value` says of the graph, which knows no slots, stages or packets.
It goes from a plan that compiled (`CompiledTo`: an order of the nodes and slots for each, all different) to its result:

1. *Payloads.* Each field is read at the place where it was written, so that `Decoded` undoes `Payload`
   (`PayloadIsRead`); with it a stage runs the kernel of its node (`KernelIs`).
2. *Encoding.* `Totals` and `Filled` are folds: `OffsetsAre` gives the offset of each query as the cells of
   those before it modulo `Word`, whose sides are cut to a word or not and whose sum is wrapped or not
   (`ProductMod`, `WideDrops`), and `EncodedIs` the three buffers that a job starts from. Only `clear_for_reuse`'s empty base
   slots tell a recycled packet from a new one.
3. *The grid.* Below `Word` samples of the queries cut (`CutSize`) the queries' pieces do not overlap, so the query that writes a cell is
   the one that owns it, and the coordinates are its own (`GridDataIs`); from `Word` on some write is out of range (`GridPanics`).
4. *Kernels.* The invariant of a job is `Holds(p, ..., m)`: after the grid and m kernels the slots of the first m
   nodes in the order hold, cell by cell, the `Value` of these nodes, and nothing else that is read has changed.
   It is kept because the inputs of a node come before it and slots are never shared. A kernel with nothing
   wrong computes its node's value (`StepWorks`); one with something wrong fails with what `Trouble` says of its node
   (`StepFails`). `ValueIs` turns the rounds of `Value` into one equation per node, for the nodes that no cycle feeds.
5. *Validation.* In a debug build the packet is checked after each step; `Holds` says enough of it for this never to
   refuse (`HoldsValid`), so debug and release builds return the same, what overflows a `usize` apart.
6. *Decoding.* The offsets cut the final field's buffer into the cells of each query (`PieceOfValues`, `ResolutionIs`).
7. *The queries as asked.* Steps 2 to 6 are about the queries cut. Without a side of `Word` or more these are the queries as asked
   (`AnsweredAre`, `AnsweredCells`), so that size and cells are those of whole sides. The checks of a debug build find exactly
   what a `usize` cannot count, as the property puts it: the whole sum, or one layer of a query (`OverflowsIs`).

That a result belongs to the plan of the present graph is the inductive `PlanIsCurrent /\ OutcomeIsJob`.

Only model-checked is liveness, which needs fairness and ENABLED and is beyond this prover
(`WaitingIsServed`, `QueuedIsRun`, `StopsUnlessCaughtDozing`, `JobsEndOrStrand`, `PrepareReturns`,
`CollectReturns`, `DispatchNotStalled`).

## Not modelled

Poisoning of the executor's, the backend's and the job table's own mutexes (no foreign code
runs under them; the packet mutex and `stack.state`, under which it does, are modelled with their
poisoning); the dropping of the last executor reference in the middle of a
submission (`Weak::upgrade` failing, which has the outcome of the flag). The noise functions of
`fastnoise_lite.rs` (third-party arithmetic: a term of their name and settings stands for the
result) and the statistics that `ChunkSummary` computes from the samples; the polling of the cancel flag
inside FastNoise kernels; the capacities of scratch vectors and `SpareVecs`, which only save
allocations; the registry of kernel factories; the error type and its `Display`; scenarios,
examples, benches and tests, which drive the library and keep no state of their own. Concurrent calls on one
packet do not exist: it is owned by its job or context.

## Plan

Done: all the components above, and a proof of every safety property that a passing run checks. What is
left to the runs is liveness.
