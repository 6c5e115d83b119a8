------------------------------ MODULE PacketReuse ------------------------------
(***************************************************************************)
(* Packets that many jobs share one after the other (src/src/stack.rs):    *)
(* the packet pool of asynchronous jobs, the pool of inline contexts and   *)
(* the contexts that callers own, through every way to run a batch:        *)
(*   async    dispatch: encode_packet, run_stage_once, decode_packet       *)
(*   pooled   resolve_inline, resolve_one_inline, resolve_one_inline_ref   *)
(*   own      the same with a context of the caller's                      *)
(*   collect  dispatch_collect                                             *)
(* The elements of a buffer are the set of jobs that they stem from, with  *)
(* Static for the static buffers of a plan.  Only debug builds validate    *)
(* packets and catch the panics of inline calls.                           *)
(***************************************************************************)
EXTENDS Naturals, Sequences

CONSTANTS
  Callers,  (* threads, each in one call at a time; a worker is one, too   *)
  Plans,    (* the plans that the stack may be recompiled to, a sequence   *)
  MaxJobs   (* bound on the calls                                          *)

Static == 0

Kinds == {"u32", "u64", "f32"}

(* A plan, with what its planner encodes into and decodes from, and what   *)
(* its kernels do to their slots; the last slot is the output.             *)
PlanType ==
  [specs   : Seq([slot : Nat, kind : Kinds, layout : {"scalar", "vector", "dynamic"}, width : Nat]),
   statics : Seq([slot : Nat, kind : Kinds, data : Seq({{Static}})]),
   encode  : Seq([slot : Nat, kind : Kinds, width : Nat, fills : BOOLEAN]),
   stages  : Seq(Seq([access : {"exclusive", "grow", "groups"}, slots : Seq(Nat) \ {<<>>},
                      kind : Kinds, width : Nat])),
   decode  : [slot : Nat, kind : Kinds]]

ASSUME PlansAssumption == Plans \in Seq(PlanType) /\ Plans # <<>>
ASSUME JobsAssumption == MaxJobs \in Nat

VARIABLES
  debug,     (* cfg(debug_assertions)                                      *)
  packets,   (* packet_pool                                                *)
  contexts,  (* inline_context_pool                                        *)
  own,       (* InlineContext of each caller                               *)
  run,       (* the call of each caller                                    *)
  jobs       (* calls begun so far                                         *)

vars == <<debug, packets, contexts, own, run, jobs>>

INSTANCE JobPacket WITH Zero <- {}

Modes == {"async", "pooled", "own", "collect"}

NewContext == [packet |-> NewPacket, scratch |-> FALSE, cancel |-> FALSE]

(* InlineContext::reset.                                                   *)
ResetContext(x) == [packet |-> Cleared(x.packet), scratch |-> FALSE, cancel |-> FALSE]

(* What can go wrong in a call, as far as outcomes differ.                 *)
Errors == {"none", "encode", "refused", "cancelled", "kernel", "decode", "batch size", "panicked",
           "missing buffer", "wrong type", "duplicate slot", "no width", "not divisible"}

NoValues == <<>>
Failure(error) == [error |-> error, values |-> NoValues]

Idle == [phase |-> "idle"]
-----------------------------------------------------------------------------
(* ---- planner and backend, as the traits let them be              -----  *)

(* encode_batch and encode_one ensure slots and fill them, or not.         *)
Encoded(p, items, count, job) ==
  FoldLeft(LAMBDA q, b : LET e == Ensured(q, b.slot, b.kind, count * b.width)
                         IN  IF b.fills
                             THEN Written(e, b.slot, [i \in 1..(count * b.width) |-> {job}])
                             ELSE e,
           [p EXCEPT !.count = count], items)

(* A kernel reads all of its slots but the last one, which it writes; some *)
(* ensure that one first, some take groups.                                *)
KernelRun(p, kernel, job) ==
  LET out == Last(kernel.slots)
      ins == ToSet(Front(kernel.slots))
      q == IF kernel.access = "grow" THEN Ensured(p, out, kernel.kind, p.count * kernel.width) ELSE p
      error == IF kernel.access # "groups" THEN SlicesError(q, kernel.slots, kernel.kind)
               ELSE FirstError([i \in DOMAIN kernel.slots |->
                                  GroupsError(q, kernel.slots[i], kernel.kind, kernel.width)])
      Outside == \E s \in ins : Len(q.buffers[s].data) < Len(q.buffers[out].data)
      result == [i \in DOMAIN q.buffers[out].data |-> {job} \cup UNION {q.buffers[s].data[i] : s \in ins}]
  IN  IF error # "none" THEN [packet |-> q, error |-> error]
      ELSE IF Outside THEN [packet |-> q, error |-> "panicked"]
      ELSE [error |-> "none",
            packet |-> [Written(q, out, result) EXCEPT !.dirty = @ \/ kernel.access = "groups"]]

(* CpuComputeBackend::run_stage.                                           *)
KernelsRun(p, kernels, job) ==
  FoldLeft(LAMBDA r, kernel : IF r.error = "none" THEN KernelRun(r.packet, kernel, job) ELSE r,
           [packet |-> p, error |-> "none"], kernels)

(* decode_batch reads a slot; decode_one wants exactly one value.          *)
Decoded(p, plan, one) ==
  LET error == SliceError(p, plan.decode.slot, plan.decode.kind)
  IN  IF error # "none" THEN Failure(error)
      ELSE IF one /\ Len(p.buffers[plan.decode.slot].data) # 1 THEN Failure("batch size")
      ELSE [error |-> "none", values |-> p.buffers[plan.decode.slot].data]

(* validate_runtime_packet.                                                *)
Refused(plan, p) == debug /\ ~ValidPacket(plan, p)
-----------------------------------------------------------------------------
Init == /\ debug \in BOOLEAN
        /\ packets = <<>>
        /\ contexts = <<>>
        /\ own = [c \in Callers |-> NewContext]
        /\ run = [c \in Callers |-> Idle]
        /\ jobs = 0

(* A plan that validate refuses never becomes a version.                   *)
Versions == {v \in DOMAIN Plans : ValidPlan(Plans[v])}

Top(pool, new) == IF pool = <<>> THEN new ELSE Last(pool)
Rest(pool) == IF pool = <<>> THEN <<>> ELSE Front(pool)

Pooled(mode) == mode \in {"pooled", "collect"}

(* What a call begins with: a context, or a packet in the place of one.    *)
Taken(c, mode) == CASE mode = "async" -> [NewContext EXCEPT !.packet = Top(packets, NewPacket)]
                    [] Pooled(mode)   -> Top(contexts, NewContext)
                    [] mode = "own"   -> own[c]

(* Whether catch_unwind surrounds an inline call.                          *)
Caught(r) == /\ debug
             /\ r.mode # "async"
             /\ r.mode = "collect" => r.one

Ending(c, r, phase, outcome) ==
  run' = [run EXCEPT ![c] = [r EXCEPT !.phase = phase, !.outcome = outcome]]

Returning(c, r, outcome) == Ending(c, r, "returns", outcome)

(* What a panic unwinds through is lost, if it is not the caller's own.    *)
Panicked(c, r) == Ending(c, r, IF Caught(r) THEN "returns" ELSE "unwinds", Failure("panicked"))

(* A stage that fails: the packet is cleared at once.                      *)
StageFailed(c, r, error) ==
  Returning(c, [r EXCEPT !.context.packet = Cleared(@)], Failure(error))

(* Slip: the flag of the context is left as it was.                        *)
FlagKept(x) == x.cancel

(* context.cancel.reset, before the version is used.                       *)
FlagCleared(x) == FALSE

(* checkout_packet or the context of the call, the static buffers and the  *)
(* encoding of the planner, which may fail half way; then the validation.  *)
(* An inline context whose encoding failed keeps its scratch as it is.     *)
Start(c, v, mode, count, one) == \E fault \in {"none", "error", "panic"} :
  LET plan == Plans[v]
      from == Taken(c, mode)
      job == jobs + 1
      loaded == LoadedStatics(Cleared(from.packet), plan)
  IN  \E items \in IF fault = "none" THEN {plan.encode} ELSE Prefixes(plan.encode) :
        LET x == [packet |-> Encoded(loaded, items, count, job),
                  scratch |-> fault # "none", cancel |-> FlagCleared(from)]
            r == [phase |-> "runs", mode |-> mode, plan |-> v, count |-> count, one |-> one,
                  job |-> job, stage |-> 1, context |-> x, faulty |-> fault # "none",
                  outcome |-> Failure("none"), left |-> [s \in Slots(from.packet) |-> from.packet.buffers[s].kind]]
        IN  /\ run[c].phase = "idle" /\ jobs < MaxJobs
            /\ one => count = 1 /\ mode # "async"
            /\ jobs' = job
            /\ packets' = IF mode = "async" THEN Rest(packets) ELSE packets
            /\ contexts' = IF Pooled(mode) THEN Rest(contexts) ELSE contexts
            /\ CASE fault = "error" -> Returning(c, r, Failure("encode"))
                 [] fault = "panic" -> Panicked(c, r)
                 [] fault = "none"  -> IF Refused(plan, x.packet) THEN Returning(c, r, Failure("refused"))
                                       ELSE run' = [run EXCEPT ![c] = r]
            /\ UNCHANGED <<debug, own>>

Stages(r) == Plans[r.plan].stages

(* One stage: nothing of it when the call is cancelled, else its kernels   *)
(* and the validation of what they leave.                                  *)
Stage(c) ==
  LET r == run[c]
      result == KernelsRun(r.context.packet, Stages(r)[r.stage], r.job)
      after == [r EXCEPT !.context.packet = result.packet, !.stage = @ + 1]
  IN  /\ r.phase = "runs"
      /\ r.stage <= Len(Stages(r))
      /\ IF r.context.cancel THEN StageFailed(c, r, "cancelled")
         ELSE CASE result.error = "panicked" -> Panicked(c, after)
                [] result.error \notin {"none", "panicked"} -> StageFailed(c, after, result.error)
                [] result.error = "none" -> IF Refused(Plans[r.plan], result.packet)
                                            THEN StageFailed(c, after, "refused")
                                            ELSE run' = [run EXCEPT ![c] = after]
      /\ UNCHANGED <<debug, packets, contexts, own, jobs>>

(* A stage in which a kernel fails or panics after some others, or raises  *)
(* the flag, which the next one finds.                                     *)
FaultyStage(c) == \E fault \in {"error", "panic", "cancel"} :
  LET r == run[c]
  IN  /\ r.phase = "runs"
      /\ r.stage <= Len(Stages(r))
      /\ ~r.context.cancel
      /\ \E kernels \in Prefixes(Stages(r)[r.stage]) :
           LET result == KernelsRun(r.context.packet, kernels, r.job)
               after == [r EXCEPT !.context.packet = result.packet, !.faulty = TRUE,
                                  !.context.cancel = (fault = "cancel"), !.stage = @ + 1]
               all == kernels = Stages(r)[r.stage]
           IN  /\ result.error = "none"
               /\ CASE fault = "error" -> ~all /\ StageFailed(c, after, "kernel")
                    [] fault = "panic" -> ~all /\ Panicked(c, after)
                    [] fault = "cancel" -> IF ~all THEN kernels # <<>> /\ StageFailed(c, after, "cancelled")
                                           ELSE IF Refused(Plans[r.plan], result.packet)
                                           THEN StageFailed(c, after, "refused")
                                           ELSE run' = [run EXCEPT ![c] = after]
      /\ UNCHANGED <<debug, packets, contexts, own, jobs>>

(* The planner decodes; a job looks at its flag once more before.          *)
Decode(c) == \E fault \in {"none", "error", "panic"} :
  LET r == run[c]
      failed == [r EXCEPT !.faulty = TRUE]
  IN  /\ r.phase = "runs"
      /\ r.stage > Len(Stages(r))
      /\ CASE r.mode = "async" /\ r.context.cancel -> Returning(c, r, Failure("cancelled"))
           [] fault = "error" -> Returning(c, failed, Failure("decode"))
           [] fault = "panic" -> Panicked(c, failed)
           [] OTHER -> Returning(c, r, Decoded(r.context.packet, Plans[r.plan], r.one))
      /\ UNCHANGED <<debug, packets, contexts, own, jobs>>

(* recycle_packet, or cleanup_packet; context.reset and give_back; a       *)
(* caller's context stays as the call left it.                             *)
Return(c) ==
  LET r == run[c]
  IN  /\ r.phase \in {"returns", "unwinds"}
      /\ run' = [run EXCEPT ![c] = Idle]
      /\ packets' = IF r.phase = "returns" /\ r.mode = "async"
                    THEN Append(packets, Cleared(r.context.packet)) ELSE packets
      /\ contexts' = IF r.phase = "returns" /\ Pooled(r.mode) THEN Append(contexts, ResetContext(r.context)) ELSE contexts
      /\ own' = IF r.mode = "own" THEN [own EXCEPT ![c] = r.context] ELSE own
      /\ UNCHANGED <<debug, jobs>>

(* resolve_one_direct: the context is taken and returned untouched but for *)
(* its flag.                                                               *)
Direct(c, mode) ==
  /\ run[c].phase = "idle" /\ mode # "async"
  /\ contexts' = IF Pooled(mode) /\ contexts = <<>> THEN <<NewContext>> ELSE contexts
  /\ own' = IF mode = "own" THEN [own EXCEPT ![c].cancel = FALSE] ELSE own
  /\ UNCHANGED <<debug, packets, run, jobs>>

Next == \E c \in Callers :
          \/ \E v \in Versions, mode \in Modes, count \in {1, 2}, one \in BOOLEAN :
               Start(c, v, mode, count, one)
          \/ Stage(c) \/ FaultyStage(c) \/ Decode(c) \/ Return(c)
          \/ \E mode \in Modes : Direct(c, mode)

Spec == Init /\ [][Next]_vars
-----------------------------------------------------------------------------
Elements(p) == UNION {ToSet(p.buffers[s].data) : s \in Slots(p)}

Active(c) == run[c].phase # "idle"

EveryPacket == ToSet(packets) \cup {x.packet : x \in ToSet(contexts)} \cup {own[c].packet : c \in Callers}
                 \cup {run[c].context.packet : c \in {d \in Callers : Active(d)}}

TypeOK ==
  /\ debug \in BOOLEAN /\ jobs \in 0..MaxJobs
  /\ \A p \in EveryPacket :
       /\ p.count \in Nat /\ p.dirty \in BOOLEAN
       /\ \A s \in Slots(p) : /\ p.buffers[s].kind \in Kinds
                              /\ \A e \in ToSet(p.buffers[s].data) : e \subseteq 0..MaxJobs
  /\ \A c \in Callers : Active(c) =>
       /\ run[c].mode \in Modes /\ run[c].outcome.error \in Errors
       /\ run[c].stage \in 1..(Len(Stages(run[c])) + 1)
       /\ IsInjective([i \in DOMAIN Plans[run[c].plan].specs |-> Plans[run[c].plan].specs[i].slot])

(* A job never meets anything of another one in its packet, whichever way  *)
(* and however that one ended; a packet that is not marked dirty holds     *)
(* nothing, so that clear_for_reuse may skip it; what waits in a pool      *)
(* holds nothing at all (job.rs:101-110, stack.rs:599-611, 83-88).         *)
Isolated ==
  /\ \A c \in Callers : run[c].phase = "runs" =>
       \A e \in Elements(run[c].context.packet) : e \subseteq {Static, run[c].job}
  /\ \A p \in EveryPacket : ~p.dirty => Elements(p) = {}
  /\ \A p \in ToSet(packets) : Elements(p) = {}
  /\ \A x \in ToSet(contexts) : Elements(x.packet) = {} /\ ~x.scratch /\ ~x.cancel

(* What a call returns when nothing is wrong with planner and backend, on  *)
(* a packet nobody has used.                                               *)
Reference(v, count, one, job) ==
  LET plan == Plans[v]
      fresh == Encoded(LoadedStatics(NewPacket, plan), plan.encode, count, job)
      Checked(r) == IF r.error = "none" /\ Refused(plan, r.packet) THEN [r EXCEPT !.error = "refused"] ELSE r
      end == FoldLeft(LAMBDA r, kernels : IF r.error = "none" THEN Checked(KernelsRun(r.packet, kernels, job)) ELSE r,
                      Checked([packet |-> fresh, error |-> "none"]), plan.stages)
  IN  IF end.error = "none" THEN Decoded(end.packet, plan, one) ELSE Failure(end.error)

(* The slots that a packet has when the stages begin, whatever it had.     *)
Set(plan) == {plan.encode[i].slot : i \in DOMAIN plan.encode} \cup {plan.statics[i].slot : i \in DOMAIN plan.statics}

(* A slot of an earlier job that the plan declares, and the planner leaves *)
(* to its kernels, does not pass validation.                               *)
Leftover(r) ==
  LET plan == Plans[r.plan]
  IN  \E s \in DOMAIN r.left \cap (Declared(plan) \ Set(plan)) :
        \/ SpecOf(plan, s).kind # r.left[s]
        \/ ~LengthFits(SpecOf(plan, s), r.count, 0)

(* A call on a packet of any past returns what it would return on a new    *)
(* one, unless a new one lacks a buffer that is asked for or a debug build *)
(* refuses what an earlier job has left; neither happens to a planner that *)
(* sets every slot it declares or decodes (pipeline.rs:298-319,            *)
(* job.rs:101-110).                                                        *)
ReuseTransparent ==
  \A c \in Callers : run[c].phase \in {"returns", "unwinds"} /\ ~run[c].faulty =>
    LET r == run[c]
        plan == Plans[r.plan]
        fresh == Reference(r.plan, r.count, r.one, r.job)
    IN  /\ Declared(plan) \cup {plan.decode.slot} \subseteq Set(plan) => r.outcome = fresh
        /\ IF debug /\ Leftover(r) THEN r.outcome = Failure("refused")
           ELSE r.outcome = fresh \/ fresh.error = "missing buffer"
=============================================================================
