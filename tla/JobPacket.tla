------------------------------- MODULE JobPacket -------------------------------
(***************************************************************************)
(* The packet of a job (src/src/job.rs) and the layout that a compiled     *)
(* plan declares for it (src/src/pipeline.rs), as operators.  A packet is  *)
(* its query count, its buffers by slot and the flag that tells whether    *)
(* anything has been put into it; a buffer is an element kind and the      *)
(* elements, which are whatever the instance wants.                        *)
(*                                                                         *)
(* A plan declares buffers, has static buffers and stages of kernels:      *)
(*   specs    sequence of [slot, kind, layout, width]                      *)
(*   statics  sequence of [slot, kind, data]                               *)
(*   stages   sequence of sequences of kernels, each with its slots        *)
(***************************************************************************)
EXTENDS Naturals, Sequences, SequencesExt

CONSTANT Zero  (* T::default() *)

NewPacket == [count |-> 0, buffers |-> <<>>, dirty |-> FALSE]

Slots(p) == DOMAIN p.buffers

(* Slip: the buffers keep their elements.                                  *)
ForgetCount(p) == [p EXCEPT !.count = 0, !.dirty = FALSE]

(* Slots and element kinds outlive the elements.                           *)
Cleared(p) ==
  IF ~p.dirty THEN [p EXCEPT !.count = 0]
  ELSE [count |-> 0, dirty |-> FALSE,
        buffers |-> [s \in Slots(p) |-> [p.buffers[s] EXCEPT !.data = <<>>]]]

(* A slot of another kind is emptied and changes its kind.                 *)
EnsuredSlot(p, slot, kind) ==
  IF slot \in Slots(p) /\ p.buffers[slot].kind = kind THEN p.buffers[slot]
  ELSE [kind |-> kind, data |-> <<>>]

WithBuffer(p, slot, buffer) ==
  [p EXCEPT !.dirty = TRUE,
            !.buffers = [s \in Slots(p) \cup {slot} |-> IF s = slot THEN buffer ELSE p.buffers[s]]]

(* What the buffer held is kept as far as it fits.                         *)
Ensured(p, slot, kind, len) ==
  LET old == EnsuredSlot(p, slot, kind)
  IN  WithBuffer(p, slot, [old EXCEPT !.data =
        [i \in 1..len |-> IF i <= Len(old.data) THEN old.data[i] ELSE Zero]])

(* Elements change in place, through a slice.                              *)
Written(p, slot, data) == [p EXCEPT !.buffers[slot].data = data]

LoadedStatics(p, plan) ==
  FoldLeft(LAMBDA q, b : Written(Ensured(q, b.slot, b.kind, Len(b.data)), b.slot, b.data),
           p, plan.statics)

SliceError(p, slot, kind) ==
  IF slot \notin Slots(p) THEN "missing buffer"
  ELSE IF p.buffers[slot].kind # kind THEN "wrong type" ELSE "none"

(* slice_many: groups of a fixed width.                                    *)
GroupsError(p, slot, kind, width) ==
  IF width = 0 THEN "no width"
  ELSE IF SliceError(p, slot, kind) # "none" THEN SliceError(p, slot, kind)
  ELSE IF Len(p.buffers[slot].data) % width # 0 THEN "not divisible" ELSE "none"

(* The first request of several that cannot be met.                        *)
FirstError(errors) ==
  LET bad == {i \in DOMAIN errors : errors[i] # "none"}
  IN  IF bad = {} THEN "none" ELSE errors[Min(bad)]

(* with_slices.                                                            *)
SlicesError(p, slots, kind) ==
  FirstError([i \in DOMAIN slots |->
                IF slots[i] \notin Slots(p) THEN "missing buffer"
                ELSE IF \E k \in 1..(i - 1) : slots[k] = slots[i] THEN "duplicate slot"
                ELSE SliceError(p, slots[i], kind)])
-----------------------------------------------------------------------------
(* Some layout, or any length.                                             *)
LengthFits(spec, count, len) ==
  CASE spec.layout = "scalar"  -> len = count
    [] spec.layout = "vector"  -> len = count * spec.width
    [] spec.layout = "dynamic" -> TRUE

Declared(plan) == {plan.specs[i].slot : i \in DOMAIN plan.specs}

SpecOf(plan, slot) == plan.specs[Min({i \in DOMAIN plan.specs : plan.specs[i].slot = slot})]

(* Slip: a buffer may be declared twice.                                   *)
KnownSlots(plan) ==
  \A s \in DOMAIN plan.stages : \A k \in DOMAIN plan.stages[s] :
    ToSet(plan.stages[s][k].slots) \subseteq Declared(plan)

(* CompiledPlan::validate.                                                 *)
ValidPlan(plan) ==
  /\ IsInjective([i \in DOMAIN plan.specs |-> plan.specs[i].slot])
  /\ IsInjective([i \in DOMAIN plan.statics |-> plan.statics[i].slot])
  /\ \A i \in DOMAIN plan.statics : /\ plan.statics[i].slot \in Declared(plan)
                                    /\ SpecOf(plan, plan.statics[i].slot).kind = plan.statics[i].kind
  /\ \A s \in DOMAIN plan.stages : \A k \in DOMAIN plan.stages[s] :
       ToSet(plan.stages[s][k].slots) \subseteq Declared(plan)

(* CompiledPlan::validate_packet: an empty buffer need not be declared.    *)
ValidPacket(plan, p) ==
  \A s \in Slots(p) :
    IF s \notin Declared(plan) THEN p.buffers[s].data = <<>>
    ELSE /\ SpecOf(plan, s).kind = p.buffers[s].kind
         /\ LengthFits(SpecOf(plan, s), p.count, Len(p.buffers[s].data))
=============================================================================
