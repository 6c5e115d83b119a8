------------------------------- MODULE NoisePlan -------------------------------
(***************************************************************************)
(* How the FastNoise planner turns a graph into a plan, and what the       *)
(* kernels of that plan do with a packet (fastnoise/src/runtime.rs).       *)
(*                                                                         *)
(* A graph is its dimension, its final field and the sequence of its       *)
(* nodes; a node, by its place in that sequence, is its NodeHandle:        *)
(*   [id, kind, source, noise]       warp2, warp3, sample2, sample3        *)
(*   [id, kind, op, inputs, params]  combine                               *)
(* What a floating-point function returns is the term of its application.  *)
(***************************************************************************)
EXTENDS JobPacket, SeqFolds

CONSTANTS
  SlotSpace,   (* 2^16: a buffer slot is a u16                             *)
  Word,        (* 2^32: sides and offsets of queries become u32            *)
  Wide         (* 2^64 (2^32 on 32 bits): sides and their products, usizes *)

Base == "Base"  (* PositionSource::Base *)

QueryMeta == 0
QueryF32 == 1
QueryOffsets == 2
BaseSlots == <<10, 11, 12>>
DynamicStart == 32

ASSUME SlotSpaceAssumption == SlotSpace \in Nat /\ SlotSpace > DynamicStart
ASSUME WordAssumption == Word \in Nat \ {0}
ASSUME WideAssumption == Wide \in Nat \ {0} /\ Wide % Word = 0

Coords(n) == SubSeq(BaseSlots, 1, n)

Warps == {"warp2", "warp3"}
Samples == {"sample2", "sample3"}

(* The N of WarpPayload<N> and SamplePayload<N>.                           *)
Arity(kind) == IF kind \in {"warp2", "sample2"} THEN 2 ELSE 3

(* output_kind, as the slots that it takes.                                *)
OutputWidth(node) == IF node.kind \in Warps THEN Arity(node.kind) ELSE 1

Panic == "panicked"
-----------------------------------------------------------------------------
(* ---- payloads: a byte string is the sequence of the values in it ----- *)

Variants ==
  [noise_type                 |-> <<"OpenSimplex2", "OpenSimplex2S", "Cellular", "Perlin", "ValueCubic", "Value">>,
   rotation_type_3d           |-> <<"None", "ImproveXYPlanes", "ImproveXZPlanes">>,
   fractal_type               |-> <<"None", "FBm", "Ridged", "PingPong", "DomainWarpProgressive", "DomainWarpIndependent">>,
   cellular_distance_function |-> <<"Euclidean", "EuclideanSq", "Manhattan", "Hybrid">>,
   cellular_return_type       |-> <<"CellValue", "Distance", "Distance2", "Distance2Add", "Distance2Sub", "Distance2Mul",
                                    "Distance2Div">>,
   domain_warp_type           |-> <<"OpenSimplex2", "OpenSimplex2Reduced", "BasicGrid">>,
   op                         |-> <<"Add", "Sub", "Mul", "Min", "Max", "Clamp", "Remap", "YGradient">>]

(* enum_codec: the tag of a variant, and the variant of a tag.             *)
Tag(field, variant) == (CHOOSE i \in DOMAIN Variants[field] : Variants[field][i] = variant) - 1
Variant(field, tag) == Variants[field][tag + 1]

(* Fields in the order in which PayloadWriter::noise writes them.          *)
NoiseWritten == <<"seed", "frequency", "noise_type", "rotation_type_3d", "fractal_type", "octaves", "lacunarity",
  "gain", "weighted_strength", "ping_pong_strength", "cellular_distance_function", "cellular_return_type",
  "cellular_jitter_modifier", "domain_warp_type", "domain_warp_amp">>

(* Fields that PayloadReader::noise sets to the values that it reads.      *)
NoiseRead == <<"seed", "frequency", "noise_type", "rotation_type_3d", "fractal_type", "octaves", "lacunarity",
  "gain", "weighted_strength", "ping_pong_strength", "cellular_distance_function", "cellular_return_type",
  "cellular_jitter_modifier", "domain_warp_type", "domain_warp_amp">>

(* FastNoiseLite: a value for each field, a variant where there are        *)
(* variants.                                                               *)
NoiseOK(noise) ==
  /\ noise = [field \in ToSet(NoiseWritten) |-> noise[field]]
  /\ \A field \in ToSet(NoiseWritten) \cap DOMAIN Variants : noise[field] \in ToSet(Variants[field])

WrittenNoise(noise) ==
  [i \in DOMAIN NoiseWritten |->
     LET field == NoiseWritten[i]
     IN  IF field \in DOMAIN Variants THEN Tag(field, noise[field]) ELSE noise[field]]

ReadNoise(bytes) ==
  [field \in ToSet(NoiseRead) |->
     LET value == bytes[CHOOSE i \in DOMAIN NoiseRead : NoiseRead[i] = field]
     IN  IF field \in DOMAIN Variants THEN Variant(field, value) ELSE value]

(* encode_into.                                                            *)
Payload(k) ==
  IF k.kind = "combine"
  THEN <<Tag("op", k.op), Len(k.source)>> \o k.source \o k.output \o <<Len(k.params)>> \o k.params
  ELSE k.source \o k.output \o WrittenNoise(k.noise)

(* decode_from: the fields of a kernel.                                    *)
Decoded(kind, bytes) ==
  LET n == IF kind = "combine" THEN bytes[2] ELSE Arity(kind)
      outputs == IF kind \in Warps THEN n ELSE 1
      From(i, count) == SubSeq(bytes, i, i + count - 1)
  IN  IF kind = "combine"
      THEN [kind |-> kind, op |-> Variant("op", bytes[1]), source |-> From(3, n), output |-> From(n + 3, 1),
            params |-> From(n + 5, bytes[n + 4])]
      ELSE [kind |-> kind, source |-> From(1, n), output |-> From(n + 1, outputs),
            noise |-> ReadNoise(From(n + outputs + 1, Len(NoiseRead)))]
-----------------------------------------------------------------------------
(* ---- compile_graph --------------------------------------------------- *)

Handles(g) == DOMAIN g.nodes

(* handles_by_id: a later node of the same id wins.                        *)
Resolves(g, id) == \E h \in Handles(g) : g.nodes[h].id = id
Resolve(g, id) == CHOOSE h \in Handles(g) : /\ g.nodes[h].id = id
                                            /\ \A k \in Handles(g) : g.nodes[k].id = id => k <= h

(* The nodes that a node refers to, each as often as it does.              *)
References(node) == IF node.kind = "combine" THEN node.inputs
                    ELSE IF node.source = Base THEN <<>> ELSE <<node.source>>

(* collect_dependencies panics for a missing node, as for the final field. *)
Missing(g) == \/ \E h \in Handles(g) : \E id \in ToSet(References(g.nodes[h])) : ~Resolves(g, id)
              \/ ~Resolves(g, g.final)

Dependencies(g, h) == [i \in DOMAIN References(g.nodes[h]) |-> Resolve(g, References(g.nodes[h])[i])]

(* Each reference, as the node that refers and its place there.            *)
Edges(g) == Concat([h \in Handles(g) |-> [i \in DOMAIN Dependencies(g, h) |-> <<h, i>>]])

(* Slip: a node counts once, however often it refers.                      *)
AdjacencyOnce(g, h) ==
  Kept(Edges(g), {edge \in ToSet(Edges(g)) : h \in ToSet(Dependencies(g, edge[1])) /\ edge[2] = 1})

(* The references to a node.                                               *)
Adjacency(g, h) == Kept(Edges(g), {edge \in ToSet(Edges(g)) : Dependencies(g, edge[1])[edge[2]] = h})

(* One turn of the loop: a node leaves the queue, its children that wait   *)
(* for nothing else enter it.                                              *)
SortStep(g, s) ==
  IF s.queue = <<>> THEN s
  ELSE FoldLeft(LAMBDA t, edge :
                  LET child == edge[1]
                      left == IF t.indegree[child] = 0 THEN 0 ELSE t.indegree[child] - 1
                  IN  [t EXCEPT !.indegree[child] = left,
                                !.queue = IF left = 0 THEN Append(@, child) ELSE @],
                [s EXCEPT !.queue = Tail(@), !.sorted = Append(@, Head(s.queue))],
                Adjacency(g, Head(s.queue)))

(* Slip: the nodes as they come.                                           *)
Unsorted(g) == [h \in Handles(g) |-> h]

(* Every node once, after the nodes it refers to; cycles and what refers   *)
(* to them are left out.  There are no more turns than nodes.              *)
Sorted(g) ==
  LET handles == [h \in Handles(g) |-> h]
      indegree == [h \in Handles(g) |-> Len(References(g.nodes[h]))]
      start == [indegree |-> indegree, sorted |-> <<>>,
                queue |-> Kept(handles, {h \in Handles(g) : indegree[h] = 0})]
  IN  FoldLeft(LAMBDA s, h : SortStep(g, s), start, handles).sorted

(* allocate_slot, allocate_position_slots: u16s, one after the other.      *)
Allocated(g, order) ==
  FoldLeft(LAMBDA a, h :
             LET width == OutputWidth(g.nodes[h])
             IN  [next |-> (a.next + width) % SlotSpace,
                  overflow |-> a.overflow \/ a.next + width >= SlotSpace,
                  slots |-> [a.slots EXCEPT ![h] = [i \in 1..width |-> (a.next + i - 1) % SlotSpace]]],
           [next |-> DynamicStart, overflow |-> FALSE, slots |-> [h \in Handles(g) |-> <<>>]], order)

(* expect_position_slots and expect_scalar_slot: <<>> where they panic.    *)
PositionSlots(g, slots, h, n) == IF g.nodes[h].kind \in Warps /\ Arity(g.nodes[h].kind) = n THEN slots[h] ELSE <<>>
ScalarSlot(g, slots, h) == IF g.nodes[h].kind \in Warps THEN <<>> ELSE slots[h]

(* What the kernel of a node reads; a part is <<>> where it panics.        *)
SourceSlots(g, slots, h) ==
  LET node == g.nodes[h]
  IN  CASE node.kind = "combine" -> [i \in DOMAIN node.inputs |-> ScalarSlot(g, slots, Resolve(g, node.inputs[i]))]
        [] node.kind # "combine" /\ node.source = Base -> <<Coords(Arity(node.kind))>>
        [] OTHER -> <<PositionSlots(g, slots, Resolve(g, node.source), Arity(node.kind))>>

KernelOf(g, slots, h) ==
  LET node == g.nodes[h]
      source == Concat(SourceSlots(g, slots, h))
  IN  [kind |-> node.kind, slots |-> <<>>,
       payload |-> Payload(
         IF node.kind = "combine"
         THEN [kind |-> node.kind, source |-> source, output |-> slots[h], op |-> node.op, params |-> node.params]
         ELSE [kind |-> node.kind, source |-> source, output |-> slots[h], noise |-> node.noise])]

F32Buffer(slot) == [slot |-> slot, kind |-> "f32", layout |-> "dynamic", width |-> 0]
U32Buffer(slot) == [F32Buffer(slot) EXCEPT !.kind = "u32"]

(* The plan, or the panic; validate comes after compile.                   *)
Compiled(g, debug) ==
  LET order == Sorted(g)
      allocated == Allocated(g, order)
      slots == allocated.slots
      final == ScalarSlot(g, slots, Resolve(g, g.final))
      grid == [kind |-> IF g.dimension = 2 THEN "grid2" ELSE "grid3", slots |-> <<QueryMeta, QueryF32, QueryOffsets>>, payload |-> <<>>]
      plan == [error |-> "none", dimension |-> g.dimension, final |-> final[1], statics |-> <<>>,
               specs |-> <<U32Buffer(QueryMeta), F32Buffer(QueryF32), U32Buffer(QueryOffsets)>>
                           \o [i \in 1..g.dimension |-> F32Buffer(BaseSlots[i])]
                           \o Concat([i \in DOMAIN order |->
                                [k \in DOMAIN slots[order[i]] |-> F32Buffer(slots[order[i]][k])]]),
               stages |-> <<<<grid>>>> \o [i \in DOMAIN order |-> <<KernelOf(g, slots, order[i])>>]]
  IN  IF \/ Missing(g)
         \/ debug /\ allocated.overflow
         \/ \E h \in ToSet(order) : <<>> \in ToSet(SourceSlots(g, slots, h))
         \/ final = <<>>
      THEN [error |-> Panic]
      ELSE IF ValidPlan(plan) THEN plan ELSE [error |-> "refused"]
-----------------------------------------------------------------------------
(* ---- encode, decode: queries are [dimension, sides, origin, step] ---- *)

Product(sides) == FoldLeft(LAMBDA n, side : n * side, 1, sides)

(* Running totals, from 0.                                                 *)
Totals(sizes) == [i \in 1..(Len(sizes) + 1) |-> FoldLeft(LAMBDA n, size : n + size, 0, SubSeq(sizes, 1, i - 1))]

Padded(s, filler) == IF Len(s) = 2 THEN Append(s, filler) ELSE s

Filled(p, slot, kind, data) == Written(Ensured(p, slot, kind, Len(data)), slot, data)

(* What is too large for the usizes of sample_count_2d, sample_count_3d    *)
(* and the cursor: a debug build panics, a release build wraps.            *)
Overflows(queries) ==
  LET totals == Totals([i \in DOMAIN queries |-> Product(queries[i].sides)])
  IN  \/ \E i \in DOMAIN queries : \E n \in 2..Len(queries[i].sides) : Product(SubSeq(queries[i].sides, 1, n)) >= Wide
      \/ \E i \in DOMAIN totals : totals[i] >= Wide

(* encode_batch, encode_one: a query of the other dimension, or too large. *)
EncodePanics(plan, queries, debug) ==
  \/ \E i \in DOMAIN queries : queries[i].dimension # plan.dimension
  \/ debug /\ Overflows(queries)

(* encode_batch, and encode_one for one query: as casts to u32 leave it.   *)
Encoded(p, queries) ==
  LET meta == Concat([i \in DOMAIN queries |->
                [k \in 1..3 |-> Padded(queries[i].sides, 1)[k] % Word]])
      floats == Concat([i \in DOMAIN queries |-> Padded(queries[i].origin, "0") \o Padded(queries[i].step, "1")])
      totals == Totals([i \in DOMAIN queries |-> Product(queries[i].sides)])
      offsets == [i \in DOMAIN totals |-> (totals[i] % Wide) % Word]
  IN  Filled(Filled(Filled([p EXCEPT !.count = Len(queries)], QueryMeta, "u32", meta),
                    QueryF32, "f32", floats), QueryOffsets, "u32", offsets)

(* decode_batch panics where decode_one returns an error.                  *)
Resolution(p, slot, one) ==
  LET offsets == p.buffers[QueryOffsets].data
      values == p.buffers[slot].data
      bad == \E i \in DOMAIN Tail(offsets) : offsets[i] > offsets[i + 1] \/ offsets[i + 1] > Len(values)
  IN  IF SliceError(p, slot, "f32") # "none" THEN [error |-> SliceError(p, slot, "f32"), values |-> <<>>]
      ELSE IF bad THEN [error |-> IF one THEN "invalid offsets" ELSE Panic, values |-> <<>>]
      ELSE [error |-> "none", values |-> [i \in DOMAIN Tail(offsets) |-> SubSeq(values, offsets[i] + 1, offsets[i + 1])]]
-----------------------------------------------------------------------------
(* ---- kernels --------------------------------------------------------- *)

Total(p) == Last(p.buffers[QueryOffsets].data)

(* Slots, which differ, one after the other.                               *)
EnsuredAll(p, slots) ==
  [p EXCEPT !.dirty = TRUE,
            !.buffers = [s \in Slots(p) \cup ToSet(slots) |->
                           IF s \in ToSet(slots) THEN Ensured(p, s, "f32", Total(p)).buffers[s] ELSE p.buffers[s]]]

WrittenAll(p, slots, data) ==
  [p EXCEPT !.buffers = [s \in Slots(p) |->
     IF s \in ToSet(slots) THEN [p.buffers[s] EXCEPT !.data = data[CHOOSE a \in DOMAIN slots : slots[a] = s]]
     ELSE p.buffers[s]]]

(* GridInitKernel of n dimensions: query by query, the cells of each from  *)
(* its offset on, x first.                                                 *)
GridRun(p, n) ==
  LET meta == p.buffers[QueryMeta].data
      floats == p.buffers[QueryF32].data
      offsets == p.buffers[QueryOffsets].data
      q == EnsuredAll(p, Coords(n))
      Side(j, a) == meta[3 * (j - 1) + a]
      Size(j) == Product([a \in 1..n |-> Side(j, a)])
      Place(j, cell, a) == CASE a = 1 -> cell % Side(j, 1)
                             [] a = 2 -> (cell \div Side(j, 1)) % Side(j, 2)
                             [] a = 3 -> cell \div (Side(j, 1) * Side(j, 2))
      Writers(i) == {j \in 1..p.count : offsets[j] < i /\ i <= offsets[j] + Size(j)}
      Coordinate(i, a) ==
        LET j == Max(Writers(i))
        IN  <<"at", floats[6 * (j - 1) + a], floats[6 * (j - 1) + 3 + a], Place(j, i - 1 - offsets[j], a)>>
  IN  IF \E j \in 1..p.count : Size(j) > 0 /\ offsets[j] + Size(j) > Total(p)
      THEN [packet |-> q, error |-> Panic]
      ELSE [error |-> "none",
            packet |-> WrittenAll(q, Coords(n), [a \in 1..n |->
                         [i \in 1..Total(p) |-> IF Writers(i) = {} THEN q.buffers[BaseSlots[a]].data[i]
                                                ELSE Coordinate(i, a)]])]

(* Inputs and params that the operation of CombineKernel indexes.          *)
InputsOf(op) == IF op \in {"Clamp", "Remap", "YGradient"} THEN 1 ELSE 2
ParamsOf(op) == CASE op = "Clamp" -> 2 [] op \in {"Remap", "YGradient"} -> 4 [] OTHER -> 0

Short(k) == k.kind = "combine" /\ (Len(k.source) < InputsOf(k.op) \/ Len(k.params) < ParamsOf(k.op))

(* The slots that a kernel reads.                                          *)
ReadSlots(k) == IF k.kind # "combine" THEN k.source
                ELSE SubSeq(k.source, 1, InputsOf(k.op)) \o (IF k.op = "YGradient" THEN <<BaseSlots[2]>> ELSE <<>>)

(* f32::clamp asserts that its bounds are in order.                        *)
Disordered(k) == k.kind = "combine" /\ k.op = "Clamp" /\ k.params[1] > k.params[2]

(* What a kernel writes into its a-th output for the values it has read.   *)
Result(k, a, values) ==
  CASE k.kind \in Warps -> <<"warp", k.noise, values, a>>
    [] k.kind \in Samples -> <<"noise", k.noise, values>>
    [] k.kind = "combine" -> <<k.op, SubSeq(k.params, 1, ParamsOf(k.op)), values>>

(* WarpKernel, SampleKernel, CombineKernel.                                *)
KernelRun(p, k) ==
  LET q == EnsuredAll(p, k.output)
      reads == ReadSlots(k)
      error == SlicesError(q, reads \o k.output, "f32")
      size == Total(p)
      Row(i) == [r \in DOMAIN reads |-> q.buffers[reads[r]].data[i]]
  IN  IF Short(k) THEN [packet |-> q, error |-> Panic]
      ELSE IF error # "none" THEN [packet |-> q, error |-> error]
      ELSE IF size > 0 /\ (Disordered(k) \/ \E r \in DOMAIN reads : Len(q.buffers[reads[r]].data) < size)
      THEN [packet |-> q, error |-> Panic]
      ELSE [error |-> "none",
            packet |-> WrittenAll(q, k.output, [a \in DOMAIN k.output |-> [i \in 1..size |-> Result(k, a, Row(i))]])]

(* FastNoiseKernelFactory::prepare, and the kernel's run.                  *)
StageRun(p, spec) ==
  CASE spec.kind = "grid2" -> GridRun(p, 2)
    [] spec.kind = "grid3" -> GridRun(p, 3)
    [] OTHER -> KernelRun(p, Decoded(spec.kind, spec.payload))

(* A batch on a plan, from a cleared packet: encoding, stages with their   *)
(* validation in debug builds, decoding.                                   *)
Job(plan, queries, p, one, debug) ==
  LET Checked(r) == IF r.error = "none" /\ debug /\ ~ValidPacket(plan, r.packet)
                    THEN [r EXCEPT !.error = "refused"] ELSE r
      end == FoldLeft(LAMBDA r, stage : IF r.error = "none" THEN Checked(StageRun(r.packet, stage[1])) ELSE r,
                      Checked([packet |-> Encoded(p, queries), error |-> "none"]), plan.stages)
  IN  IF EncodePanics(plan, queries, debug) THEN [error |-> Panic, values |-> <<>>]
      ELSE IF end.error # "none" THEN [error |-> end.error, values |-> <<>>]
      ELSE Resolution(end.packet, plan.final, one)
=============================================================================
