------------------------------ MODULE NoiseGraph ------------------------------
(***************************************************************************)
(* The state of the FastNoise planner (fastnoise/src/runtime.rs): a table  *)
(* of nodes and the key of every id, edited by changes, reset to other     *)
(* specs, compiled, and the versions resolved.  A call with several        *)
(* changes, or with a spec of several nodes, takes a step for each: it     *)
(* holds stack.state, and none of them fails.                              *)
(***************************************************************************)
EXTENDS SlotTable, NoisePlan, FiniteSets

CONSTANTS
  Ids,       (* node ids                                                   *)
  Nodes,     (* the nodes that callers may put in                          *)
  Specs,     (* FastNoiseGraphSpecs: [dimension, final, nodes]             *)
  Batches,   (* sequences of queries                                       *)
  MaxEdits   (* bound on the calls that edit                               *)

ASSUME NodesAssumption ==
  /\ Hole \notin Nodes
  /\ \A node \in Nodes :
       /\ node.id \in Ids
       /\ \/ /\ node.kind = "combine" /\ node.inputs \in Seq(Ids)
             /\ node.op \in ToSet(Variants["op"]) /\ node.params \in Seq(Int)
          \/ /\ node.kind \in Warps \cup Samples /\ node.source \in Ids \cup {Base}
             /\ NoiseOK(node.noise)
ASSUME SpecsAssumption == \A spec \in Specs : /\ spec.dimension \in {2, 3} /\ spec.final \in Ids
                                             /\ spec.nodes \in Seq(Nodes)
ASSUME BatchesAssumption ==
  \A queries \in Batches :
    /\ queries \in Seq(ToSet(queries))
    /\ \A q \in ToSet(queries) : /\ q.dimension \in {2, 3}
                                 /\ q.sides \in [1..q.dimension -> Nat]
                                 /\ q.origin = [a \in 1..q.dimension |-> q.origin[a]]
                                 /\ q.step = [a \in 1..q.dimension |-> q.step[a]]
ASSUME MaxEditsAssumption == MaxEdits \in Nat

VARIABLES
  debug,        (* cfg(debug_assertions)                                   *)
  dimension,
  final_field,
  nodes,        (* SlotTable<NodeSpec>                                     *)
  node_keys,    (* HashMap<String, SlotKey>                                *)
  pending,      (* the changes that the present call has still to make     *)
  plan,         (* the version compiled last, while no edit has begun      *)
  outcome,      (* of the job resolved last on it                          *)
  edits

graphVars == <<dimension, final_field, nodes, node_keys>>
vars == <<debug, graphVars, pending, plan, outcome, edits>>

None == [error |-> "nothing yet"]

Upsert(node) == [kind |-> "UpsertNode", node |-> node]
RemoveId(id) == [kind |-> "RemoveNode", id |-> id]
SetFinal(id) == [kind |-> "SetFinalField", id |-> id]

Upserts(spec) == [i \in DOMAIN spec.nodes |-> Upsert(spec.nodes[i])]

(* from_spec; reset_from_spec has nothing to clear yet.                    *)
Init ==
  \E spec \in Specs :
    /\ debug \in BOOLEAN
    /\ dimension = spec.dimension
    /\ final_field = spec.final
    /\ nodes = EmptyTable
    /\ node_keys = [id \in {} |-> None]
    /\ pending = Upserts(spec)
    /\ plan = None
    /\ outcome = None
    /\ edits = 0

Editing == pending = <<>> /\ edits < MaxEdits /\ edits' = edits + 1

(* The versions that came before are StackVersions' matter.                *)
Begin(changes) == pending' = changes /\ plan' = None /\ outcome' = None

(* apply, or updated_state, with one change.                               *)
Apply ==
  /\ Editing
  /\ \/ \E node \in Nodes : Begin(<<Upsert(node)>>)
     \/ \E id \in Ids : Begin(<<RemoveId(id)>>) \/ Begin(<<SetFinal(id)>>)
  /\ UNCHANGED <<debug, graphVars>>

(* reset_state: the table keeps its slots.                                 *)
Reset ==
  /\ Editing
  /\ \E spec \in Specs : /\ dimension' = spec.dimension
                         /\ final_field' = spec.final
                         /\ Begin(Upserts(spec))
  /\ nodes' = ClearReuse(nodes)
  /\ node_keys' = [id \in {} |-> None]
  /\ UNCHANGED debug

Changing(kind) == pending # <<>> /\ Head(pending).kind = kind /\ pending' = Tail(pending)

Known(id) == id \in DOMAIN node_keys

WithKey(id, key) == [x \in DOMAIN node_keys \cup {id} |-> IF x = id THEN key ELSE node_keys[x]]

(* upsert_node: in place where the id has a live key.                      *)
UpsertNode ==
  /\ Changing("UpsertNode")
  /\ LET node == Head(pending).node
     IN  IF Known(node.id) /\ Get(nodes, node_keys[node.id]) # Hole
         THEN /\ nodes' = Overwrite(nodes, node_keys[node.id], node)
              /\ UNCHANGED node_keys
         ELSE /\ nodes' = Insert(nodes, node)
              /\ node_keys' = WithKey(node.id, InsertedKey(nodes))
  /\ UNCHANGED <<debug, dimension, final_field, plan, outcome, edits>>

(* Slip: the id keeps its key.                                             *)
RemoveValue ==
  /\ Changing("RemoveNode")
  /\ LET id == Head(pending).id
     IN  nodes' = IF Known(id) THEN RemoveKey(nodes, node_keys[id]) ELSE nodes
  /\ UNCHANGED <<debug, dimension, final_field, node_keys, plan, outcome, edits>>

RemoveNode ==
  /\ Changing("RemoveNode")
  /\ LET id == Head(pending).id
     IN  /\ nodes' = IF Known(id) THEN RemoveKey(nodes, node_keys[id]) ELSE nodes
         /\ node_keys' = [x \in DOMAIN node_keys \ {id} |-> node_keys[x]]
  /\ UNCHANGED <<debug, dimension, final_field, plan, outcome, edits>>

SetFinalField ==
  /\ Changing("SetFinalField")
  /\ final_field' = Head(pending).id
  /\ UNCHANGED <<debug, dimension, nodes, node_keys, plan, outcome, edits>>

(* CompileNodes::build.                                                    *)
Graph == [dimension |-> dimension, final |-> final_field, nodes |-> Values(nodes)]

Compile ==
  /\ pending = <<>> /\ plan = None
  /\ plan' = Compiled(Graph, debug)
  /\ UNCHANGED <<debug, graphVars, pending, outcome, edits>>

(* What a job on a D3 version leaves in a packet.                          *)
Leftover == [count |-> 0, dirty |-> FALSE,
             buffers |-> [slot \in {QueryMeta, QueryF32, QueryOffsets} \cup ToSet(BaseSlots) |->
                            [kind |-> IF slot \in {QueryMeta, QueryOffsets} THEN "u32" ELSE "f32", data |-> <<>>]]]

(* A job, or an inline call with a batch or with one query.                *)
ResolveBatch ==
  /\ plan.error = "none" /\ outcome = None
  /\ \E queries \in Batches, recycled \in BOOLEAN, one \in BOOLEAN :
       /\ one => Len(queries) = 1
       /\ outcome' = [queries |-> queries, recycled |-> recycled,
                      result |-> Job(plan, queries, IF recycled THEN Leftover ELSE NewPacket, one, debug)]
  /\ UNCHANGED <<debug, graphVars, pending, plan, edits>>

Next == \/ Apply \/ Reset \/ UpsertNode \/ RemoveNode \/ SetFinalField
        \/ Compile \/ ResolveBatch

Spec == Init /\ [][Next]_vars
-----------------------------------------------------------------------------
TypeOK ==
  /\ debug \in BOOLEAN
  /\ dimension \in {2, 3}
  /\ final_field \in Ids
  /\ TableOK(nodes)
  /\ \A i \in DOMAIN nodes.slots : nodes.slots[i].value \in Nodes \cup {Hole}
  /\ DOMAIN node_keys \subseteq Ids
  /\ edits \in 0..MaxEdits

(* Every id has the key of a live node of that id, and every live node is  *)
(* found under its id, whatever was removed, replaced or reset before: so  *)
(* no id is compiled twice, and no key finds another node in a slot that   *)
(* was reused (slot_table.rs:38-115, runtime.rs:374-401).                  *)
KeysMatchNodes ==
  /\ \A id \in DOMAIN node_keys : /\ Get(nodes, node_keys[id]) # Hole
                                  /\ Get(nodes, node_keys[id]).id = id
  /\ \A i \in DOMAIN nodes.slots : nodes.slots[i].value # Hole =>
       /\ nodes.slots[i].value.id \in DOMAIN node_keys
       /\ node_keys[nodes.slots[i].value.id] = KeyOf(nodes, i)
-----------------------------------------------------------------------------
(* ---- what a graph means ---------------------------------------------- *)

KnownIds(g) == {g.nodes[h].id : h \in Handles(g)}
NodeOf(g, id) == CHOOSE node \in ToSet(g.nodes) : node.id = id

(* The nodes that depend on no cycle.                                      *)
Grounded(g) ==
  FoldLeft(LAMBDA within, n : {node \in ToSet(g.nodes) : \A id \in ToSet(References(node)) : NodeOf(g, id) \in within},
           {}, g.nodes)

(* A node whose inputs are of the kind that it takes.                      *)
WellKinded(g, node) ==
  \A id \in ToSet(References(node)) :
    LET input == NodeOf(g, id)
    IN  IF node.kind = "combine" THEN input.kind \notin Warps
        ELSE input.kind \in Warps /\ Arity(input.kind) = Arity(node.kind)

SlotsNeeded(g) == Cardinality({output \in Grounded(g) \X (1..3) : output[2] <= OutputWidth(output[1])})

ExpectedCompile(g) ==
  LET room == SlotSpace - DynamicStart
      refers == (UNION {ToSet(References(node)) : node \in ToSet(g.nodes)}) \cup {g.final}
  IN  IF ~(refers \subseteq KnownIds(g)) THEN Panic
      ELSE IF \/ \E node \in Grounded(g) : ~WellKinded(g, node)
              \/ NodeOf(g, g.final) \notin Grounded(g)
              \/ NodeOf(g, g.final).kind \in Warps
              \/ debug /\ SlotsNeeded(g) >= room
           THEN Panic
      ELSE IF SlotsNeeded(g) > room THEN "refused" ELSE "none"

(* A graph compiles exactly when all that it names exists, its final field *)
(* is a scalar that no cycle feeds, the nodes that no cycle feeds have     *)
(* inputs of their kind and the slots suffice; then the plan validates. A  *)
(* cycle apart from the final field is no error (runtime.rs:782-981,       *)
(* pipeline.rs:255-295).                                                   *)
CompilesIfSound == plan # None => plan.error = ExpectedCompile(Graph)

(* What is wrong with a node that compiled: a kernel that indexes more     *)
(* inputs or params than it has, takes one slot twice, clamps to bounds    *)
(* out of order, or reads the third base coordinate of a plane.            *)
Trouble(g, node, size, recycled) ==
  CASE node.kind = "combine" ->
         IF Len(node.inputs) < InputsOf(node.op) \/ Len(node.params) < ParamsOf(node.op) THEN Panic
         ELSE IF InputsOf(node.op) = 2 /\ node.inputs[1] = node.inputs[2] THEN "duplicate slot"
         ELSE IF node.op = "Clamp" /\ size > 0 /\ node.params[1] > node.params[2] THEN Panic
         ELSE "none"
    [] node.kind # "combine" ->
         IF g.dimension = 3 \/ Arity(node.kind) = 2 \/ node.source # Base THEN "none"
         ELSE IF ~recycled THEN "missing buffer"
         ELSE IF size > 0 THEN Panic ELSE "none"

(* What a node makes of the values of its inputs.                          *)
Computed(g, node, at, cell) ==
  LET Input(i) == at[NodeOf(g, References(node)[i])]
      position == IF node.source = Base THEN SubSeq(cell, 1, Arity(node.kind)) ELSE Input(1)
  IN  CASE node.kind \in Warps ->
             [a \in 1..Arity(node.kind) |-> <<"warp", node.noise, position, a>>]
        [] node.kind \in Samples -> <<"noise", node.noise, position>>
        [] node.kind = "combine" ->
             <<node.op, SubSeq(node.params, 1, ParamsOf(node.op)),
               [i \in 1..InputsOf(node.op) |-> Input(i)] \o (IF node.op = "YGradient" THEN <<cell[2]>> ELSE <<>>)>>

(* The value of a node that no cycle feeds, at the cell with these         *)
(* coordinates: found after as many rounds as the graph is deep.           *)
Value(g, node, cell) ==
  LET grounded == Grounded(g)
  IN  FoldLeft(LAMBDA at, n : [x \in grounded |-> Computed(g, x, at, cell)],
               [x \in grounded |-> "none yet"], g.nodes)[node]

(* The cells of a query, x first.                                          *)
Cells(q) ==
  LET w == q.sides[1]
      h == q.sides[2]
      Steps(i) == <<i % w, (i \div w) % h, i \div (w * h)>>
  IN  [i \in 1..Product(q.sides) |->
         [a \in 1..q.dimension |-> <<"at", q.origin[a], q.step[a], Steps(i - 1)[a]>>]]

(* ChunkQuery::samples, added up.                                          *)
SizeOf(queries) == FoldLeft(LAMBDA n, size : n + size, 0, [i \in DOMAIN queries |-> Product(queries[i].sides)])

(* For each query, the value of the final field at each cell, unless there *)
(* are too many cells, or a node is in trouble, wanted for the final field *)
(* or not.                                                                 *)
IsAnswer(result, g, queries, recycled) ==
  LET size == SizeOf(queries)
      troubles == {Trouble(g, node, size, recycled) : node \in Grounded(g)} \ {"none"}
  IN  IF size >= Word THEN result.error = Panic
      ELSE IF troubles # {} THEN result.error \in troubles
      ELSE result = [error |-> "none", values |->
             [i \in DOMAIN queries |-> [k \in DOMAIN Cells(queries[i]) |-> Value(g, NodeOf(g, g.final), Cells(queries[i])[k])]]]

(* More samples than a usize counts, or more in one layer of a query.      *)
Uncountable(queries) ==
  \/ SizeOf(queries) >= Wide
  \/ \E i \in DOMAIN queries : queries[i].sides[1] * queries[i].sides[2] >= Wide

Oversized(q) == \E a \in DOMAIN q.sides : q.sides[a] >= Word

(* What is left of a query whose sides lose all but their low 32 bits.     *)
Cut(q) == [dimension |-> q.dimension, sides |-> [a \in DOMAIN q.sides |-> q.sides[a] % Word],
           origin |-> q.origin, step |-> q.step]

(* A job on a plan answers its queries as the graph says: the value of the *)
(* final field at each cell, or one of the troubles of the nodes that      *)
(* compiled, or a panic for 2^32 samples or more, and in a debug build for *)
(* what a usize cannot count.  The exception: a side of 2^32 or more is    *)
(* cut to its low 32 bits, and the job answers, for the queries cut, with  *)
(* other samples than ChunkQuery::samples counts (runtime.rs:163-357,      *)
(* 464-724, 782-981, 1109-1115, 1181-1533, model.rs:266-275).              *)
JobsComputeGraph ==
  outcome # None =>
    LET queries == outcome.queries
        answered == IF \E i \in DOMAIN queries : Oversized(queries[i])
                    THEN [i \in DOMAIN queries |-> Cut(queries[i])] ELSE queries
    IN  IF \/ \E i \in DOMAIN queries : queries[i].dimension # dimension
           \/ debug /\ Uncountable(queries)
        THEN outcome.result.error = Panic
        ELSE IsAnswer(outcome.result, Graph, answered, outcome.recycled)
=============================================================================
