SPECIFICATION Spec
CONSTANTS
  Hole = Hole
  Zero = Zero
  Generations = 3
  SlotSpace = 38
  Word = 8
  Wide = 64
  Ids = {"a", "b", "c", "d"}
  Nodes <- MCNodes
  Specs <- MCSpecs
  Batches <- MCBatches
  MaxEdits = 2
CHECK_DEADLOCK FALSE
INVARIANTS TypeOK KeysMatchNodes CompilesIfSound JobsComputeGraph
