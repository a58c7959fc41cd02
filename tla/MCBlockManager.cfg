CONSTANTS
  BlockSize = 2
  NumBlocks = 3
  WatermarkBlocks = 0
  Seqs = {s1, s2}
  MaxTokens = 5
  MaxPins = 2
SPECIFICATION Spec
INVARIANTS TypeOK RefCountsExact FreeListExact TablesFit
PROPERTY TablesOnlyGrow
