CONSTANTS
  BlockSize = 2
  NumBlocks = 5
  WatermarkBlocks = 0
  PrefixCaching = TRUE
  NoLimit = NoLimit
  MaxEntries = 3
  Seqs = {101, 102}
  Prompts <- MCPrompts
  MaxGenerated = 2
SPECIFICATION Spec
INVARIANTS PinsExact SharedBlocksAreFinal SequencesReadTheirOwnKV
