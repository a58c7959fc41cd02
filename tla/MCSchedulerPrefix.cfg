CONSTANTS
  BlockSize = 2
  NumBlocks = 4
  WatermarkBlocks = 1
  PrefixCaching = TRUE
  NoLimit = NoLimit
  MaxEntries = NoLimit
  MaxNumSeqs = 2
  MaxNumBatchedTokens = 3
  ChunkedPrefill = TRUE
  MaxWaiting = 2
  PreemptionMode = "recompute"
  NumRequests = 2
  Prompts <- SharedPrefix
  MaxTokensChoices = {1, 3}
  Arrivals = "explicit"
  EarlyFinish = "any"
SPECIFICATION Spec
INVARIANTS MemoryAccounted SequencesReadTheirOwnKV SharedBlocksAreFull
PROPERTY WatermarkKept
