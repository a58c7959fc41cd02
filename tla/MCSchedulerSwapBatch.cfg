CONSTANTS
  BlockSize = 2
  NumBlocks = 4
  WatermarkBlocks = 0
  PrefixCaching = FALSE
  NoLimit = NoLimit
  MaxEntries = NoLimit
  MaxNumSeqs = 3
  MaxNumBatchedTokens = 4
  ChunkedPrefill = TRUE
  MaxWaiting = 2
  PreemptionMode = "swap"
  NumRequests = 3
  Prompts <- LongAndShort
  MaxTokensChoices = {2, 5}
  Arrivals = "clock"
  EarlyFinish = "never"
SPECIFICATION Spec
INVARIANT BatchKeepsItsBlocks
