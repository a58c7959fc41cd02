CONSTANTS
  BlockSize = 2
  NumBlocks = 3
  WatermarkBlocks = 0
  PrefixCaching = TRUE
  NoLimit = NoLimit
  MaxEntries = NoLimit
  MaxNumSeqs = 2
  MaxNumBatchedTokens = 2
  ChunkedPrefill = TRUE
  MaxWaiting = 2
  PreemptionMode = "recompute"
  NumRequests = 2
  Prompts <- Distinct
  MaxTokensChoices = {2}
  Arrivals = "clock"
  EarlyFinish = "never"
SPECIFICATION FairSpec
PROPERTY EveryRequestEnds
