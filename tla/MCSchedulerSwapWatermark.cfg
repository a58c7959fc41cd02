CONSTANTS
  BlockSize = 2
  NumBlocks = 6
  WatermarkBlocks = 3
  PrefixCaching = FALSE
  NoLimit = NoLimit
  MaxEntries = NoLimit
  MaxNumSeqs = 2
  MaxNumBatchedTokens = 5
  ChunkedPrefill = TRUE
  MaxWaiting = 2
  PreemptionMode = "swap"
  NumRequests = 2
  Prompts <- FourAndOne
  MaxTokensChoices = {5}
  Arrivals = "clock"
  EarlyFinish = "never"
SPECIFICATION FairSpec
PROPERTY EveryRequestEnds
