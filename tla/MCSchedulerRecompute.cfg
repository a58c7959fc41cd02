CONSTANTS
  BlockSize = 2
  NumBlocks = 4
  WatermarkBlocks = 0
  PrefixCaching = FALSE
  NoLimit = NoLimit
  MaxEntries = NoLimit
  MaxNumSeqs = 2
  MaxNumBatchedTokens = 2
  ChunkedPrefill = TRUE
  MaxWaiting = 1
  PreemptionMode = "recompute"
  NumRequests = 3
  Prompts <- LongAndShort
  MaxTokensChoices = {2, 3}
  Arrivals = "clock"
  EarlyFinish = "batch"
SPECIFICATION FairSpec
INVARIANTS TypeOK QueuesMatchStatus
  BatchWithinBudget BatchKeepsItsBlocks ArrivalOrder OnePartialPrefill
PROPERTIES ImplementsService EveryRequestEnds
