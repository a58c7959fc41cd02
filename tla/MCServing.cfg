CONSTANTS
  NumRequests = 2
  MaxTokens = 2
  Limits <- OneOrTwo
  Kinds = {"mock", "vllm", "trtllm", "triton", "ray"}
  None = 0
  DirectAborts = {1}
SPECIFICATION FairSpec
INVARIANTS SlotsExact BackendStateExact StreamsWellFormed MetricsExact
PROPERTIES ImplementsService EveryRequestSettles
