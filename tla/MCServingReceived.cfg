CONSTANTS
  NumRequests = 1
  MaxTokens = 1
  Limits <- OneOrTwo
  Kinds = {"mock"}
  None = 0
  DirectAborts = {}
SPECIFICATION Spec
INVARIANT ReceivedAreCounted
