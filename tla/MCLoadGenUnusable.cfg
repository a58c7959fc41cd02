CONSTANTS
  Plans <- Unusable
  MaxTime = 1
  MaxSamples = 1
  None = None
SPECIFICATION Spec
INVARIANT NoOpWithoutNVML
