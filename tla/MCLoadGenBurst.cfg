CONSTANTS
  Plans <- Burst
  MaxTime = 2
  MaxSamples = 0
  None = None
SPECIFICATION Spec
INVARIANT TTFTFromArrival
