CONSTANTS
  Plans <- MCPlans
  MaxTime = 2
  MaxSamples = 1
  None = None
SPECIFICATION FairSpec
INVARIANTS OneRecordEach MeasuredInWindow SamplerStops
PROPERTY BenchmarkEnds
