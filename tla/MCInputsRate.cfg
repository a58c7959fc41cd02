CONSTANTS
  Parts = {"config"}
  Given <- RateGiven
  Fields <- MCFields
  Values = {0, 1, 2, 3, 5, 9}
  Bounds <- MCBounds
  Window = 2
  Gaps = {0, 1}
  BatchSizes = {1, 2}
  TTFTSlo = 3
  ITLSlo = 2
  RecordKinds <- MCRecords
  MaxObserved = 4
  Roles = {"system", "user", "assistant", "other"}
  Contents = {"text", "absent", "number"}
  MaxMessages = 4
SPECIFICATION Spec
INVARIANT RateIsUsable
