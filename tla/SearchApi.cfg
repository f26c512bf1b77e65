SPECIFICATION Spec
CONSTANTS
  Null = Null
  ValueError = ValueError
  TypeError = TypeError
  StructError = StructError
  AttributeError = AttributeError
  KeyError = KeyError
  ZigzagShift = 13
  MaxCount = 4
  FloatWidth <- MCFloatWidth
  FloatLow <- MCFloatLow
  IsoFormat <- MCIsoFormat
  RegexFaults <- MCRegexFaults
  ModelFields <- MCModelFields
  Kinds <- MCKinds
  Bodies <- MCBodies
  Callers = {"anonymous", "token", "expired"}
  RowCounts = {0, 3}
  BrotliSize <- MCBrotliSize
  Limits = {2}
  Offsets = {0, 1}
INVARIANTS
  LinkKeepsSearch
  
  BoundsExact
CHECK_DEADLOCK FALSE
