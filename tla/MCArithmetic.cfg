CONSTANTS
  Images <- MCImages
  EntryPoints = {1536}
  MaxRuns = 1
SPECIFICATION Spec
INVARIANTS BinaryWords DecimalWords Product Order
PROPERTIES ArithmeticExact
CHECK_DEADLOCK FALSE
